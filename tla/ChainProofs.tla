----------------------------- MODULE ChainProofs -----------------------------
(***************************************************************************)
(* Facts about chains and about the operators of Blockchain and            *)
(* ChainProtocol, for the proofs about the modules built on them.            *)
(***************************************************************************)
EXTENDS ChainProtocol, SequenceTheorems, TLAPS

\* What a segment gives for one of its blocks.
LEMMA SegmentBlock ==
    ASSUME NEW s, IsSegment(s), NEW i \in 1..Len(s)
    PROVE  /\ s[i] \in Block
           /\ s[i].index \in Nat
           /\ s[i].index = s[1].index + i - 1
           /\ s[i].hash[1] = s[i].index
           /\ s[i].index # 0 => ValidHash(s[i])
  <1>1. s \in Seq(Block)
    BY DEF IsSegment
  <1>2. s[i] \in Block
    BY <1>1
  <1>3. s[i].index \in Nat
    BY <1>2 DEF Block
  <1> QED
    BY <1>2, <1>3 DEF IsSegment

\* A segment is a sequence of blocks with a first and a last one.
LEMMA SegmentSeq ==
    ASSUME NEW s, IsSegment(s)
    PROVE  /\ s \in Seq(Block)
           /\ s # <<>>
           /\ Len(s) \in Nat
           /\ Len(s) >= 1
           /\ Back(s) \in Block
           /\ s[1] \in Block
           /\ s[1].index \in Nat
           /\ Back(s).index \in Nat
           /\ Back(s).index = s[1].index + Len(s) - 1
           /\ Back(s).hash[1] = Back(s).index
  <1>1. s \in Seq(Block) /\ s # <<>> /\ Len(s) \in Nat /\ Len(s) >= 1
    BY DEF IsSegment
  <1>2. 1 \in 1..Len(s) /\ Len(s) \in 1..Len(s)
    BY <1>1
  <1> QED
    BY <1>1, <1>2, SegmentBlock DEF Back

\* addNewBlock compares no index, but a block whose predecessor's digest and
\* whose own index agree extends a segment.
LEMMA SegmentAppend ==
    ASSUME NEW s, IsSegment(s), NEW b \in Block,
           b.index = s[1].index + Len(s), b.hash[1] = b.index,
           b.prev = Back(s).hash, ValidHash(b)
    PROVE  /\ IsSegment(Append(s, b))
           /\ Append(s, b)[1] = s[1]
           /\ Len(Append(s, b)) = Len(s) + 1
           /\ \A i \in 1..Len(s) : Append(s, b)[i] = s[i]
  <1> DEFINE r == Append(s, b)
  <1>1. s \in Seq(Block) /\ Len(s) \in Nat /\ Len(s) >= 1
    BY SegmentSeq
  <1>2. r \in Seq(Block) /\ r # <<>> /\ Len(r) = Len(s) + 1 /\ r[1] = s[1]
    BY <1>1
  <1>3. (\A i \in 1..Len(s) : r[i] = s[i]) /\ r[Len(s) + 1] = b
    BY <1>1
  <1>4. ASSUME NEW i \in 1..Len(r)
        PROVE  /\ r[i].index = r[1].index + i - 1
               /\ r[i].hash[1] = r[i].index
               /\ r[i].index # 0 => ValidHash(r[i])
    <2>1. CASE i \in 1..Len(s)
      BY <2>1, <1>2, <1>3, SegmentBlock
    <2>2. CASE i = Len(s) + 1
      BY <2>2, <1>1, <1>2, <1>3
    <2> QED
      BY <1>1, <1>2, <2>1, <2>2
  <1>5. ASSUME NEW i \in 2..Len(r)
        PROVE  r[i].prev = r[i - 1].hash
    <2>1. CASE i \in 2..Len(s)
      BY <2>1, <1>1, <1>3 DEF IsSegment
    <2>2. CASE i = Len(s) + 1
      BY <2>2, <1>1, <1>2, <1>3 DEF Back
    <2> QED
      BY <1>1, <1>2, <2>1, <2>2
  <1> QED
    BY <1>2, <1>3, <1>4, <1>5 DEF IsSegment

\* Two segments of which the second links to the first are one.
LEMMA SegmentConcat ==
    ASSUME NEW s, IsSegment(s), NEW u, IsSegment(u),
           u[1].index = s[1].index + Len(s), u[1].prev = Back(s).hash
    PROVE  /\ IsSegment(s \o u)
           /\ (s \o u)[1] = s[1]
           /\ Len(s \o u) = Len(s) + Len(u)
           /\ \A i \in 1..Len(s) : (s \o u)[i] = s[i]
  <1> DEFINE r == s \o u
  <1>1. /\ s \in Seq(Block) /\ Len(s) \in Nat /\ Len(s) >= 1
        /\ u \in Seq(Block) /\ Len(u) \in Nat /\ Len(u) >= 1
        /\ s[1].index \in Nat
    BY SegmentSeq
  <1>2. r \in Seq(Block) /\ r # <<>> /\ Len(r) = Len(s) + Len(u)
    BY <1>1
  <1>3. /\ \A i \in 1..Len(s) : r[i] = s[i]
        /\ \A i \in 1..Len(u) : r[Len(s) + i] = u[i]
        /\ r[1] = s[1]
    BY <1>1
  <1> HIDE DEF r
  <1>6. \A i \in 1..Len(r) :
            i \in 1..Len(s) \/ (i - Len(s) \in 1..Len(u) /\ r[i] = u[i - Len(s)])
    <2> SUFFICES ASSUME NEW i \in 1..Len(r), i \notin 1..Len(s)
                 PROVE  i - Len(s) \in 1..Len(u) /\ r[i] = u[i - Len(s)]
      OBVIOUS
    <2>1. i - Len(s) \in 1..Len(u) /\ i = Len(s) + (i - Len(s))
      BY <1>1, <1>2
    <2> QED
      BY <2>1, <1>3
  <1>4. ASSUME NEW i \in 1..Len(r)
        PROVE  /\ r[i].index = r[1].index + i - 1
               /\ r[i].hash[1] = r[i].index
               /\ r[i].index # 0 => ValidHash(r[i])
    <2>1. CASE i \in 1..Len(s)
      <3>1. /\ s[i].index = s[1].index + i - 1
            /\ s[i].hash[1] = s[i].index
            /\ s[i].index # 0 => ValidHash(s[i])
        BY <2>1, SegmentBlock
      <3>2. r[i] = s[i]
        BY <2>1, <1>3
      <3> QED
        BY <3>1, <3>2, <1>3
    <2>2. CASE i - Len(s) \in 1..Len(u) /\ r[i] = u[i - Len(s)]
      <3> DEFINE j == i - Len(s)
      <3>1. i \in Nat /\ i = Len(s) + j
        BY <1>1, <1>2
      <3>2. j \in 1..Len(u) /\ r[i] = u[j]
        BY <2>2
      <3> HIDE DEF j
      <3>3. /\ u[j].index = u[1].index + j - 1
            /\ u[j].hash[1] = u[j].index
            /\ u[j].index # 0 => ValidHash(u[j])
        BY <3>2, SegmentBlock
      <3>4. /\ r[1].index = s[1].index /\ u[1].index = r[1].index + Len(s)
            /\ s[1].index \in Nat /\ Len(s) \in Nat /\ j \in Nat
        BY <1>1, <1>3, <3>2
      <3>5. r[i].index = r[1].index + i - 1
        BY <3>1, <3>2, <3>3, <3>4
      <3> QED
        BY <3>2, <3>3, <3>5
    <2> QED
      BY <1>6, <2>1, <2>2
  <1>5. ASSUME NEW i \in 2..Len(r)
        PROVE  r[i].prev = r[i - 1].hash
    <2>1. CASE i \in 2..Len(s)
      <3>1. r[i] = s[i] /\ r[i - 1] = s[i - 1]
        BY <2>1, <1>1, <1>3
      <3> QED
        BY <2>1, <3>1 DEF IsSegment
    <2>2. CASE i = Len(s) + 1
      <3>1. r[i] = u[1] /\ r[i - 1] = s[Len(s)]
        BY <2>2, <1>1, <1>3
      <3> QED
        BY <3>1 DEF Back
    <2>3. CASE i \in Len(s) + 2 .. Len(s) + Len(u)
      <3> DEFINE j == i - Len(s)
      <3>0. i \in Int /\ i >= Len(s) + 2 /\ i <= Len(s) + Len(u)
        BY <2>3, <1>1
      <3>1. /\ j \in 2..Len(u) /\ j - 1 \in 1..Len(u) /\ j \in 1..Len(u)
            /\ i = Len(s) + j /\ i - 1 = Len(s) + (j - 1)
        BY <3>0, <1>1
      <3> HIDE DEF j
      <3>2. r[Len(s) + j] = u[j] /\ r[Len(s) + (j - 1)] = u[j - 1]
        BY <3>1, <1>3
      <3>3. u[j].prev = u[j - 1].hash
        BY <3>1 DEF IsSegment
      <3> QED
        BY <3>1, <3>2, <3>3
    <2> QED
      BY <1>1, <1>2, <2>1, <2>2, <2>3
  <1>7. IsSegment(r)
    BY <1>2, <1>4, <1>5 DEF IsSegment
  <1> QED
    BY <1>2, <1>3, <1>7 DEF r

\* Consecutive blocks of a segment are a segment.
LEMMA SegmentSub ==
    ASSUME NEW s, IsSegment(s), NEW m \in 1..Len(s), NEW n \in m..Len(s)
    PROVE  /\ IsSegment(SubSeq(s, m, n))
           /\ Len(SubSeq(s, m, n)) = n - m + 1
           /\ \A i \in 1..(n - m + 1) : SubSeq(s, m, n)[i] = s[m + i - 1]
  <1> DEFINE r == SubSeq(s, m, n)
  <1>1. s \in Seq(Block) /\ Len(s) \in Nat /\ m \in Nat /\ n \in Nat
    BY SegmentSeq
  <1>2. /\ r \in Seq(Block)
        /\ Len(r) = n - m + 1
        /\ \A i \in 1..(n - m + 1) : r[i] = s[m + i - 1]
    BY <1>1
  <1> HIDE DEF r
  <1>3. r # <<>> /\ r[1] = s[m]
    BY <1>1, <1>2
  <1>4. ASSUME NEW i \in 1..Len(r)
        PROVE  /\ r[i].index = r[1].index + i - 1
               /\ r[i].hash[1] = r[i].index
               /\ r[i].index # 0 => ValidHash(r[i])
    <2>1. m + i - 1 \in 1..Len(s) /\ r[i] = s[m + i - 1] 
      BY <1>1, <1>2
    <2>2. /\ r[i].index = s[1].index + (m + i - 1) - 1
          /\ r[i].hash[1] = r[i].index
          /\ r[i].index # 0 => ValidHash(r[i])
      <3> DEFINE j == m + i - 1
      <3> HIDE DEF j
      <3>1. j \in 1..Len(s) /\ r[i] = s[j]
        BY <2>1 DEF j
      <3>2. /\ s[j].index = s[1].index + j - 1
            /\ s[j].hash[1] = s[j].index
            /\ s[j].index # 0 => ValidHash(s[j])
        BY <3>1, SegmentBlock
      <3>3. r[i].index = s[1].index + j - 1
        BY <3>1, <3>2
      <3>4. r[i].hash[1] = r[i].index /\ (r[i].index # 0 => ValidHash(r[i]))
        BY <3>1, <3>2
      <3> QED
        BY <3>3, <3>4 DEF j
    <2>3. s[m].index = s[1].index + m - 1 /\ s[1].index \in Nat
      BY SegmentBlock, SegmentSeq
    <2>4. r[i].index = r[1].index + i - 1
      <3>1. r[1].index = s[m].index
        BY <1>3
      <3>2. i \in Nat /\ m \in Nat
        BY <1>1, <1>2
      <3>3. r[i].index = s[1].index + (m + i - 1) - 1
        BY <2>2
      <3> QED
        BY <2>3, <3>1, <3>2, <3>3
    <2> QED
      BY <2>2, <2>4
  <1>5. ASSUME NEW i \in 2..Len(r)
        PROVE  r[i].prev = r[i - 1].hash
    <2>1. /\ m + i - 1 \in 2..Len(s)
          /\ r[i] = s[m + i - 1]
          /\ r[i - 1] = s[(m + i - 1) - 1]
      BY <1>1, <1>2
    <2> QED
      BY <2>1 DEF IsSegment
  <1> QED
    BY <1>2, <1>3, <1>4, <1>5 DEF IsSegment, r

-----------------------------------------------------------------------------
(* Chains of honest nodes. *)

\* isValidChain accepts them.
LEMMA HonestValid ==
    ASSUME NEW c, HonestChain(c)
    PROVE  c # <<>> /\ StartsAtGenesis(c) /\ IsValidChain(c)
  <1>1. IsSegment(c) /\ c[1].index = 0 /\ c # <<>>
    BY DEF HonestChain, StartsAtGenesis, IsSegment
  <1>2. ASSUME NEW i \in 2..Len(c)
        PROVE  IsValidBlockPair(c, i)
    <2>1. Len(c) \in Nat /\ i \in 1..Len(c) /\ i - 1 \in 1..Len(c)
      BY <1>1, SegmentSeq
    <2>2. c[i].index = i - 1 /\ c[i - 1].index = i - 2 /\ ValidHash(c[i])
      <3>1. /\ c[i].index = c[1].index + i - 1
            /\ c[i].index # 0 => ValidHash(c[i])
        BY <1>1, <2>1, SegmentBlock
      <3> DEFINE j == i - 1
      <3>2. c[j].index = c[1].index + j - 1
        <4> HIDE DEF j
        <4>1. j \in 1..Len(c)
          BY <2>1 DEF j
        <4> QED
          BY <1>1, <4>1, SegmentBlock
      <3> QED
        BY <1>1, <2>1, <3>1, <3>2
    <2>3. c[i].prev = c[i - 1].hash
      BY <1>1 DEF IsSegment
    <2> QED
      BY <2>1, <2>2, <2>3 DEF IsValidBlockPair, ValidHash
  <1> QED
    BY <1>1, <1>2 DEF IsValidChain, StartsAtGenesis

\* In such a chain, block and length agree.
LEMMA HonestBack ==
    ASSUME NEW c, HonestChain(c)
    PROVE  /\ c \in Seq(Block) /\ c # <<>>
           /\ Len(c) \in Nat /\ Len(c) >= 1
           /\ c[1].index = 0
           /\ Back(c) \in Block
           /\ Back(c).index = Len(c) - 1
           /\ Back(c).hash[1] = Len(c) - 1
  <1>1. IsSegment(c) /\ c[1].index = 0
    BY DEF HonestChain, StartsAtGenesis
  <1> QED
    BY <1>1, SegmentSeq

\* An answer to a chain request is a segment, unless it has no blocks.
LEMMA ReplySegment ==
    ASSUME NEW c, HonestChain(c), NEW ids \in {<<>>} \cup (Nat \X Nat),
           ChainReply(c, ids) # <<>>
    PROVE  IsSegment(ChainReply(c, ids))
  <1>1. CASE ids = <<>>
    BY <1>1 DEF ChainReply, HonestChain
  <1>2. CASE ids # <<>>
    <2> DEFINE m == ids[1] + 1
               n == IF ids[2] < Len(c) THEN ids[2] + 1 ELSE Len(c)
    <2>1. ids[1] \in Nat /\ ids[2] \in Nat /\ c \in Seq(Block) /\ Len(c) \in Nat
      BY <1>2, HonestBack
    <2>2. m \in Nat /\ m >= 1 /\ n \in 0..Len(c)
      BY <2>1
    <2>3. ChainReply(c, ids) = SubSeq(c, m, n)
      BY <1>2 DEF ChainReply, BlockRange
    <2> HIDE DEF m, n
    <2>4. m <= n
      <3> SUFFICES ASSUME m > n PROVE FALSE
        BY <2>2
      <3>1. SubSeq(c, m, n) = <<>>
        BY <2>1, <2>2
      <3> QED
        BY <3>1, <2>3
    <2>5. m \in 1..Len(c) /\ n \in m..Len(c)
      BY <2>1, <2>2, <2>4
    <2> QED
      BY <2>3, <2>5, SegmentSub DEF HonestChain
  <1> QED
    BY <1>1, <1>2

\* addNewBlock keeps an honest chain honest, for a block whose previous digest
\* carries the index before its own.
LEMMA HonestAppend ==
    ASSUME NEW c, HonestChain(c), NEW b \in Block,
           b.prev[1] = b.index - 1, b.hash[1] = b.index, CanAddBlock(c, b)
    PROVE  /\ HonestChain(Append(c, b))
           /\ Len(Append(c, b)) = Len(c) + 1
           /\ \A i \in 1..Len(c) : Append(c, b)[i] = c[i]
  <1>1. b.index = c[1].index + Len(c)
    <2>1. b.index \in Nat
      BY DEF Block
    <2>2. b.index - 1 = Len(c) - 1
      BY HonestBack DEF CanAddBlock
    <2> QED
      BY <2>1, <2>2, HonestBack
  <1> QED
    BY <1>1, SegmentAppend DEF HonestChain, CanAddBlock, StartsAtGenesis

-----------------------------------------------------------------------------
(* Updates. *)

\* The loop of addNewBlock takes every block of a segment that links.
LEMMA AttachAll ==
    ASSUME NEW c \in Seq(Block), NEW u, IsSegment(u), ~StartsAtGenesis(u),
           u[1].prev = Back(c).hash
    PROVE  AttachedLength(c, u) = Len(u) /\ AddBlocks(c, u) = c \o u
  <1>1. u \in Seq(Block) /\ Len(u) \in Nat
    BY SegmentSeq
  <1>2. ASSUME NEW i \in 1..Len(u)
        PROVE  Attaches(c, u, i)
    <2>1. u[i].index = u[1].index + i - 1 /\ u[1].index \in Nat /\ u[1].index # 0
      BY SegmentBlock, SegmentSeq DEF StartsAtGenesis
    <2>2. ValidHash(u[i])
      <3>1. u[i].index # 0
        BY <1>1, <2>1
      <3> QED
        BY <3>1, SegmentBlock
    <2>3. i # 1 => u[i].prev = u[i - 1].hash
      <3>1. i # 1 => i \in 2..Len(u)
        BY <1>1
      <3> QED
        BY <3>1 DEF IsSegment
    <2> QED
      BY <2>2, <2>3 DEF Attaches
  <1> DEFINE P(n) == /\ \A i \in 1..n : Attaches(c, u, i)
                     /\ n < Len(u) => ~Attaches(c, u, n + 1)
             k == AttachedLength(c, u)
  <1>3. Len(u) \in 0..Len(u) /\ P(Len(u))
    BY <1>1, <1>2
  <1>4. k \in 0..Len(u) /\ P(k)
    BY <1>3 DEF AttachedLength
  <1>5. k = Len(u)
    <2>1. k < Len(u) => k + 1 \in 1..Len(u)
      BY <1>1, <1>4
    <2> QED
      BY <1>1, <1>2, <1>4, <2>1
  <1> HIDE DEF k
  <1>6. SubSeq(u, 1, Len(u)) = u
    BY <1>1
  <1> QED
    BY <1>5, <1>6 DEF AddBlocks, k

\* What resize leaves ends with the block that the update links to.
LEMMA ResizeLinks ==
    ASSUME NEW c, IsSegment(c), NEW u, LinksToChain(c, u)
    PROVE  LET r == Resize(c, u[1].index)
           IN  /\ IsSegment(r)
               /\ Len(r) = u[1].index
               /\ r[1] = c[1]
               /\ u[1].prev = Back(r).hash
  <1> DEFINE k == u[1].index
             r == Resize(c, k)
  <1>1. k \in 1..Len(c) /\ u[1].prev = c[k].hash /\ Len(c) \in Nat
    BY SegmentSeq DEF LinksToChain
  <1>2. 1 \in 1..Len(c) /\ k \in 1..Len(c)
    BY <1>1
  <1>3. /\ IsSegment(SubSeq(c, 1, k))
        /\ Len(SubSeq(c, 1, k)) = k - 1 + 1
        /\ \A i \in 1..(k - 1 + 1) : SubSeq(c, 1, k)[i] = c[1 + i - 1]
    BY <1>2, SegmentSub
  <1>4. IsSegment(r) /\ Len(r) = k
    BY <1>1, <1>3 DEF Resize
  <1>5. r[1] = c[1] /\ r[k] = c[k]
    <2>1. 1 \in 1..(k - 1 + 1) /\ k \in 1..(k - 1 + 1) /\ 1 + 1 - 1 = 1 /\ 1 + k - 1 = k
      BY <1>1
    <2> QED
      BY <1>3, <2>1 DEF Resize
  <1> QED
    BY <1>1, <1>4, <1>5 DEF Back

\* Cutting the chain where the update links keeps it honest, and the link.
LEMMA ResizeKeeps ==
    ASSUME NEW c, HonestChain(c), NEW u, IsSegment(u), LinksToChain(c, u)
    PROVE  LET r == Resize(c, u[1].index)
           IN  HonestChain(r) /\ LinksToChain(r, u) /\ Len(r) = u[1].index
  <1> DEFINE k == u[1].index
             r == Resize(c, k)
  <1>1. IsSegment(c) /\ c[1].index = 0
    BY DEF HonestChain, StartsAtGenesis
  <1>2. /\ IsSegment(r) /\ Len(r) = k /\ r[1] = c[1]
        /\ u[1].prev = Back(r).hash
    BY <1>1, ResizeLinks
  <1>3. k \in 1..Len(c) /\ Len(c) \in Nat
    BY <1>1, SegmentSeq DEF LinksToChain
  <1> HIDE DEF r, k
  <1>4. HonestChain(r)
    BY <1>1, <1>2 DEF HonestChain, StartsAtGenesis
  <1>5. LinksToChain(r, u)
    BY <1>2, <1>3 DEF LinksToChain, Back, k
  <1> QED
    BY <1>2, <1>4, <1>5 DEF r, k

\* A block of an update that links names its predecessor, and so its place.
LEMMA UpdateBlock ==
    ASSUME NEW c, HonestChain(c), NEW u, IsSegment(u), LinksToChain(c, u), ~StartsAtGenesis(u),
           NEW i \in 1..Len(u)
    PROVE  u[i] \in Block /\ u[i].prev[1] = u[i].index - 1 /\ u[i].hash[1] = u[i].index
  <1>1. /\ u \in Seq(Block) /\ Len(u) \in Nat /\ u[1].index \in Nat
        /\ u[i].index = u[1].index + i - 1 /\ u[i].hash[1] = u[i].index
    BY SegmentBlock, SegmentSeq DEF IsSegment
  <1>2. u[i] \in Block
    BY <1>1
  <1>3. CASE i = 1
    <2> DEFINE k == u[1].index
    <2>1. k \in 1..Len(c) /\ u[1].prev = c[k].hash
      BY DEF LinksToChain
    <2>2. IsSegment(c) /\ c[1].index = 0
      BY DEF HonestChain, StartsAtGenesis
    <2>3. c[k].hash[1] = c[1].index + k - 1
      BY <2>1, <2>2 DEF IsSegment
    <2> QED
      BY <1>1, <1>2, <1>3, <2>1, <2>2, <2>3
  <1>4. CASE i # 1
    <2>1. i \in 2..Len(u) /\ i - 1 \in 1..Len(u)
      BY <1>1, <1>4
    <2>2. u[i].prev = u[i - 1].hash
      BY <2>1 DEF IsSegment
    <2>3. u[i - 1].hash[1] = u[1].index + (i - 1) - 1
      BY <2>1 DEF IsSegment
    <2> QED
      BY <1>1, <1>2, <2>2, <2>3
  <1> QED
    BY <1>3, <1>4

\* addNewBlock of a block of an update, whether the block is taken or refused.
LEMMA AddKeeps ==
    ASSUME NEW c, HonestChain(c), NEW u, IsSegment(u), LinksToChain(c, u), ~StartsAtGenesis(u),
           NEW i \in 1..Len(u)
    PROVE  HonestChain(AddNewBlock(c, u[i])) /\ LinksToChain(AddNewBlock(c, u[i]), u)
  <1>1. CASE CanAddBlock(c, u[i])
    <2>1. /\ HonestChain(Append(c, u[i]))
          /\ Len(Append(c, u[i])) = Len(c) + 1
          /\ \A j \in 1..Len(c) : Append(c, u[i])[j] = c[j]
      BY <1>1, UpdateBlock, HonestAppend
    <2>2. AddNewBlock(c, u[i]) = Append(c, u[i]) /\ Len(c) \in Nat
      BY <1>1, HonestBack DEF AddNewBlock
    <2> DEFINE d == AddNewBlock(c, u[i])
    <2>3. HonestChain(d) /\ Len(d) = Len(c) + 1 /\ \A j \in 1..Len(c) : d[j] = c[j]
      BY <2>1, <2>2
    <2> HIDE DEF d
    <2>4. LinksToChain(d, u)
      BY <2>2, <2>3 DEF LinksToChain
    <2> QED
      BY <2>3, <2>4 DEF d
  <1>2. CASE ~CanAddBlock(c, u[i])
    BY <1>2 DEF AddNewBlock
  <1> QED
    BY <1>1, <1>2

\* A sequence that ends with the first elements of another one, and its next.
LEMMA NextOf ==
    ASSUME NEW S, NEW r \in Seq(S), NEW u \in Seq(S), NEW i \in 1..Len(u)
    PROVE  Append(r \o SubSeq(u, 1, i - 1), u[i]) = r \o SubSeq(u, 1, i)
  OBVIOUS

LEMMA FrontOf ==
    ASSUME NEW S, NEW r \in Seq(S), NEW v \in Seq(S)
    PROVE  SubSeq(r \o v, 1, Len(r)) = r
  OBVIOUS

LEMMA LastOf ==
    ASSUME NEW S, NEW r \in Seq(S), r # <<>>, NEW u \in Seq(S), NEW i \in 1..Len(u),
           NEW v, v = SubSeq(u, 1, i - 1)
    PROVE  (r \o v)[Len(r \o v)] = IF i = 1 THEN r[Len(r)] ELSE u[i - 1]
  <1>1. v \in Seq(S) /\ Len(v) = i - 1 /\ (i # 1 => v[i - 1] = u[i - 1])
    OBVIOUS
  <1>2. Len(r \o v) = Len(r) + (i - 1) /\ Len(r) \in Nat /\ Len(r) >= 1
    BY <1>1, EmptySeq
  <1> QED
    BY <1>1, <1>2

LEMMA CutAt ==
    ASSUME NEW S, NEW c \in Seq(S), NEW k \in 1..Len(c)
    PROVE  /\ SubSeq(c, 1, k) \in Seq(S) /\ SubSeq(c, 1, k) # <<>>
           /\ Len(SubSeq(c, 1, k)) = k /\ SubSeq(c, 1, k)[k] = c[k]
  <1>1. SubSeq(c, 1, k) \in Seq(S) /\ Len(SubSeq(c, 1, k)) = k /\ SubSeq(c, 1, k)[k] = c[k]
    OBVIOUS
  <1>2. k # 0
    OBVIOUS
  <1> QED
    BY <1>1, <1>2, EmptySeq

\* A chain that ends with the first blocks of an update takes the next one.
LEMMA NextTaken ==
    ASSUME NEW c, HonestChain(c), NEW u, IsSegment(u), LinksToChain(c, u), ~StartsAtGenesis(u),
           NEW i \in 1..Len(u)
    PROVE  c = SubSeq(c, 1, u[1].index) \o SubSeq(u, 1, i - 1) =>
               LET d == AddNewBlock(c, u[i])
               IN  /\ CanAddBlock(c, u[i])
                   /\ d = SubSeq(d, 1, u[1].index) \o SubSeq(u, 1, i)
  <1> DEFINE k == u[1].index
             r == SubSeq(c, 1, k)
             v == SubSeq(u, 1, i - 1)
             w == SubSeq(u, 1, i)
  <1>1. /\ c \in Seq(Block) /\ Len(c) \in Nat /\ u \in Seq(Block) /\ Len(u) \in Nat
        /\ k \in 1..Len(c) /\ u[1].prev = c[k].hash /\ i \in Nat
    BY HonestBack, SegmentSeq DEF LinksToChain
  <1>2. ValidHash(u[i])
    <2>1. u[i].index = k + i - 1 /\ (u[i].index # 0 => ValidHash(u[i]))
      BY SegmentBlock
    <2>2. k \in Nat /\ k >= 1
      BY <1>1
    <2> HIDE DEF k
    <2> QED
      BY <1>1, <2>1, <2>2
  <1> HIDE DEF k
  <1>3. r \in Seq(Block) /\ r # <<>> /\ Len(r) = k /\ r[k] = c[k] /\ w \in Seq(Block)
    BY <1>1, CutAt
  <1>4. /\ Append(r \o v, u[i]) = r \o w
        /\ (r \o v)[Len(r \o v)] = IF i = 1 THEN r[Len(r)] ELSE u[i - 1]
        /\ SubSeq(r \o w, 1, Len(r)) = r
    BY <1>1, <1>3, NextOf, LastOf, FrontOf
  <1> HIDE DEF r, v, w
  <1>5. SUFFICES ASSUME c = r \o v
                 PROVE  CanAddBlock(c, u[i]) /\ AddNewBlock(c, u[i]) = r \o w
    BY <1>3, <1>4 DEF r, v, w, k
  <1>6. u[i].prev = Back(c).hash
    <2>1. CASE i = 1
      BY <1>1, <1>3, <1>4, <1>5, <2>1 DEF Back
    <2>2. CASE i # 1
      <3>1. i \in 2..Len(u)
        BY <1>1, <2>2
      <3>2. u[i].prev = u[i - 1].hash
        BY <3>1 DEF IsSegment
      <3> QED
        BY <1>4, <1>5, <2>2, <3>2 DEF Back
    <2> QED
      BY <2>1, <2>2
  <1>7. CanAddBlock(c, u[i]) /\ AddNewBlock(c, u[i]) = Append(c, u[i])
    BY <1>2, <1>6 DEF CanAddBlock, AddNewBlock
  <1> QED
    BY <1>4, <1>5, <1>7

\* syncBlockchain applies an update that attaches as a whole: the new chain is
\* honest, it is a part of the old one followed by the update, and the update
\* still attaches to it.
LEMMA SyncedWhole ==
    ASSUME NEW c, HonestChain(c), NEW u, IsSegment(u),
           StartsAtGenesis(u) \/ LinksToChain(c, u)
    PROVE  /\ ~TooFarAhead(c, u)
           /\ StartsAtGenesis(u) => ~Extends(c, u)
           /\ HonestChain(Synced(c, u))
           /\ ~StartsAtGenesis(u) => LinksToChain(Synced(c, u), u)
           /\ \E n \in 0..Len(c) : Synced(c, u) = SubSeq(c, 1, n) \o u
           /\ Synced(c, u) = SubSeq(c, 1, u[1].index) \o u
  <1>1. /\ c \in Seq(Block) /\ u \in Seq(Block) /\ Len(c) \in Nat /\ Len(c) >= 1
        /\ Back(c).index = Len(c) - 1 /\ c[1].index = 0 /\ u[1].index \in Nat
    BY HonestBack, SegmentSeq
  <1>2. CASE StartsAtGenesis(u)
    <2>1. ~TooFarAhead(c, u) /\ ~Extends(c, u)
      BY <1>1, <1>2 DEF TooFarAhead, Extends, StartsAtGenesis
    <2>2. Synced(c, u) = u
      BY <1>2, <2>1 DEF Synced
    <2>3. 0 \in 0..Len(c) /\ SubSeq(c, 1, 0) \o u = u
      <3>1. SubSeq(c, 1, 0) = <<>>
        BY <1>1
      <3> QED
        BY <1>1, <3>1
    <2> QED
      BY <1>2, <2>1, <2>2, <2>3 DEF HonestChain, StartsAtGenesis
  <1>3. CASE ~StartsAtGenesis(u)
    <2> DEFINE k == u[1].index
               r == Resize(c, k)
    <2>1. LinksToChain(c, u) /\ k \in 1..Len(c)
      BY <1>3 DEF LinksToChain
    <2>2. IsSegment(c)
      BY DEF HonestChain
    <2>3. IsSegment(r) /\ Len(r) = k /\ r[1] = c[1] /\ u[1].prev = Back(r).hash
      BY <2>1, <2>2, ResizeLinks
    <2>4. ~TooFarAhead(c, u)
      BY <1>1, <2>1 DEF TooFarAhead
    <2>5. Synced(c, u) = r \o u
      <3>1. CASE Extends(c, u)
        <4>1. k = Len(c)
          BY <1>1, <3>1 DEF Extends
        <4>2. r = c
          BY <1>1, <4>1 DEF Resize
        <4>3. Synced(c, u) = AddBlocks(c, u)
          BY <1>3, <2>4, <3>1 DEF Synced
        <4>4. AddBlocks(c, u) = c \o u
          BY <1>1, <1>3, <2>3, <4>2, AttachAll
        <4> QED
          BY <4>2, <4>3, <4>4
      <3>2. CASE ~Extends(c, u)
        <4>1. Synced(c, u) = AddBlocks(r, u)
          BY <1>3, <2>4, <3>2 DEF Synced
        <4>2. r \in Seq(Block)
          BY <2>3, SegmentSeq
        <4>3. AddBlocks(r, u) = r \o u
          BY <1>3, <2>3, <4>2, AttachAll
        <4> QED
          BY <4>1, <4>3
      <3> QED
        BY <3>1, <3>2
    <2>6. /\ IsSegment(r \o u)
          /\ (r \o u)[1] = r[1]
          /\ Len(r \o u) = Len(r) + Len(u)
          /\ \A i \in 1..Len(r) : (r \o u)[i] = r[i]
      <3>1. u[1].index = r[1].index + Len(r)
        BY <1>1, <2>3
      <3> QED
        BY <2>3, <3>1, SegmentConcat
    <2>7. HonestChain(r \o u)
      BY <1>1, <2>3, <2>6 DEF HonestChain, StartsAtGenesis
    <2>8. LinksToChain(r \o u, u)
      <3>1. Len(u) \in Nat /\ k \in 1..Len(r) /\ k \in 1..Len(r \o u)
        BY <2>1, <2>3, <2>6, <1>1, SegmentSeq
      <3>2. (r \o u)[k] = Back(r)
        BY <2>3, <2>6, <3>1 DEF Back
      <3> QED
        BY <2>3, <3>1, <3>2 DEF LinksToChain
    <2>9. k \in 0..Len(c) /\ r = SubSeq(c, 1, k)
      BY <1>1, <2>1 DEF Resize
    <2> QED
      BY <1>3, <2>4, <2>5, <2>7, <2>8, <2>9
  <1> QED
    BY <1>2, <1>3

-----------------------------------------------------------------------------
(* Types. *)

\* The difficulty wraps around, but stays within its width.
LEMMA AdjustedType ==
    ASSUME NEW c, HonestChain(c), NEW d \in AdjustedDifficulties(c)
    PROVE  d \in 0..UINT64_MAX
  <1>1. Back(c).difficulty \in 0..UINT64_MAX
    BY HonestBack DEF Block
  <1>2. d \in {Back(c).difficulty, Up(Back(c).difficulty), Down(Back(c).difficulty)}
    BY DEF AdjustedDifficulties
  <1> QED
    BY <1>1, <1>2, BlockchainAssumption DEF Up, Down

\* The block that the mining thread starts from.
LEMMA UnminedType ==
    ASSUME NEW c, HonestChain(c), NEW txs \in Seq(Txs), NEW d \in 0..UINT64_MAX
    PROVE  LET b == UnminedBlock(c, txs, d)
           IN  /\ b \in Block
               /\ b.index >= 1
               /\ b.prev[1] = b.index - 1
               /\ b.hash[1] = b.index
  <1>1. Back(c).hash \in Digest /\ Back(c).hash[1] = Len(c) - 1 /\ Len(c) \in Nat /\ Len(c) >= 1
    BY HonestBack DEF Block
  <1>2. <<Len(c), 0>> \in Digest
    BY <1>1 DEF Digest
  <1> QED
    BY <1>1, <1>2 DEF UnminedBlock, Block, Back

\* Mining changes neither a block's place nor its predecessor.
LEMMA MinedType ==
    ASSUME NEW b \in Block, NEW id \in Nat
    PROVE  LET m == MinedBlock(b, id)
           IN  /\ m \in Block
               /\ m.index = b.index
               /\ m.prev = b.prev
               /\ m.hash[1] = b.index
  <1>1. <<b.index, id>> \in Digest /\ b.difficulty \in Nat
    BY BlockchainAssumption DEF Digest, Block
  <1> HIDE DEF Digest
  <1> QED
    BY <1>1 DEF MinedBlock, Block

\* The requests sent on a summary are well formed.
LEMMA SummaryRequestsType ==
    ASSUME NEW c, HonestChain(c), NEW t, t # <<>> => IsSegment(t),
           NEW resetEnable \in BOOLEAN, NEW p, HonestChain(p)
    PROVE  SummaryRequests(c, t, resetEnable, SummaryReply(p)) \in Seq(Request)
  <1> DEFINE known == IF t = <<>> THEN c ELSE t
             i == Back(known).index + 1
             j == Back(p).index
  <1>1. i \in Nat /\ j \in Nat
    <2>1. IsSegment(known) /\ IsSegment(p)
      BY DEF HonestChain
    <2>2. Back(known).index \in Nat /\ Back(p).index \in Nat
      BY <2>1, SegmentSeq
    <2> QED
      BY <2>2
  <1>2. ChainRequest \in Request /\ RangeRequest(i, j) \in Request
    BY <1>1 DEF ChainRequest, RangeRequest, Request
  <1>3. <<>> \in Seq(Request) /\ <<ChainRequest>> \in Seq(Request)
        /\ <<RangeRequest(i, j)>> \in Seq(Request)
    BY <1>2
  <1>4. SummaryReply(p).back.index = j
    BY DEF SummaryReply
  <1> HIDE DEF i, j
  <1> QED
    BY <1>3, <1>4 DEF SummaryRequests, i, j

\* So are those sent on a chain response: the block before the first one
\* exists when it is asked for.
LEMMA ChainRequestsType ==
    ASSUME NEW c, HonestChain(c), NEW u, IsSegment(u)
    PROVE  ChainRequests(c, u) \in Seq(Request)
  <1> DEFINE i == Back(c).index + 1
             j == Back(u).index
             k == u[1].index - 1
  <1>1. i \in Nat /\ j \in Nat /\ (~StartsAtGenesis(u) => k \in Nat)
    <2>1. Back(c).index \in Nat /\ Back(u).index \in Nat /\ u[1].index \in Nat
      BY SegmentSeq DEF HonestChain
    <2> QED
      BY <2>1 DEF StartsAtGenesis
  <1>2. RangeRequest(i, j) \in Request /\ (~StartsAtGenesis(u) => RangeRequest(k, j) \in Request)
    BY <1>1 DEF RangeRequest, Request
  <1>3. /\ <<>> \in Seq(Request) /\ <<RangeRequest(i, j)>> \in Seq(Request)
        /\ ~StartsAtGenesis(u) => <<RangeRequest(k, j)>> \in Seq(Request)
    BY <1>2
  <1> QED
    BY <1>3 DEF ChainRequests
=============================================================================
