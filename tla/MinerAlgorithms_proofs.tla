---------------------- MODULE MinerAlgorithms_proofs ------------------------
(***************************************************************************)
(* What the parts of MinerAlgorithms compute, for every value of their     *)
(* constants: the spans of a batch, the body of a block, the band of a     *)
(* kernel and the rates of the workers.  Each part's theorems are about    *)
(* the part's own specification.                                           *)
(***************************************************************************)
EXTENDS MinerAlgorithms, DataLemmas

-----------------------------------------------------------------------------
(***************************************************************************)
(* What mine_job looks at, for spans of any size and any width of size_t   *)
(* that is wide enough to count the candidates of a Buffer.                *)
(***************************************************************************)
(* Where mine_job's variables stand at the two spans.                      *)
AtFirst ==
    span = 1 => /\ offset = batch.offset /\ len = batch.len
                /\ looked[2] = {}
AtSecond ==
    span = 2 =>
        IF batch.offset < size[1]
        THEN offset = batch.offset - size[1] + WordMod
        ELSE offset = 0 /\ len = batch.offset + batch.len - size[1]

(* What the spans that are done have contributed.                          *)
FirstDone ==
    span >= 2 => /\ \A j \in Wanted(1) : j \in looked[1]
                 /\ batch.offset < size[1] => counted
SecondDone ==
    span = 3 => /\ batch.offset >= size[1] => \A j \in Wanted(2) : j \in looked[2]
                /\ counted

SpanInv ==
    /\ TypeOK
    /\ AtFirst /\ AtSecond /\ FirstDone /\ SecondDone
    /\ found => counted
    /\ WithinSpans
    /\ RepeatedOnlyBehindSeam

(* A batch as JobQueue::pop cuts it, in numbers.                           *)
LEMMA BatchFacts ==
    ASSUME TypeOK
    PROVE  /\ size[1] \in 0 .. MaxSize /\ size[2] \in 0 .. MaxSize
           /\ batch.offset \in Nat /\ batch.len \in Nat /\ batch.len >= 1
           /\ batch.offset + batch.len <= size[1] + size[2]
           /\ WordMod \in Nat /\ MaxSize \in Nat /\ 2 * MaxSize < WordMod
           /\ offset \in 0 .. WordMod - 1 /\ len \in 0 .. WordMod - 1
           /\ DOMAIN looked = 1 .. 2
  <1>1. size \in [1 .. 2 -> 0 .. MaxSize]
    BY DEF TypeOK, Sizes
  <1>2. batch \in Batch /\ IsBatch(batch, size)
    BY DEF TypeOK
  <1> QED
    BY <1>1, <1>2, WordAssumption DEF TypeOK, Batch, IsBatch, Word

(* At the first span mine_job looks at the batch's share of it.            *)
LEMMA HereFirst ==
    ASSUME SpanInv, span = 1
    PROVE  Here = {j \in 0 .. size[1] - 1 :
                     batch.offset <= j /\ j < batch.offset + batch.len}
  <1>1. offset = batch.offset /\ len = batch.len
    BY DEF SpanInv, AtFirst
  <1>2. Plus(offset, len) = batch.offset + batch.len
    BY <1>1, BatchFacts DEF SpanInv, Plus
  <1> QED
    BY <1>1, <1>2, BatchFacts DEF SpanInv, Here, Bound, Least

(* At the second it looks at nothing, if the batch began in the first, and *)
(* otherwise at all candidates up to the batch's end.                      *)
LEMMA HereSecond ==
    ASSUME SpanInv, span = 2
    PROVE  Here = IF batch.offset < size[1] THEN {}
                  ELSE {j \in 0 .. size[2] - 1 :
                          j < batch.offset + batch.len - size[1]}
  <1>1. CASE batch.offset < size[1]
    <2>1. offset = batch.offset - size[1] + WordMod
      BY <1>1 DEF SpanInv, AtSecond
    <2>2. Bound <= size[2] /\ Bound \in Int
      BY BatchFacts DEF SpanInv, Bound, Least, Plus
    <2>3. offset >= size[2]
      BY <2>1, BatchFacts DEF SpanInv
    <2> QED
      BY <1>1, <2>2, <2>3, BatchFacts DEF SpanInv, Here
  <1>2. CASE ~(batch.offset < size[1])
    <2>1. offset = 0 /\ len = batch.offset + batch.len - size[1]
      BY <1>2 DEF SpanInv, AtSecond
    <2>2. Bound = len
      BY <1>2, <2>1, BatchFacts DEF SpanInv, Bound, Least, Plus
    <2> QED
      BY <1>2, <2>1, <2>2, BatchFacts DEF SpanInv, Here
  <1> QED
    BY <1>1, <1>2

(* How the variables are stepped to the second span.                       *)
LEMMA StepToSecond ==
    ASSUME SpanInv, span = 1
    PROVE  /\ batch.offset < size[1] =>
                OffsetInNext = batch.offset - size[1] + WordMod
           /\ batch.offset >= size[1] =>
                /\ OffsetInNext = 0
                /\ LenInNext = batch.offset + batch.len - size[1]
  <1>1. offset = batch.offset /\ len = batch.len
    BY DEF SpanInv, AtFirst
  <1>2. batch.offset < size[1] =>
            OffsetInNext = batch.offset - size[1] + WordMod
    BY <1>1, BatchFacts DEF SpanInv, OffsetInNext, Minus
  <1>3. ASSUME batch.offset >= size[1]
        PROVE  /\ OffsetInNext = 0
               /\ LenInNext = batch.offset + batch.len - size[1]
    <2>1. OffsetInNext = 0
      BY <1>1, <1>3, BatchFacts DEF SpanInv, OffsetInNext, Minus
    <2>2. Bound = size[1]
      BY <1>1, <1>3, BatchFacts DEF SpanInv, Bound, Least, Plus
    <2>3. LenInNext = batch.offset + batch.len - size[1]
      BY <1>1, <1>3, <2>2, BatchFacts DEF SpanInv, LenInNext, Minus
    <2> QED
      BY <2>1, <2>3
  <1> QED
    BY <1>2, <1>3

(* What has been looked at in a span is its part of the batch, unless the  *)
(* batch begins behind the first span.                                     *)
LEMMA HereWanted ==
    ASSUME SpanInv, span \in 1 .. 2
    PROVE  /\ Here \in SUBSET Nat
           /\ \A j \in Here : j < size[span]
           /\ batch.offset <= size[1] => \A j \in Here : j \in Wanted(span)
           /\ span = 1 => \A j \in Wanted(1) : j \in Here
           /\ (span = 2 /\ batch.offset >= size[1]) => \A j \in Wanted(2) : j \in Here
           /\ (span = 1 /\ batch.offset < size[1]) => Here # {}
           /\ (span = 2 /\ batch.offset >= size[1]) => Here # {}
  <1>1. CASE span = 1
    <2>1. ASSUME batch.offset < size[1] PROVE batch.offset \in Here
      BY <1>1, <2>1, HereFirst, BatchFacts DEF SpanInv
    <2> QED
      BY <1>1, <2>1, HereFirst, BatchFacts DEF SpanInv, Wanted
  <1>2. CASE span = 2
    <2>1. ASSUME batch.offset >= size[1] PROVE 0 \in Here
      BY <1>2, <2>1, HereSecond, BatchFacts DEF SpanInv
    <2> QED
      BY <1>2, <2>1, HereSecond, BatchFacts DEF SpanInv, Wanted
  <1> QED
    BY <1>1, <1>2

LEMMA InitSpanInv == Init => SpanInv
  <1> SUFFICES ASSUME Init PROVE SpanInv
    OBVIOUS
  <1>1. PICK sz \in Sizes, b \in Batch : IsBatch(b, sz) /\ Begin(sz, b)
    BY DEF Init
  <1>2. TypeOK
    <2>1. b.offset \in Word /\ b.len \in Word
      BY WordAssumption DEF Batch, Word
    <2>2. [s \in 1 .. 2 |-> {}] \in [1 .. 2 -> SUBSET Nat]
      OBVIOUS
    <2>3. size \in Sizes /\ batch \in Batch /\ IsBatch(batch, size)
      BY <1>1 DEF Begin
    <2>4. offset \in Word /\ len \in Word /\ looked \in [1 .. 2 -> SUBSET Nat]
      BY <1>1, <2>1, <2>2 DEF Begin
    <2>5. span \in 1 .. 3
      BY <1>1 DEF Begin
    <2>6. counted \in BOOLEAN /\ found \in BOOLEAN
      BY Zenon DEF Init
    <2> QED
      BY <2>3, <2>4, <2>5, <2>6 DEF TypeOK
  <1> QED
    BY <1>1, <1>2
    DEF SpanInv, Init, Begin, AtFirst, AtSecond, FirstDone, SecondDone,
        WithinSpans, RepeatedOnlyBehindSeam

(* MineSpan: the span's candidates are looked at and the next one begins.  *)
LEMMA MineSpanKeeps == SpanInv /\ MineSpan => SpanInv'
  <1> SUFFICES ASSUME SpanInv, MineSpan PROVE SpanInv'
    OBVIOUS
  <1> USE DEF MineSpan
  <1>1. /\ looked' = [looked EXCEPT ![span] = Here]
        /\ looked \in [1 .. 2 -> SUBSET Nat]
        /\ span \in 1 .. 2
    BY DEF SpanInv, TypeOK
  <1>2. /\ looked'[span] = Here
        /\ \A s \in 1 .. 2 : s # span => looked'[s] = looked[s]
    BY <1>1
  <1>3. TypeOK'
    <2>1. LenInNext \in Word /\ OffsetInNext \in Word
      BY <1>1, BatchFacts
      DEF SpanInv, LenInNext, OffsetInNext, Minus, Bound, Least, Plus, Word
    <2> QED
      BY <1>1, <2>1, HereWanted DEF SpanInv, TypeOK
  <1>4. AtFirst' /\ AtSecond'
    BY <1>1, StepToSecond, BatchFacts DEF SpanInv, AtFirst, AtSecond
  <1>5. FirstDone'
    <2>1. CASE span = 1
      BY <1>1, <1>2, <2>1, HereWanted, BatchFacts DEF SpanInv, FirstDone, Wanted
    <2>2. CASE span = 2
      <3>1. looked'[1] = looked[1] /\ Wanted(1)' = Wanted(1)
        BY <1>2, <2>2 DEF Wanted
      <3>2. /\ \A j \in Wanted(1) : j \in looked[1]
            /\ batch.offset < size[1] => counted
        BY <2>2 DEF SpanInv, FirstDone
      <3> QED
        BY <3>1, <3>2 DEF FirstDone
    <2> QED
      BY <1>1, <2>1, <2>2
  <1>6. SecondDone'
    <2> SUFFICES ASSUME span = 2 PROVE SecondDone'
      BY <1>1 DEF SecondDone
    <2>1. looked'[2] = Here /\ Wanted(2)' = Wanted(2)
      BY <1>2 DEF Wanted
    <2>2. batch.offset >= size[1] =>
              /\ Here # {}
              /\ \A j \in Wanted(2) : j \in Here
      BY HereWanted
    <2>3. batch.offset < size[1] => counted
      BY DEF SpanInv, FirstDone
    <2>4. batch.offset >= size[1] \/ batch.offset < size[1]
      BY BatchFacts DEF SpanInv
    <2>5. counted'
      BY <2>2, <2>3, <2>4, Zenon
    <2>6. batch' = batch /\ size' = size
      OBVIOUS
    <2> QED
      BY <2>1, <2>2, <2>5, <2>6 DEF SecondDone
  <1>7. WithinSpans'
    BY <1>1, <1>2, HereWanted DEF SpanInv, WithinSpans
  <1>8. RepeatedOnlyBehindSeam'
    BY <1>1, <1>2, HereWanted DEF SpanInv, RepeatedOnlyBehindSeam, Wanted
  <1> QED
    BY <1>3, <1>4, <1>5, <1>6, <1>7, <1>8 DEF SpanInv

LEMMA FindShareKeeps ==
    ASSUME NEW j \in 0 .. MaxSize, SpanInv, FindShare(j) PROVE SpanInv'
  <1> USE DEF FindShare
  <1>1. /\ looked' = [looked EXCEPT ![span] = {i \in Here : i <= j}]
        /\ looked \in [1 .. 2 -> SUBSET Nat]
        /\ span \in 1 .. 2
    BY DEF SpanInv, TypeOK
  <1>2. /\ looked'[span] = {i \in Here : i <= j}
        /\ \A s \in 1 .. 2 : s # span => looked'[s] = looked[s]
    BY <1>1
  <1>3. TypeOK'
    BY <1>1, HereWanted DEF SpanInv, TypeOK
  <1>4. AtFirst' /\ AtSecond'
    BY <1>1, <1>2 DEF SpanInv, AtFirst, AtSecond
  <1>5. FirstDone' /\ SecondDone'
    BY <1>1, <1>2 DEF SpanInv, FirstDone, SecondDone, Wanted
  <1>6. WithinSpans'
    BY <1>1, <1>2, HereWanted DEF SpanInv, WithinSpans
  <1>7. RepeatedOnlyBehindSeam'
    BY <1>1, <1>2, HereWanted DEF SpanInv, RepeatedOnlyBehindSeam, Wanted
  <1> QED
    BY <1>3, <1>4, <1>5, <1>6, <1>7 DEF SpanInv

LEMMA NextBatchKeeps == SpanInv /\ NextBatch => SpanInv'
  <1> SUFFICES ASSUME SpanInv, NextBatch PROVE SpanInv'
    OBVIOUS
  <1> USE DEF NextBatch
  <1>1. PICK sz \in Sizes, b \in Batch :
            /\ IsBatch(b, sz)
            /\ size' = sz /\ batch' = b
            /\ offset' = b.offset /\ len' = b.len
    OBVIOUS
  <1>2. TypeOK'
    BY <1>1, WordAssumption DEF SpanInv, TypeOK, Word, Sizes, Batch
  <1> QED
    BY <1>1, <1>2
    DEF SpanInv, AtFirst, AtSecond, FirstDone, SecondDone, WithinSpans,
        RepeatedOnlyBehindSeam

LEMMA SpanInvHolds == Spec => []SpanInv
  <1>1. SpanInv /\ UNCHANGED vars => SpanInv'
    BY DEF SpanInv, vars, TypeOK, AtFirst, AtSecond, FirstDone, SecondDone,
           WithinSpans, RepeatedOnlyBehindSeam, Wanted
  <1>2. SpanInv /\ Next => SpanInv'
    BY MineSpanKeeps, FindShareKeeps, NextBatchKeeps DEF Next
  <1> QED
    BY <1>1, <1>2, InitSpanInv, PTL DEF Spec

(* mine_job never reads outside the spans of a Buffer, although its        *)
(* offset and length wrap around (the loop over resultSpans.spans).        *)
THEOREM WithinSpansHolds == Spec => []WithinSpans
  BY SpanInvHolds, PTL DEF SpanInv

(* Candidates are missed only by a batch that begins in the first span and *)
(* ends in the second, and only those of the second.                       *)
THEOREM MissedOnlyAcrossSeamHolds == Spec => []MissedOnlyAcrossSeam
  <1>1. SpanInv => MissedOnlyAcrossSeam
    BY DEF SpanInv, FirstDone, SecondDone, MissedOnlyAcrossSeam, Finished
  <1> QED
    BY <1>1, SpanInvHolds, PTL

(* mine counts a candidate before it returns, as it asserts.               *)
THEOREM TotalNonzeroHolds == Spec => []TotalNonzero
  <1>1. SpanInv => TotalNonzero
    BY DEF SpanInv, SecondDone, TotalNonzero, Finished
  <1> QED
    BY <1>1, SpanInvHolds, PTL

(* Only a batch that begins behind the first candidate of the second span  *)
(* has mine_job look at candidates that belong to another batch.           *)
THEOREM RepeatedOnlyBehindSeamHolds == Spec => []RepeatedOnlyBehindSeam
  BY SpanInvHolds, PTL DEF SpanInv

(* mine_job's offset and len are numbers of type size_t whatever wraps     *)
(* around, and its span is one of the two or their end.                    *)
THEOREM TypeOKHolds == Spec => []TypeOK
  BY SpanInvHolds, PTL DEF SpanInv

-----------------------------------------------------------------------------
(***************************************************************************)
(* For every size of the sections' elements, every length of a body and    *)
(* all counts in it: the sections of a valid body lie within it            *)
(* (BodySections), and the root binds all its entries (RootBindsBody).     *)
(***************************************************************************)
USE BodyAssumption

-----------------------------------------------------------------------------
(***************************************************************************)
(* The body and its view                                                   *)
(***************************************************************************)
ViewKnown ==
    \/ body = NoBody /\ view.outcome = "none" /\ level = <<>>
    \/ body \in Body /\ view = ViewOf(body)

(* What holds of a view v of b that is taken to be valid.                  *)
Tiles(b, v) ==
    /\ v.nAddresses \in Nat /\ v.nRewards \in Nat /\ v.nTransfers \in Nat
    /\ AddressesAt(b) = v.addresses
    /\ v.addresses + AddressSize * v.nAddresses <= v.rewards
    /\ v.rewards + RewardSize * v.nRewards <= v.transfers
    /\ v.transfers + TransferSize * v.nTransfers = b.size

(* Sections that begin where the constructor puts them tile the body.      *)
LEMMA SectionsTile ==
    ASSUME NEW b \in Body, NEW r \in Nat, NEW t \in Nat, NEW at \in Nat,
           at >= RewardsAt(b) + r * RewardSize,
           at + TransferSize * t = b.size
    PROVE  Tiles(b, Sections(b, r, t, at))
<1>1. b.size \in Nat /\ b.nAddresses \in Nat /\ b.v2 \in BOOLEAN
  BY DEF Body
<1>2. b.nAddresses * AddressSize \in Nat /\ r * RewardSize \in Nat
      /\ AddressSize * b.nAddresses = b.nAddresses * AddressSize
      /\ RewardSize * r = r * RewardSize
  BY <1>1
<1>3. AddressesAt(b) \in Nat /\ RewardsAt(b) \in Nat
      /\ AddressesAt(b) + AddressSize * b.nAddresses <= RewardsAt(b)
  BY <1>1, <1>2 DEF AddressesAt, RewardsAt, SeedSize
<1>. DEFINE v == Sections(b, r, t, at)
<1>4. /\ v.nAddresses = b.nAddresses /\ v.nRewards = r /\ v.nTransfers = t
      /\ v.addresses = AddressesAt(b) /\ v.rewards = RewardsAt(b) /\ v.transfers = at
  BY DEF Sections
<1>. HIDE DEF v
<1>. QED  BY <1>1, <1>2, <1>3, <1>4 DEF Tiles, v

LEMMA ValidView ==
    ASSUME NEW b \in Body, ViewOf(b).outcome = "valid"
    PROVE  b.size <= MaxBlockSize /\ Tiles(b, ViewOf(b))
<1>. DEFINE bytes == b.size
            at   == AddressesAt(b)
            rw   == RewardsAt(b)
<1>1. /\ bytes \in Nat /\ at \in Nat /\ rw \in Nat /\ at <= rw
      /\ b.nRewards \in Nat /\ b.nTransfers \in Nat /\ b.v2 \in BOOLEAN
      /\ b.nRewards * RewardSize \in Nat /\ TransferSize * b.nTransfers \in Nat
  <2>1. /\ b.size \in Nat /\ b.nAddresses \in Nat /\ b.nRewards \in Nat
        /\ b.nTransfers \in Nat /\ b.v2 \in BOOLEAN
    BY DEF Body
  <2>2. /\ b.nAddresses * AddressSize \in Nat
        /\ b.nRewards * RewardSize \in Nat /\ TransferSize * b.nTransfers \in Nat
    BY <2>1
  <2>. QED  BY <2>1, <2>2 DEF AddressesAt, RewardsAt, SeedSize
<1>. HIDE DEF bytes, at, rw
<1>2. bytes <= MaxBlockSize
  BY <1>1 DEF ViewOf, Rejected, bytes
<1>3. CASE b.v2
  <2>. DEFINE paid == rw + RewardSize
  <2>1. ViewOf(b) = ViewV2(b)
    BY <1>2, <1>3, <1>1 DEF ViewOf, bytes
  <2>2. ViewV2(b) = CASE bytes < at -> Rejected("malformed")
          [] bytes >= at /\ bytes < paid -> Rejected("invalid")
          [] bytes = paid -> Sections(b, 1, 0, paid)
          [] bytes \in paid + 1 .. paid + 3 -> Rejected("malformed")
          [] OTHER -> IF bytes - (paid + 4) # TransferSize * b.nTransfers
                      THEN Rejected("invalid")
                      ELSE Sections(b, 1, b.nTransfers, paid + 4)
    BY DEF ViewV2, bytes, at, rw
  <2>3. \/ bytes = paid /\ ViewOf(b) = Sections(b, 1, 0, paid)
        \/ /\ bytes - (paid + 4) = TransferSize * b.nTransfers
           /\ ViewOf(b) = Sections(b, 1, b.nTransfers, paid + 4)
    <3>1. bytes >= at
      BY <1>1, <2>1, <2>2 DEF Rejected
    <3>2. ~(bytes >= at /\ bytes < paid)
      BY <1>1, <2>1, <2>2, <3>1 DEF Rejected
    <3>3. CASE bytes = paid
      BY <1>1, <2>1, <2>2, <3>1, <3>2, <3>3
    <3>4. CASE bytes # paid
      <4>1. bytes \notin paid + 1 .. paid + 3
        BY <1>1, <2>1, <2>2, <3>1, <3>2, <3>4 DEF Rejected
      <4>2. ViewOf(b) = IF bytes - (paid + 4) # TransferSize * b.nTransfers
                        THEN Rejected("invalid")
                        ELSE Sections(b, 1, b.nTransfers, paid + 4)
        BY <1>1, <2>1, <2>2, <3>1, <3>2, <3>4, <4>1
      <4>. QED  BY <4>2 DEF Rejected
    <3>. QED  BY <3>3, <3>4
  <2>4. CASE bytes = paid /\ ViewOf(b) = Sections(b, 1, 0, paid)
    <3>1. paid >= RewardsAt(b) + 1 * RewardSize /\ paid + TransferSize * 0 = b.size
      BY <1>1, <2>4 DEF rw, bytes
    <3>. QED  BY <1>1, <1>2, <2>4, <3>1, SectionsTile DEF bytes
  <2>5. CASE /\ bytes - (paid + 4) = TransferSize * b.nTransfers
             /\ ViewOf(b) = Sections(b, 1, b.nTransfers, paid + 4)
    <3>1. /\ paid + 4 >= RewardsAt(b) + 1 * RewardSize
          /\ paid + 4 + TransferSize * b.nTransfers = b.size
      BY <1>1, <2>5 DEF rw, bytes
    <3>. QED  BY <1>1, <1>2, <2>5, <3>1, SectionsTile DEF bytes
  <2>. QED  BY <2>3, <2>4, <2>5
<1>4. CASE ~b.v2
  <2>. DEFINE paid == rw + b.nRewards * RewardSize
  <2>1. ViewOf(b) = ViewV1(b)
    BY <1>2, <1>4, <1>1 DEF ViewOf, bytes
  <2>2. /\ bytes - (paid + 4) = TransferSize * b.nTransfers
        /\ ViewOf(b) = Sections(b, b.nRewards, b.nTransfers, paid + 4)
    BY <1>1, <2>1 DEF ViewV1, Rejected, bytes, rw
  <2>3. /\ paid + 4 >= RewardsAt(b) + b.nRewards * RewardSize
        /\ paid + 4 + TransferSize * b.nTransfers = b.size
    BY <1>1, <2>2 DEF rw, bytes
  <2>. QED  BY <1>1, <1>2, <2>2, <2>3, SectionsTile DEF bytes
<1>. QED  BY <1>1, <1>3, <1>4

-----------------------------------------------------------------------------
(***************************************************************************)
(* The levels of the tree                                                  *)
(***************************************************************************)
(* A hash binds m entries from the one behind a on; a level has L hashes   *)
(* of w entries each, the last of which has the rest of n.                 *)
Chunk(a, m) == [k \in 1 .. m |-> a + k]
Extent(L, w, n, i) == IF i < L THEN w ELSE n - (L - 1) * w
LevelOf(L, w, n, s) ==
    [i \in 1 .. L |-> Binds(Chunk((i - 1) * w, Extent(L, w, n, i)), s)]
Fits(L, w, n) == (L - 1) * w < n /\ n <= L * w

LEMMA ChunksJoin ==
    ASSUME NEW a \in Nat, NEW m \in Nat, NEW p \in Nat
    PROVE  Chunk(a, m) \o Chunk(a + m, p) = Chunk(a, m + p)
<1>. DEFINE s == Chunk(a, m)
            t == Chunk(a + m, p)
            u == Chunk(a, m + p)
<1>1. s \in Seq(Nat) /\ t \in Seq(Nat) /\ u \in Seq(Nat)
  BY DEF Chunk
<1>2. Len(s) = m /\ Len(t) = p /\ Len(u) = m + p
  BY DEF Chunk
<1>3. /\ \A k \in 1 .. m : s[k] = a + k
      /\ \A k \in 1 .. p : t[k] = a + m + k
      /\ \A k \in 1 .. m + p : u[k] = a + k
  BY DEF Chunk
<1>. HIDE DEF s, t, u
<1>4. /\ s \o t \in Seq(Nat) /\ Len(s \o t) = m + p
      /\ \A k \in 1 .. m + p : (s \o t)[k] = IF k <= m THEN s[k] ELSE t[k - m]
  BY <1>1, <1>2, ConcatProperties
<1>5. \A k \in 1 .. m + p : (s \o t)[k] = u[k]
  <2>. TAKE k \in 1 .. m + p
  <2>1. CASE k <= m
    BY <1>3, <1>4, <2>1
  <2>2. CASE ~(k <= m)
    <3>1. k - m \in 1 .. p
      BY <2>2
    <3>2. t[k - m] = a + m + (k - m)
      BY <1>3, <3>1
    <3>. QED  BY <1>3, <1>4, <2>2, <3>2
  <2>. QED  BY <2>1, <2>2
<1>6. s \o t = u
  BY <1>1, <1>2, <1>4, <1>5, SeqEqual
<1>. QED  BY <1>6 DEF s, t, u

(* Facts about products that the steps below need.                         *)
LEMMA Doubled ==
    ASSUME NEW L \in Nat \ {0}, NEW w \in Nat \ {0}, NEW n \in Nat, Fits(L, w, n),
           NEW h \in Nat \ {0}, L = 2 * h \/ L = 2 * h - 1
    PROVE  /\ Fits(h, 2 * w, n)
           /\ \A i \in 1 .. h :
                /\ (2 * i - 2) * w = (i - 1) * (2 * w)
                /\ (i - 1) * (2 * w) \in Nat
                /\ (2 * i - 1) * w = (i - 1) * (2 * w) + w
                /\ 2 * i < L => i < h
                /\ 2 * i = L => /\ i = h /\ n - (L - 1) * w \in Nat
                               /\ w + (n - (L - 1) * w) = n - (h - 1) * (2 * w)
                /\ 2 * i > L => /\ i = h /\ 2 * i - 1 = L
                               /\ n - (L - 1) * w = n - (h - 1) * (2 * w)
<1>1. \A x \in Int, y \in Int : x * y \in Int
  OBVIOUS
<1>. DEFINE hw == h * (2 * w)
<1>2. hw \in Int /\ (h - 1) * (2 * w) = hw - 2 * w
  OBVIOUS
<1>3. CASE L = 2 * h
  <2>1. L * w = hw /\ (L - 1) * w = hw - w
    BY <1>3
  <2>2. Fits(h, 2 * w, n)
    BY <1>2, <2>1 DEF Fits
  <2>3. n - (L - 1) * w \in Nat /\ w + (n - (L - 1) * w) = n - (h - 1) * (2 * w)
    <3>. HIDE DEF hw
    <3>. QED  BY <1>2, <2>1 DEF Fits
  <2>4. ASSUME NEW i \in 1 .. h
        PROVE  /\ (2 * i - 2) * w = (i - 1) * (2 * w)
               /\ (i - 1) * (2 * w) \in Nat
               /\ (2 * i - 1) * w = (i - 1) * (2 * w) + w
    OBVIOUS
  <2>. QED  BY <1>3, <2>2, <2>3, <2>4
<1>4. CASE L = 2 * h - 1
  <2>1. L * w = hw - w /\ (L - 1) * w = hw - 2 * w
    BY <1>4
  <2>2. Fits(h, 2 * w, n)
    BY <1>2, <2>1 DEF Fits
  <2>3. n - (L - 1) * w = n - (h - 1) * (2 * w)
    BY <1>2, <2>1
  <2>4. ASSUME NEW i \in 1 .. h
        PROVE  /\ (2 * i - 2) * w = (i - 1) * (2 * w)
               /\ (i - 1) * (2 * w) \in Nat
               /\ (2 * i - 1) * w = (i - 1) * (2 * w) + w
    OBVIOUS
  <2>. QED  BY <1>4, <2>2, <2>3, <2>4
<1>. QED  BY <1>3, <1>4

LEMMA UpperLevel ==
    ASSUME NEW L \in Nat \ {0}, NEW w \in Nat \ {0}, NEW n \in Nat, NEW s,
           Fits(L, w, n),
           NEW h \in Nat \ {0}, h = (L + 1) \div 2
    PROVE  Fits(h, 2 * w, n) /\ Upper(LevelOf(L, w, n, s)) = LevelOf(h, 2 * w, n, h = 1)
<1>. DEFINE l == LevelOf(L, w, n, s)
<1>1. L = 2 * h \/ L = 2 * h - 1
  OBVIOUS
<1>2. Len(l) = L /\ \A i \in 1 .. L : l[i].entries = Chunk((i - 1) * w, Extent(L, w, n, i))
  BY DEF LevelOf, Binds
<1>. HIDE DEF l
<1>3. ASSUME NEW i \in 1 .. h
      PROVE  (IF 2 * i <= L THEN l[2*i - 1].entries \o l[2*i].entries
                            ELSE l[2*i - 1].entries)
               = Chunk((i - 1) * (2 * w), Extent(h, 2 * w, n, i))
  <2>. DEFINE a == (i - 1) * (2 * w)
  <2>1. /\ (2 * i - 2) * w = a /\ a \in Nat
        /\ (2 * i - 1) * w = a + w
        /\ 2 * i < L => i < h
        /\ 2 * i = L => /\ i = h /\ n - (L - 1) * w \in Nat
                       /\ w + (n - (L - 1) * w) = n - (h - 1) * (2 * w)
        /\ 2 * i > L => /\ i = h /\ 2 * i - 1 = L
                       /\ n - (L - 1) * w = n - (h - 1) * (2 * w)
    BY <1>1, Doubled
  <2>. HIDE DEF a
  <2>2. 2 * i - 1 \in 1 .. L
    BY <1>1
  <2>3. l[2*i - 1].entries = Chunk(a, Extent(L, w, n, 2 * i - 1))
    <3>1. (2 * i - 1) - 1 = 2 * i - 2
      OBVIOUS
    <3>. QED  BY <1>2, <2>1, <2>2, <3>1
  <2>4. CASE 2 * i <= L
    <3>1. l[2*i].entries = Chunk(a + w, Extent(L, w, n, 2 * i))
      <4>1. 2 * i \in 1 .. L
        BY <2>4
      <4>2. l[2*i].entries = Chunk((2 * i - 1) * w, Extent(L, w, n, 2 * i))
        BY <1>2, <4>1
      <4>. QED  BY <2>1, <4>2
    <3>2. Extent(L, w, n, 2 * i - 1) = w
      BY <2>4 DEF Extent
    <3>3. Extent(L, w, n, 2 * i) \in Nat
          /\ w + Extent(L, w, n, 2 * i) = Extent(h, 2 * w, n, i)
      <4>1. CASE 2 * i < L
        BY <2>1, <4>1 DEF Extent
      <4>2. CASE 2 * i = L
        <5>1. /\ Extent(L, w, n, 2 * i) = n - (L - 1) * w
              /\ Extent(h, 2 * w, n, i) = n - (h - 1) * (2 * w)
          BY <2>1, <4>2 DEF Extent
        <5>. QED  BY <2>1, <4>2, <5>1
      <4>. QED  BY <2>4, <4>1, <4>2
    <3>4. Chunk(a, w) \o Chunk(a + w, Extent(L, w, n, 2 * i))
            = Chunk(a, w + Extent(L, w, n, 2 * i))
      <4>. DEFINE p == Extent(L, w, n, 2 * i)
      <4>1. p \in Nat /\ a \in Nat /\ w \in Nat
        BY <2>1, <3>3
      <4>. HIDE DEF p
      <4>2. Chunk(a, w) \o Chunk(a + w, p) = Chunk(a, w + p)
        BY ONLY <4>1, ChunksJoin
      <4>. QED  BY <4>2 DEF p
    <3>. QED  BY <2>3, <2>4, <3>1, <3>2, <3>3, <3>4 DEF a
  <2>5. CASE ~(2 * i <= L)
    <3>1. Extent(L, w, n, 2 * i - 1) = Extent(h, 2 * w, n, i)
      BY <2>1, <2>5 DEF Extent
    <3>. QED  BY <2>3, <2>5, <3>1 DEF a
  <2>. QED  BY <2>4, <2>5
<1>4. Upper(l) = [i \in 1 .. h |->
                    Binds(IF 2 * i <= L THEN l[2*i - 1].entries \o l[2*i].entries
                                        ELSE l[2*i - 1].entries, h = 1)]
  BY <1>2 DEF Upper
<1>5. Upper(l) = LevelOf(h, 2 * w, n, h = 1)
  BY <1>3, <1>4 DEF LevelOf
<1>6. Fits(h, 2 * w, n)
  BY <1>1, Doubled
<1>. QED  BY <1>5, <1>6 DEF l

LEMMA LeavesAreALevel ==
    ASSUME NEW n \in Nat \ {0}
    PROVE  Fits(n, 1, n) /\ Leaves(n) = LevelOf(n, 1, n, FALSE)
<1>1. Fits(n, 1, n)
  BY DEF Fits
<1>2. ASSUME NEW i \in 1 .. n
      PROVE  <<i>> = Chunk((i - 1) * 1, Extent(n, 1, n, i))
  <2>1. (i - 1) * 1 = i - 1 /\ Extent(n, 1, n, i) = 1
    BY DEF Extent
  <2>2. <<i>> = [k \in 1 .. 1 |-> (i - 1) + k]
    OBVIOUS
  <2>. QED  BY <2>1, <2>2 DEF Chunk
<1>. QED  BY <1>1, <1>2 DEF Leaves, LevelOf

-----------------------------------------------------------------------------
(***************************************************************************)
(* The invariant                                                           *)
(***************************************************************************)
LevelKnown ==
    \/ level = <<>> /\ rounds = 0
    \/ /\ body \in Body /\ view.outcome = "valid"
       /\ rounds \in Nat /\ Entries \in Nat \ {0}
       /\ \E L \in Nat \ {0}, w \in Nat \ {0}, s \in BOOLEAN :
             /\ Fits(L, w, Entries)
             /\ level = LevelOf(L, w, Entries, s)
             /\ s <=> rounds > 0 /\ L = 1

IInv == ViewKnown /\ LevelKnown

LEMMA ValidEntries ==
    ASSUME ViewKnown, view.outcome = "valid"
    PROVE  body \in Body /\ Entries \in Nat
<1>1. body \in Body /\ view = ViewOf(body)
  BY DEF ViewKnown
<1>2. Tiles(body, view)
  BY <1>1, ValidView
<1>. QED  BY <1>1, <1>2 DEF Tiles, Entries

(* The only body of which nothing is known is the missing one.             *)
LEMMA NoBodyIsNone == NoBody \notin Body
  BY DEF NoBody, Body

LEMMA IInvInit == InitBody => IInv
  BY DEF InitBody, IInv, ViewKnown, LevelKnown, Rejected

LEMMA IInvNext == IInv /\ [NextBody]_bodyVars => IInv'
<1>. SUFFICES ASSUME IInv, [NextBody]_bodyVars
              PROVE  IInv'
  OBVIOUS
<1>1. CASE GenerateJob
  BY <1>1 DEF GenerateJob, IInv, ViewKnown, LevelKnown
<1>2. CASE HashEntries
  <2>1. body \in Body /\ Entries \in Nat \ {0} /\ view.outcome = "valid"
    BY <1>2, ValidEntries DEF HashEntries, IInv
  <2>2. rounds = 0
    <3>1. CASE level = <<>> /\ rounds = 0
      BY <3>1
    <3>2. CASE \E L \in Nat \ {0}, w \in Nat \ {0}, s \in BOOLEAN :
                 level = LevelOf(L, w, Entries, s)
      <4>1. PICK L \in Nat \ {0}, w \in Nat \ {0}, s \in BOOLEAN :
                 level = LevelOf(L, w, Entries, s)
        BY <3>2
      <4>2. DOMAIN level = 1 .. L
        BY <4>1 DEF LevelOf
      <4>3. 1 \in DOMAIN level
        BY <4>2
      <4>4. DOMAIN level = {}
        BY <1>2 DEF HashEntries
      <4>. QED  BY <4>3, <4>4
    <3>. QED  BY <3>1, <3>2 DEF IInv, LevelKnown
  <2>3. level' = LevelOf(Entries, 1, Entries, FALSE) /\ Fits(Entries, 1, Entries)
    BY <1>2, <2>1, LeavesAreALevel DEF HashEntries
  <2>4. UNCHANGED <<body, view, rounds>> /\ Entries' = Entries
    BY <1>2 DEF HashEntries, Entries
  <2>5. FALSE <=> rounds' > 0 /\ Entries = 1
    BY <2>2, <2>4
  <2>6. LevelKnown'
    <3>1. \E L \in Nat \ {0}, w \in Nat \ {0}, s \in BOOLEAN :
             /\ Fits(L, w, Entries)
             /\ level' = LevelOf(L, w, Entries, s)
             /\ s <=> rounds' > 0 /\ L = 1
      <4>1. 1 \in Nat \ {0} /\ FALSE \in BOOLEAN
        OBVIOUS
      <4>. QED  BY ONLY <2>1, <2>3, <2>5, <4>1
    <3>. QED  BY <2>1, <2>2, <2>4, <3>1 DEF LevelKnown
  <2>7. ViewKnown'
    BY <1>2, <2>1, <2>4 DEF HashEntries, IInv, ViewKnown, NoBody
  <2>. QED  BY <2>6, <2>7 DEF IInv
<1>3. CASE HashLevel
  <2>1. /\ body \in Body /\ view.outcome = "valid"
        /\ rounds \in Nat /\ Entries \in Nat \ {0}
        /\ \E L \in Nat \ {0}, w \in Nat \ {0}, s \in BOOLEAN :
             /\ Fits(L, w, Entries)
             /\ level = LevelOf(L, w, Entries, s)
             /\ s <=> rounds > 0 /\ L = 1
    BY <1>3 DEF HashLevel, IInv, LevelKnown
  <2>2. PICK L \in Nat \ {0}, w \in Nat \ {0}, s \in BOOLEAN :
             /\ Fits(L, w, Entries)
             /\ level = LevelOf(L, w, Entries, s)
    BY <2>1
  <2>. DEFINE h == (L + 1) \div 2
  <2>3. h \in Nat \ {0}
    OBVIOUS
  <2>4. UNCHANGED <<body, view>> /\ Entries' = Entries /\ rounds' = rounds + 1
        /\ level' = Upper(level)
    BY <1>3 DEF HashLevel, Entries
  <2>5. Fits(h, 2 * w, Entries) /\ level' = LevelOf(h, 2 * w, Entries, h = 1)
    <3>. DEFINE n == Entries
                H == h
    <3>1. n \in Nat /\ H \in Nat \ {0} /\ H = (L + 1) \div 2 /\ Fits(L, w, n)
          /\ level = LevelOf(L, w, n, s)
      BY <2>1, <2>2, <2>3
    <3>. HIDE DEF n, H
    <3>2. Fits(H, 2 * w, n) /\ Upper(LevelOf(L, w, n, s)) = LevelOf(H, 2 * w, n, H = 1)
      BY ONLY <3>1, UpperLevel, L \in Nat \ {0}, w \in Nat \ {0}
    <3>. QED  BY <2>4, <3>1, <3>2 DEF n, H
  <2>6. rounds' > 0 /\ rounds' \in Nat /\ 2 * w \in Nat \ {0}
    BY <2>1, <2>4
  <2>7. (h = 1) \in BOOLEAN /\ (h = 1 <=> rounds' > 0 /\ h = 1)
    BY <2>6
  <2>8. \E L1 \in Nat \ {0}, w1 \in Nat \ {0}, s1 \in BOOLEAN :
             /\ Fits(L1, w1, Entries)
             /\ level' = LevelOf(L1, w1, Entries, s1)
             /\ s1 <=> rounds' > 0 /\ L1 = 1
    <3>. HIDE DEF h
    <3>. QED  BY ONLY <2>3, <2>5, <2>6, <2>7
  <2>9. LevelKnown'
    BY <2>1, <2>4, <2>6, <2>8 DEF LevelKnown
  <2>10. ViewKnown'
    BY <2>1, <2>4, <1>3, NoBodyIsNone DEF HashLevel, IInv, ViewKnown
  <2>. QED  BY <2>9, <2>10 DEF IInv
<1>4. CASE UNCHANGED bodyVars
  BY <1>4 DEF bodyVars, IInv, ViewKnown, LevelKnown, Entries
<1>. QED  BY <1>1, <1>2, <1>3, <1>4 DEF NextBody

LEMMA IInvHolds == SpecBody => []IInv
  BY IInvInit, IInvNext, PTL DEF SpecBody

-----------------------------------------------------------------------------
(* The sections of a valid body tile it (BodyView::BodyView), for every    *)
(* body and every size of addresses, rewards and transfers.                *)
THEOREM BodySectionsHolds == SpecBody => []BodySections
<1>1. IInv => BodySections
  <2>. SUFFICES ASSUME ViewKnown, view.outcome = "valid"
                PROVE  BodySections
    BY DEF IInv, BodySections
  <2>1. body \in Body /\ view = ViewOf(body)
    BY DEF ViewKnown
  <2>2. body.size <= MaxBlockSize /\ Tiles(body, view)
    BY <2>1, ValidView
  <2>. QED  BY <2>2 DEF Tiles, BodySections
<1>. QED  BY <1>1, IInvHolds, PTL

(* The merkle root binds every entry once and in order, and only it the    *)
(* seed (BodyView::merkleRoot), for any number of entries.                 *)
THEOREM RootBindsBodyHolds == SpecBody => []RootBindsBody
<1>1. IInv => RootBindsBody
  <2>. SUFFICES ASSUME LevelKnown
                PROVE  RootBindsBody
    BY DEF IInv
  <2>1. CASE level = <<>>
    BY <2>1 DEF RootBindsBody, HasRoot
  <2>2. CASE /\ rounds \in Nat /\ Entries \in Nat \ {0}
             /\ \E L \in Nat \ {0}, w \in Nat \ {0}, s \in BOOLEAN :
                   /\ Fits(L, w, Entries)
                   /\ level = LevelOf(L, w, Entries, s)
                   /\ s <=> rounds > 0 /\ L = 1
    <3>1. PICK L \in Nat \ {0}, w \in Nat \ {0}, s \in BOOLEAN :
                   /\ Fits(L, w, Entries)
                   /\ level = LevelOf(L, w, Entries, s)
                   /\ s <=> rounds > 0 /\ L = 1
      BY <2>2
    <3>2. Len(level) = L /\ DOMAIN level = 1 .. L
          /\ \A i \in 1 .. L :
                level[i] = Binds(Chunk((i - 1) * w, Extent(L, w, Entries, i)), s)
      BY <3>1 DEF LevelOf
    <3>3. HasRoot <=> s
      BY <3>1, <3>2 DEF HasRoot
    <3>4. CASE HasRoot
      <4>1. L = 1 /\ s = TRUE
        BY <3>1, <3>3, <3>4
      <4>2. level[1] = Binds(Chunk((1 - 1) * w, Extent(1, w, Entries, 1)), TRUE)
        <5>1. 1 \in 1 .. L
          BY <4>1
        <5>2. level[1] = Binds(Chunk((1 - 1) * w, Extent(L, w, Entries, 1)), s)
          BY <3>2, <5>1
        <5>. QED  BY ONLY <4>1, <5>2
      <4>3. (1 - 1) * w = 0 /\ Extent(1, w, Entries, 1) = Entries
        BY <2>2 DEF Extent
      <4>4. Chunk(0, Entries) = [i \in 1 .. Entries |-> i]
        BY <2>2 DEF Chunk
      <4>. QED  BY <3>4, <4>2, <4>3, <4>4 DEF RootBindsBody
    <3>5. CASE ~HasRoot
      <4>1. s = FALSE
        BY <3>3, <3>5
      <4>2. \A i \in 1 .. L : level[i].seeded = FALSE
        BY <3>2, <4>1 DEF Binds
      <4>. QED  BY <3>2, <3>5, <4>2 DEF RootBindsBody
    <3>. QED  BY <3>4, <3>5
  <2>. QED  BY <2>1, <2>2 DEF LevelKnown
<1>. QED  BY <1>1, IInvHolds, PTL
HIDE BodyAssumption

-----------------------------------------------------------------------------
(***************************************************************************)
(* For words of any width, any two constants with c not above C_CONSTANT,  *)
(* all fractions, rooms and ranges, a kernel asks for results that fit the *)
(* ring's room, its band is not wider than to expect that many, and a      *)
(* worker looks at the proportion of the band it was told to look at       *)
(* (BandFitsRoom).                                                         *)
(***************************************************************************)
USE BandAssumption

LEMMA Quotient ==
    ASSUME NEW a \in Nat, NEW b \in Nat \ {0}
    PROVE  /\ a \div b \in Nat
           /\ b * (a \div b) <= a /\ a < b * (a \div b) + b
           /\ a % b \in Nat /\ a % b <= a
  OBVIOUS

(* A quotient is at most r if the dividend is at most r times the divisor. *)
LEMMA QuotientBound ==
    ASSUME NEW a \in Nat, NEW b \in Nat \ {0}, NEW r \in Nat, a <= b * r
    PROVE  a \div b <= r
<1>. DEFINE q == a \div b
<1>1. q \in Nat /\ b * q <= b * r
  <2>1. q \in Nat /\ b * q <= a
    BY Quotient
  <2>2. b * q \in Nat /\ b * r \in Nat
    BY <2>1
  <2>. HIDE DEF q
  <2>. QED  BY <2>1, <2>2
<1>. HIDE DEF q
<1>2. ASSUME q > r
      PROVE  FALSE
  <2>1. PICK x \in Nat \ {0} : q = r + x
    <3>1. q - r \in Nat \ {0} /\ q = r + (q - r)
      BY <1>1, <1>2
    <3>. QED  BY <3>1
  <2>2. b * q = b * r + b * x /\ b * x > 0 /\ b * r \in Nat /\ b * x \in Nat
    BY <2>1
  <2>. QED  BY <1>1, <2>2
<1>3. q <= r
  BY <1>1, <1>2
<1>. QED  BY <1>3 DEF q

LEMMA Times == \A x \in Nat, y \in Nat : x * y \in Nat
  OBVIOUS

LEMMA TimesMonotone ==
    ASSUME NEW x \in Nat, NEW y \in Nat, NEW z \in Nat, x <= y
    PROVE  x * z <= y * z
<1>1. PICK u \in Nat : y = x + u
  <2>1. y - x \in Nat /\ y = x + (y - x)
    OBVIOUS
  <2>. QED  BY <2>1
<1>2. y * z = x * z + u * z /\ u * z \in Nat /\ x * z \in Nat
  BY <1>1, Times
<1>. QED  BY <1>2

-----------------------------------------------------------------------------
(***************************************************************************)
(* The arithmetic of try_start                                             *)
(***************************************************************************)
LEMMA CountsFit ==
    ASSUME NEW f \in Fractions, NEW N \in Nat \ {0}, NEW room \in Nat \ {0}
    PROVE  LET n == NonceCount(f, N, room)
               M == ResultCount(f, n)
           IN  n \in Nat \ {0} /\ M \in Nat \ {0} /\ M <= n /\ M <= room
<1>. DEFINE x == 201 * f.cpu
            y == f.gpu * 200
            a == room * 200 * f.gpu
            fill == a \div x
            n == NonceCount(f, N, room)
            e == n * f.cpu * 201
            M == ResultCount(f, n)
<1>1. f.cpu \in Nat \ {0} /\ f.gpu \in Nat \ {0}
  OBVIOUS
<1>2. x \in Nat \ {0} /\ y \in Nat \ {0} /\ a \in Nat /\ a = y * room
  BY <1>1
<1>3. fill \in Nat /\ x * fill <= a
  <2>. HIDE DEF x, a
  <2>. QED  BY <1>2, Quotient
<1>4. n = Smaller(N, IF fill < room THEN room ELSE fill)
  BY DEF NonceCount
<1>. HIDE DEF fill
<1>5. n \in Nat \ {0} /\ (n <= room \/ n <= fill)
  <2>. HIDE DEF n
  <2>. QED  BY <1>3, <1>4 DEF Smaller
<1>6. M = IF Smaller(e \div y, n) = 0 THEN 1 ELSE Smaller(e \div y, n)
  BY DEF ResultCount
<1>. HIDE DEF n, M
<1>7. e \in Nat /\ e = n * x
  BY <1>1, <1>5
<1>. HIDE DEF x, y, a, e
<1>8. e \div y \in Nat
  BY <1>2, <1>7, Quotient
<1>9. M \in Nat \ {0} /\ M <= n /\ (M <= e \div y \/ M = 1)
  BY <1>5, <1>6, <1>8 DEF Smaller
<1>10. M <= room
  <2>1. CASE n <= room
    BY <1>5, <1>9, <2>1
  <2>2. CASE n <= fill
    <3>1. n * x <= fill * x
      BY <1>2, <1>3, <1>5, <2>2, TimesMonotone
    <3>2. fill * x = x * fill /\ fill * x \in Nat
      BY <1>2, <1>3
    <3>3. e <= y * room
      BY <1>2, <1>3, <1>7, <3>1, <3>2
    <3>4. e \div y <= room
      BY <1>2, <1>7, <3>3, QuotientBound
    <3>. QED  BY <1>8, <1>9, <3>4
  <2>. QED  BY <1>5, <2>1, <2>2
<1>. QED  BY <1>5, <1>9, <1>10 DEF n, M

LEMMA BandWidth ==
    ASSUME NEW M \in Nat \ {0}, NEW n \in Nat \ {0}
    PROVE  /\ Threshold(M, n) \in Nat
           /\ Cardinality(Selected(Threshold(M, n))) * n <= M * (MaxHash + 1)
<1>. DEFINE w == MaxHash - CThreshold
            q == (M * w) \div n
            t == Threshold(M, n)
<1>1. w \in Nat /\ M * w \in Nat
  BY Times
<1>2. q \in Nat /\ n * q <= M * w
  <2>. HIDE DEF w
  <2>. QED  BY <1>1, Quotient
<1>3. t = (CThreshold + q) % (MaxHash + 1)
  BY DEF Threshold
<1>. HIDE DEF q, t, w
<1>4. t \in Nat /\ t <= CThreshold + q
  BY <1>2, <1>3, Quotient
<1>5. M * w <= M * (MaxHash + 1) /\ M * (MaxHash + 1) \in Nat
  <2>1. w <= MaxHash + 1
    BY DEF w
  <2>2. w * M <= (MaxHash + 1) * M
    BY <1>1, <2>1, TimesMonotone
  <2>. QED  BY <1>1, <2>2
<1>6. Cardinality(C .. t - 1) = IF C > t - 1 THEN 0 ELSE (t - 1) - C + 1
  BY <1>4, FS_Interval
<1>7. CASE C > t - 1
  <2>1. Cardinality(Selected(t)) = 0
    BY <1>6, <1>7 DEF Selected
  <2>. QED  BY <1>4, <1>5, <2>1 DEF t
<1>8. CASE ~(C > t - 1)
  <2>. DEFINE k == t - C
  <2>1. Cardinality(Selected(t)) = k /\ k \in Nat /\ k <= q
    BY <1>2, <1>4, <1>6, <1>8 DEF Selected
  <2>. HIDE DEF k
  <2>2. k * n <= q * n
    BY <1>2, <2>1, TimesMonotone
  <2>3. k * n \in Nat /\ q * n = n * q /\ n * q \in Nat
    BY <1>2, <2>1, Times
  <2>4. k * n <= M * (MaxHash + 1)
    BY <1>1, <1>2, <1>5, <2>2, <2>3
  <2>. QED  BY <1>4, <2>1, <2>4 DEF t
<1>. QED  BY <1>7, <1>8

(***************************************************************************)
(* The part of the band a worker looks at                                  *)
(***************************************************************************)
Proportions == {d \in [part : Nat \ {0}, of : Nat \ {0}] : d.part <= d.of}

LEMMA ProportionKnown ==
    ASSUME NEW rate \in Nat, NEW w \in Nat
    PROVE  MineProportion(rate, w) \in Proportions
<1>1. CASE rate = 0 \/ rate > w * 10
  BY <1>1 DEF MineProportion, Proportions
<1>2. CASE ~(rate = 0 \/ rate > w * 10)
  <2>1. rate \in Nat \ {0} /\ w * 10 \in Nat \ {0} /\ rate <= w * 10
    BY <1>2
  <2>. QED  BY <1>2, <2>1 DEF MineProportion, Proportions
<1>. QED  BY <1>1, <1>2

LEMMA LookedPart ==
    ASSUME NEW t \in Nat, t > C, NEW d \in Proportions
    PROVE  LET width == t - C
               n == Cardinality({h \in Selected(t) : h <= ScaledThreshold(t, d)})
           IN  /\ n >= 1 /\ d.part * width <= d.of * n
               /\ d.of * (n - 1) <= d.part * width
<1>. DEFINE width == t - C
            p == d.part
            o == d.of
            q == (p * width) \div o
            examined == {h \in Selected(t) : h <= ScaledThreshold(t, d)}
            n == Cardinality(examined)
<1>1. p \in Nat \ {0} /\ o \in Nat \ {0} /\ p <= o /\ width \in Nat \ {0}
  BY DEF Proportions
<1>2. p * width \in Nat /\ p * width <= o * width /\ o * width \in Nat
  <2>. HIDE DEF p, o, width
  <2>. QED  BY <1>1, Times, TimesMonotone
<1>3. q \in Nat /\ o * q <= p * width /\ p * width < o * q + o /\ q <= width
  <2>. HIDE DEF p, o, width
  <2>. QED  BY <1>1, <1>2, Quotient, QuotientBound
<1>4. ScaledThreshold(t, d) = q + C
  BY DEF ScaledThreshold
<1>5. examined = C .. (IF q = width THEN t - 1 ELSE q + C)
  <2>. HIDE DEF q
  <2>. QED  BY <1>3, <1>4 DEF Selected
<1>6. n = IF q = width THEN width ELSE q + 1
  <2>1. ASSUME NEW b \in Int, b >= C
        PROVE  Cardinality(C .. b) = b - C + 1
    BY <2>1, FS_Interval
  <2>2. CASE q = width
    <3>1. examined = C .. t - 1 /\ t - 1 >= C /\ t - 1 \in Int
      BY <1>5, <2>2
    <3>2. n = (t - 1) - C + 1
      BY <2>1, <3>1
    <3>. QED  BY <2>2, <3>2
  <2>3. CASE q # width
    <3>1. examined = C .. q + C /\ q + C >= C /\ q + C \in Int
      <4>. HIDE DEF q
      <4>. QED  BY <1>3, <1>5, <2>3
    <3>2. n = (q + C) - C + 1
      BY <2>1, <3>1
    <3>. HIDE DEF q, n
    <3>. QED  BY <1>3, <2>3, <3>2
  <2>. QED  BY <2>2, <2>3
<1>. HIDE DEF q, n, width, p, o, examined
<1>7. n \in Nat /\ n >= 1 /\ n - 1 <= q
  BY <1>1, <1>3, <1>6
<1>8. p * width <= o * n
  <2>1. CASE q = width
    BY <1>2, <1>6, <2>1
  <2>2. CASE q # width
    <3>1. o * (q + 1) = o * q + o /\ o * q \in Nat
      BY <1>1, <1>3
    <3>. QED  BY <1>1, <1>2, <1>3, <1>6, <2>2, <3>1
  <2>. QED  BY <2>1, <2>2
<1>9. o * (n - 1) <= p * width
  <2>1. (n - 1) * o <= q * o
    BY <1>1, <1>3, <1>7, TimesMonotone
  <2>2. (n - 1) * o = o * (n - 1) /\ q * o = o * q /\ o * (n - 1) \in Nat /\ o * q \in Nat
    BY <1>1, <1>3, <1>7
  <2>. QED  BY <1>2, <1>3, <2>1, <2>2
<1>. QED  BY <1>7, <1>8, <1>9 DEF p, o, width, n, examined

-----------------------------------------------------------------------------
(***************************************************************************)
(* The invariant                                                           *)
(***************************************************************************)
KernelBand(f, room, n, M, left) ==
    [stage |-> "kernel", fraction |-> f, room |-> room, asked |-> n,
     nonces |-> Smaller(n, left), results |-> M,
     threshold |-> Threshold(M, Smaller(n, left))]
MinedBand(t, d) ==
    [stage |-> "mined", threshold |-> t, proportion |-> d,
     looked |-> {h \in Selected(t) : h <= ScaledThreshold(t, d)}]

BandKnown ==
    \/ band = NoBand
    \/ \E f \in Fractions, room \in Nat \ {0}, n \in Nat \ {0}, M \in Nat \ {0},
          left \in Nat \ {0} :
          M <= n /\ M <= room /\ band = KernelBand(f, room, n, M, left)
    \/ \E t \in Nat, d \in Proportions : t > C /\ band = MinedBand(t, d)

LEMMA BandInit == InitBand => BandKnown
  BY DEF InitBand, BandKnown

LEMMA BandNext == BandKnown /\ [NextBand]_band => BandKnown'
<1>. SUFFICES ASSUME BandKnown, [NextBand]_band
              PROVE  BandKnown'
  OBVIOUS
<1>1. CASE StartBand
  <2>1. PICK f \in Fractions, N \in Requests, room \in Rooms \ {0}, left \in Remaining :
           band' = KernelBand(f, room, NonceCount(f, N, room),
                              ResultCount(f, NonceCount(f, N, room)), left)
    BY <1>1 DEF StartBand, KernelBand
  <2>2. N \in Nat \ {0} /\ room \in Nat \ {0} /\ left \in Nat \ {0}
    OBVIOUS
  <2>. DEFINE n == NonceCount(f, N, room)
              M == ResultCount(f, n)
  <2>3. n \in Nat \ {0} /\ M \in Nat \ {0} /\ M <= n /\ M <= room
    BY <2>2, CountsFit
  <2>4. band' = KernelBand(f, room, n, M, left)
    BY <2>1
  <2>. HIDE DEF n, M
  <2>. QED  BY <2>2, <2>3, <2>4 DEF BandKnown
<1>2. CASE MineBand
  <2>1. PICK rate \in {0, band.fraction.cpu}, w \in Watermarks :
           band' = MinedBand(band.threshold, MineProportion(rate, w))
    BY <1>2 DEF MineBand, MinedBand
  <2>2. PICK f \in Fractions, room \in Nat \ {0}, n \in Nat \ {0}, M \in Nat \ {0},
             left \in Nat \ {0} :
             M <= n /\ M <= room /\ band = KernelBand(f, room, n, M, left)
    BY <1>2 DEF BandKnown, MineBand, NoBand, MinedBand
  <2>3. /\ band.fraction = f
        /\ band.threshold = Threshold(M, Smaller(n, left))
    BY <2>2 DEF KernelBand
  <2>4. Smaller(n, left) \in Nat \ {0}
    BY DEF Smaller
  <2>5. band.threshold \in Nat
    BY <2>3, <2>4, BandWidth
  <2>6. Selected(band.threshold) # {}
    BY <1>2 DEF MineBand
  <2>7. band.threshold > C
    BY <2>5, <2>6 DEF Selected
  <2>8. rate \in Nat /\ w \in Nat
    <3>1. f.cpu \in Nat
      OBVIOUS
    <3>2. rate = 0 \/ rate = f.cpu
      BY <2>3
    <3>3. w \in Nat
      OBVIOUS
    <3>. QED  BY <3>1, <3>2, <3>3
  <2>9. MineProportion(rate, w) \in Proportions
    BY <2>8, ProportionKnown
  <2>. QED  BY <2>1, <2>5, <2>7, <2>9 DEF BandKnown
<1>3. CASE UNCHANGED band
  BY <1>3 DEF BandKnown
<1>. QED  BY <1>1, <1>2, <1>3 DEF NextBand

LEMMA BandKnownHolds == SpecBand => []BandKnown
  BY BandInit, BandNext, PTL DEF SpecBand

(* What a kernel is started with fits the ring's room, and what a worker   *)
(* looks at is its proportion of the band (try_start, threshold,           *)
(* mine_proportion, scaled_threshold).                                     *)
THEOREM BandFitsRoomHolds == SpecBand => []BandFitsRoom
<1>1. BandKnown => BandFitsRoom
  <2>. SUFFICES ASSUME BandKnown
                PROVE  BandFitsRoom
    OBVIOUS
  <2>1. CASE band = NoBand
    BY <2>1 DEF NoBand, BandFitsRoom
  <2>2. CASE \E f \in Fractions, room \in Nat \ {0}, n \in Nat \ {0}, M \in Nat \ {0},
                left \in Nat \ {0} :
                M <= n /\ M <= room /\ band = KernelBand(f, room, n, M, left)
    <3>1. PICK f \in Fractions, room \in Nat \ {0}, n \in Nat \ {0}, M \in Nat \ {0},
               left \in Nat \ {0} :
               M <= n /\ M <= room /\ band = KernelBand(f, room, n, M, left)
      BY <2>2
    <3>. DEFINE k == Smaller(n, left)
    <3>2. /\ band.stage = "kernel" /\ band.results = M /\ band.room = room
          /\ band.asked = n /\ band.nonces = k /\ band.threshold = Threshold(M, k)
      BY <3>1 DEF KernelBand
    <3>3. k \in Nat \ {0}
      BY DEF Smaller
    <3>. HIDE DEF k
    <3>4. Cardinality(Selected(Threshold(M, k))) * k <= M * (MaxHash + 1)
      BY <3>3, BandWidth
    <3>. QED  BY <3>1, <3>2, <3>4 DEF BandFitsRoom
  <2>3. CASE \E t \in Nat, d \in Proportions : t > C /\ band = MinedBand(t, d)
    <3>1. PICK t \in Nat, d \in Proportions : t > C /\ band = MinedBand(t, d)
      BY <2>3
    <3>2. /\ band.stage = "mined" /\ band.threshold = t /\ band.proportion = d
          /\ band.looked = {h \in Selected(t) : h <= ScaledThreshold(t, d)}
      BY <3>1 DEF MinedBand
    <3>. DEFINE n == Cardinality(band.looked)
    <3>3. n >= 1 /\ d.part * (t - C) <= d.of * n /\ d.of * (n - 1) <= d.part * (t - C)
      BY <3>1, <3>2, LookedPart
    <3>4. 0 < d.part /\ d.part <= d.of
      BY DEF Proportions
    <3>. QED  BY <3>2, <3>3, <3>4 DEF BandFitsRoom
  <2>. QED  BY <2>1, <2>2, <2>3 DEF BandKnown
<1>. QED  BY <1>1, BandKnownHolds, PTL
HIDE BandAssumption

-----------------------------------------------------------------------------
(***************************************************************************)
(* The rates of the workers.  For any number of workers, any times and     *)
(* numbers and any way in which the workers' reports reach the             *)
(* coordinator: the array holds the first report of each worker since the  *)
(* last total, and the counter how many there are (RoundKnown), so that    *)
(* the total is taken exactly when there is one of each.                   *)
(***************************************************************************)
ReportedRate == [worker : Worker, rate : Nat \ {0}]
Event == [worker : Worker, timing : Timings]

(* The first report of w in log, or 0.                                     *)
IsFirst(w, log, k) ==
    \/ k = 0 /\ \A i \in 1 .. Len(log) : log[i].worker # w
    \/ /\ k \in 1 .. Len(log) /\ log[k].worker = w
       /\ \A i \in 1 .. k - 1 : log[i].worker # w

LEMMA FirstOfIs ==
    ASSUME NEW w, NEW log \in Seq(ReportedRate)
    PROVE  IsFirst(w, log, FirstOf(w, log))
<1>. DEFINE I == {i \in 1 .. Len(log) : log[i].worker = w}
<1>1. FirstOf(w, log) = IF I # {} THEN CHOOSE x \in I : \A y \in I : x <= y ELSE 0
  BY DEF FirstOf, SelectInSeq, Min
<1>2. Len(log) \in Nat
  OBVIOUS
<1>3. CASE I = {}
  BY <1>1, <1>3 DEF IsFirst
<1>4. CASE I # {}
  <2>1. I \subseteq Nat
    BY <1>2
  <2>2. \E x \in I : \A y \in I : x <= y
    BY <1>4, <2>1, LeastNumber
  <2>3. PICK x \in I : FirstOf(w, log) = x /\ \A y \in I : x <= y
    BY <1>1, <1>4, <2>2
  <2>4. \A i \in 1 .. x - 1 : i \in 1 .. Len(log) /\ i < x
    BY <1>2, <2>3
  <2>5. \A i \in 1 .. x - 1 : log[i].worker # w
    BY <2>1, <2>3, <2>4
  <2>. QED  BY <2>3, <2>5 DEF IsFirst
<1>. QED  BY <1>3, <1>4

LEMMA FirstUnique ==
    ASSUME NEW w, NEW log \in Seq(ReportedRate), NEW k, NEW l,
           IsFirst(w, log, k), IsFirst(w, log, l)
    PROVE  k = l
<1>1. Len(log) \in Nat
  OBVIOUS
<1>2. CASE k = 0 \/ l = 0
  BY <1>1, <1>2 DEF IsFirst
<1>3. CASE k # 0 /\ l # 0
  <2>1. k \in 1 .. Len(log) /\ l \in 1 .. Len(log)
    BY <1>3 DEF IsFirst
  <2>2. ~(k \in 1 .. l - 1) /\ ~(l \in 1 .. k - 1)
    BY <1>3 DEF IsFirst
  <2>. QED  BY <1>1, <2>1, <2>2
<1>. QED  BY <1>2, <1>3

(* A report is the first of its worker if the log has none of it.          *)
LEMMA FirstOfAppend ==
    ASSUME NEW w, NEW log \in Seq(ReportedRate), NEW e \in ReportedRate
    PROVE  /\ FirstOf(w, log) \in 0 .. Len(log)
           /\ FirstOf(w, Append(log, e)) =
                IF FirstOf(w, log) # 0 THEN FirstOf(w, log)
                ELSE IF e.worker = w THEN Len(log) + 1 ELSE 0
           /\ FirstOf(w, log) # 0 =>
                Append(log, e)[FirstOf(w, log)] = log[FirstOf(w, log)]
<1>. DEFINE k == FirstOf(w, log)  more == Append(log, e)
            l == IF k # 0 THEN k ELSE IF e.worker = w THEN Len(log) + 1 ELSE 0
<1>1. IsFirst(w, log, k) /\ IsFirst(w, more, FirstOf(w, more))
  BY FirstOfIs, AppendFacts
<1>2. /\ Len(log) \in Nat /\ Len(more) = Len(log) + 1 /\ more \in Seq(ReportedRate)
      /\ more[Len(log) + 1] = e /\ \A i \in 1 .. Len(log) : more[i] = log[i]
  BY AppendFacts
<1>. HIDE DEF k, more
<1>3. k \in 0 .. Len(log)
  BY <1>1, <1>2 DEF IsFirst
<1>4. IsFirst(w, more, l)
  <2>1. CASE k # 0
    <3>1. k \in 1 .. Len(log) /\ log[k].worker = w /\ \A i \in 1 .. k - 1 : log[i].worker # w
      BY <1>1, <2>1 DEF IsFirst
    <3>2. \A i \in 1 .. k - 1 : i \in 1 .. Len(log)
      BY <1>2, <3>1
    <3>. QED  BY <1>2, <2>1, <3>1, <3>2 DEF IsFirst
  <2>2. CASE k = 0
    <3>1. \A i \in 1 .. Len(log) : log[i].worker # w
      BY <1>1, <2>2 DEF IsFirst
    <3>2. CASE e.worker = w
      <4>1. l = Len(log) + 1 /\ more[l].worker = w /\ l \in 1 .. Len(more)
        BY <1>2, <2>2, <3>2
      <4>2. \A i \in 1 .. l - 1 : i \in 1 .. Len(log)
        BY <1>2, <4>1
      <4>. QED  BY <1>2, <3>1, <4>1, <4>2 DEF IsFirst
    <3>3. CASE e.worker # w
      <4>1. \A i \in 1 .. Len(more) : i \in 1 .. Len(log) \/ i = Len(log) + 1
        BY <1>2
      <4>2. l = 0
        BY <2>2, <3>3
      <4>. QED  BY <1>2, <3>1, <3>3, <4>1, <4>2 DEF IsFirst
    <3>. QED  BY <3>2, <3>3
  <2>. QED  BY <2>1, <2>2
<1>5. FirstOf(w, more) = l
  BY <1>1, <1>2, <1>4, FirstUnique
<1>6. k # 0 => more[k] = log[k]
  BY <1>2, <1>3
<1>. QED  BY <1>3, <1>5, <1>6 DEF k, more

LEMMA FirstOfEmpty == \A w : FirstOf(w, << >>) = 0
<1>. SUFFICES ASSUME NEW w PROVE FirstOf(w, << >>) = 0
  OBVIOUS
<1>1. << >> \in Seq(ReportedRate) /\ Len(<< >>) = 0
  OBVIOUS
<1>2. IsFirst(w, << >>, FirstOf(w, << >>))
  BY <1>1, FirstOfIs
<1>3. ~(FirstOf(w, << >>) \in 1 .. 0)
  OBVIOUS
<1>. QED  BY <1>1, <1>2, <1>3 DEF IsFirst

-----------------------------------------------------------------------------
RatesTyped ==
    /\ reports \in Seq(Event) /\ taken \in Seq(Event)
    /\ timings \in [Worker -> Nat] /\ since \in Seq(ReportedRate)
    /\ vals \in Seq(Int) /\ sum \in Int

(* What the coordinator knows of the round under way.                      *)
RoundKnown ==
    /\ \A w \in Worker : IF FirstOf(w, since) = 0 THEN timings[w] = 0
                         ELSE timings[w] = since[FirstOf(w, since)].rate
    /\ count = Cardinality({w \in Worker : timings[w] # 0})

RoundsInv == RatesTyped /\ RoundKnown /\ RoundsAddUp

LEMMA RateNonzero ==
    ASSUME NEW t \in Timings, Counts(t)
    PROVE  PerSecond(t) \in Nat \ {0}
<1>1. /\ t.duration \in Nat /\ t.processed \in Nat
      /\ t.duration <= MinProcessed * Second
      /\ MinProcessed \in Nat \ {0} /\ Second \in Nat \ {0} /\ MinDuration \in Nat \ {0}
  BY RateAssumption
<1>2. t.duration >= MinDuration /\ t.processed >= MinProcessed
  BY DEF Counts
<1>3. t.duration \in Nat \ {0} /\ MinProcessed <= t.processed
  BY <1>1, <1>2
<1>4. /\ MinProcessed * Second <= t.processed * Second
      /\ t.processed * Second \in Nat /\ MinProcessed * Second \in Nat
  BY <1>1, <1>3, TimesMonotone, Times
<1>. DEFINE a == t.processed * Second  d == t.duration
<1>5. d \in Nat \ {0} /\ a \in Nat /\ d <= a
  BY <1>1, <1>3, <1>4
<1>. HIDE DEF a, d
<1>6. a \div d \in Nat /\ a < d * (a \div d) + d
  BY <1>5, Quotient
<1>7. a \div d # 0
  <2>. SUFFICES ASSUME a \div d = 0 PROVE FALSE
    OBVIOUS
  <2>1. d * 0 = 0
    BY <1>5
  <2>. QED  BY <1>5, <1>6, <2>1
<1>. QED  BY <1>6, <1>7 DEF PerSecond, a, d

LEMMA RoundsInit == InitRates => RoundsInv
<1>. SUFFICES ASSUME InitRates PROVE RoundsInv
  OBVIOUS
<1>1. RatesTyped
  BY DEF InitRates, RatesTyped
<1>2. {w \in Worker : timings[w] # 0} = {}
  BY DEF InitRates
<1>3. RoundKnown
  BY <1>2, FirstOfEmpty, FS_EmptySet DEF InitRates, RoundKnown
<1>4. RoundsAddUp
  BY SumSeqEmpty, RateAssumption DEF InitRates, RoundsAddUp
<1>. QED  BY <1>1, <1>3, <1>4 DEF RoundsInv

(* The estimator.                                                          *)
LEMMA PushKeeps ==
    ASSUME RatesTyped, sum = SumFunction(vals), Len(vals) <= Window,
           NEW rate \in Int, PushRate(rate)
    PROVE  vals' \in Seq(Int) /\ sum' \in Int /\ sum' = SumFunction(vals') /\ Len(vals') <= Window
<1>1. Window \in Nat \ {0} /\ vals \in Seq(Int) /\ sum \in Int
  BY RateAssumption DEF RatesTyped
<1>2. CASE Len(vals) = Window
  <2>1. vals # << >> /\ Tail(vals) \in Seq(Int) /\ Len(Tail(vals)) = Window - 1
        /\ Head(vals) \in Int
    BY <1>1, <1>2
  <2>2. vals' = Append(Tail(vals), rate) /\ sum' = sum + rate - Head(vals)
    BY <1>2 DEF PushRate
  <2>3. SumFunction(vals) = Head(vals) + SumFunction(Tail(vals))
    BY <1>1, <2>1, SumTail
  <2>4. SumFunction(vals') = SumFunction(Tail(vals)) + rate
    BY <2>1, <2>2, SumAppend
  <2>5. SumFunction(Tail(vals)) \in Int
    BY <2>1, SumSeqType
  <2>6. vals' \in Seq(Int) /\ Len(vals') = Window
    BY <1>1, <2>1, <2>2
  <2>. QED  BY <1>1, <2>1, <2>2, <2>3, <2>4, <2>5, <2>6
<1>3. CASE Len(vals) # Window
  <2>1. vals' = Append(vals, rate) /\ sum' = sum + rate - 0
    BY <1>3 DEF PushRate
  <2>2. SumFunction(vals') = SumFunction(vals) + rate
    BY <1>1, <2>1, SumAppend
  <2>3. vals' \in Seq(Int) /\ Len(vals') = Len(vals) + 1 /\ Len(vals) \in Nat
    BY <1>1, <2>1
  <2>. QED  BY <1>1, <1>3, <2>1, <2>2, <2>3
<1>. QED  BY <1>2, <1>3

(* A report is handled.                                                    *)
LEMMA HandleKeeps ==
    ASSUME RoundsInv, HandleReport
    PROVE  RoundsInv'
<1>. DEFINE w == Head(taken).worker  rate == PerSecond(Head(taken).timing)
            a == SetTiming(w, rate)  e == [worker |-> w, rate |-> rate]
            Nonzero == {v \in Worker : timings[v] # 0}
<1>1. RatesTyped /\ RoundKnown /\ RoundsAddUp
  BY DEF RoundsInv
<1>2. /\ Head(taken) \in Event /\ Counts(Head(taken).timing) /\ taken' = Tail(taken)
      /\ taken' \in Seq(Event) /\ reports' \in Seq(Event)
  <2>1. taken # << >> /\ taken \in Seq(Event) /\ reports \in Seq(Event)
    BY <1>1 DEF HandleReport, RatesTyped
  <2>2. Head(taken) \in Event /\ Tail(taken) \in Seq(Event)
    BY <2>1
  <2>. QED  BY <2>1, <2>2 DEF HandleReport
<1>3. w \in Worker /\ rate \in Nat \ {0} /\ e \in ReportedRate
  <2>1. Head(taken).worker \in Worker /\ Head(taken).timing \in Timings
    BY <1>2 DEF Event
  <2>. QED  BY <1>2, <2>1, RateNonzero DEF ReportedRate
<1>4. IF a.complete
      THEN /\ timings' = [v \in Worker |-> 0] /\ count' = 0
           /\ PushRate(SumFunction(a.timings))
           /\ queueRate' = SumFunction(a.timings)
           /\ verusRate' = SumFunction(a.timings)
           /\ round' = Append(since, e) /\ since' = << >>
      ELSE /\ timings' = a.timings /\ count' = a.count /\ since' = Append(since, e)
           /\ UNCHANGED <<vals, sum, queueRate, verusRate, round>>
  BY DEF HandleReport
<1>5. a = IF timings[w] # 0
          THEN [timings |-> timings, count |-> count, complete |-> FALSE]
          ELSE [timings |-> [timings EXCEPT ![w] = rate], count |-> count + 1,
                complete |-> count + 1 = Cardinality(Worker)]
  BY DEF SetTiming
<1>. HIDE DEF w, rate, a
<1>6. e.worker = w /\ e.rate = rate
  OBVIOUS
<1>. HIDE DEF e
<1>7. /\ timings \in [Worker -> Nat] /\ since \in Seq(ReportedRate)
      /\ Append(since, e) \in Seq(ReportedRate) /\ Len(since) \in Nat
      /\ Append(since, e)[Len(since) + 1] = e
  BY <1>1, <1>3, AppendFacts DEF RatesTyped
<1>8. \A v \in Worker :
        /\ FirstOf(v, since) \in 0 .. Len(since)
        /\ FirstOf(v, Append(since, e)) =
             IF FirstOf(v, since) # 0 THEN FirstOf(v, since)
             ELSE IF v = w THEN Len(since) + 1 ELSE 0
        /\ FirstOf(v, since) # 0 =>
             Append(since, e)[FirstOf(v, since)] = since[FirstOf(v, since)]
  BY <1>3, <1>6, <1>7, FirstOfAppend
<1>9. \A v \in Worker : /\ FirstOf(v, since) = 0 <=> timings[v] = 0
                        /\ FirstOf(v, since) # 0 => timings[v] = since[FirstOf(v, since)].rate
  <2>. SUFFICES ASSUME NEW v \in Worker, FirstOf(v, since) # 0
                PROVE  since[FirstOf(v, since)].rate # 0
    BY <1>1 DEF RoundKnown
  <2>1. FirstOf(v, since) \in 1 .. Len(since)
    BY <1>7, <1>8
  <2>2. since[FirstOf(v, since)] \in ReportedRate
    BY <1>7, <2>1
  <2>. QED  BY <2>2 DEF ReportedRate
(* In either case the array holds the first reports of the longer log.     *)
<1>10. /\ a.timings \in [Worker -> Nat]
       /\ \A v \in Worker :
            LET k == FirstOf(v, Append(since, e))
            IN  IF k = 0 THEN a.timings[v] = 0 ELSE a.timings[v] = Append(since, e)[k].rate
  <2>1. CASE timings[w] # 0
    <3>1. a.timings = timings
      BY <1>5, <2>1
    <3>2. \A v \in Worker : FirstOf(v, Append(since, e)) = FirstOf(v, since)
      BY <1>8, <1>9, <2>1
    <3>. QED  BY <1>7, <1>8, <1>9, <3>1, <3>2
  <2>2. CASE timings[w] = 0
    <3>1. a.timings = [timings EXCEPT ![w] = rate]
      BY <1>5, <2>2
    <3>2. /\ a.timings \in [Worker -> Nat] /\ a.timings[w] = rate
          /\ \A v \in Worker \ {w} : a.timings[v] = timings[v]
      BY <1>3, <1>7, <3>1
    <3>3. ASSUME NEW v \in Worker, v # w
          PROVE  LET k == FirstOf(v, Append(since, e))
                 IN  IF k = 0 THEN a.timings[v] = 0
                     ELSE a.timings[v] = Append(since, e)[k].rate
      <4>1. FirstOf(v, Append(since, e)) = FirstOf(v, since)
        BY <1>8, <3>3
      <4>2. a.timings[v] = timings[v]
        BY <3>2, <3>3
      <4>. QED  BY <1>8, <1>9, <4>1, <4>2
    <3>4. FirstOf(w, Append(since, e)) = Len(since) + 1 /\ Len(since) + 1 # 0
      BY <1>3, <1>7, <1>8, <1>9, <2>2
    <3>. QED  BY <1>6, <1>7, <3>2, <3>3, <3>4
  <2>. QED  BY <2>1, <2>2
<1>11. IsFiniteSet(Worker) /\ IsFiniteSet(Nonzero) /\ Nonzero \subseteq Worker
       /\ count = Cardinality(Nonzero) /\ count \in Nat
  <2>1. IsFiniteSet(Worker) /\ Nonzero \subseteq Worker
    BY RateAssumption
  <2>2. count = Cardinality(Nonzero)
    BY <1>1 DEF RoundKnown
  <2>. QED  BY <2>1, <2>2, FS_Subset, FS_CardinalityType
<1>12. CASE a.complete
  <2>1. timings[w] = 0 /\ count + 1 = Cardinality(Worker)
        /\ a.timings = [timings EXCEPT ![w] = rate]
    BY <1>5, <1>12
  <2>2. Nonzero \cup {w} = Worker
    <3>1. w \notin Nonzero
      BY <2>1
    <3>2. Cardinality(Nonzero \cup {w}) = Cardinality(Worker)
      BY <1>11, <2>1, <3>1, FS_AddElement
    <3>3. Nonzero \cup {w} \in SUBSET Worker
      BY <1>3, <1>11
    <3>. QED  BY <1>11, <3>2, <3>3, FS_Subset
  <2>3. \A v \in Worker : a.timings[v] \in Nat \ {0}
    <3>1. \A v \in Worker : v # w => a.timings[v] = timings[v] /\ timings[v] # 0
      BY <1>7, <2>1, <2>2
    <3>2. a.timings[w] = rate
      BY <1>3, <1>7, <2>1
    <3>. QED  BY <1>3, <1>7, <3>1, <3>2
  <2>4. round' = Append(since, e) /\ round' # << >> /\ Len(round') = Len(since) + 1
    BY <1>3, <1>4, <1>7, <1>12, AppendFacts
  <2>5. \A v \in Worker : FirstOf(v, round') # 0 /\ a.timings[v] = round'[FirstOf(v, round')].rate
    BY <1>10, <2>3, <2>4
  <2>6. FirstOf(w, round') = Len(round')
    BY <1>3, <1>8, <1>9, <2>1, <2>4
  <2>7. a.timings = [v \in Worker |-> round'[FirstOf(v, round')].rate]
    BY <1>10, <2>5
  <2>8. SumFunction(a.timings) \in Nat /\ SumFunction(a.timings) > 0
    <3>1. DOMAIN a.timings = Worker /\ \A v \in Worker : a.timings[v] \in Nat
      BY <1>10
    <3>2. /\ SumFunctionOnSet(a.timings, Worker) \in Nat
          /\ a.timings[w] <= SumFunctionOnSet(a.timings, Worker)
      BY <1>3, <1>11, <3>1, SumNonnegative
    <3>3. a.timings[w] \in Nat \ {0}
      BY <1>3, <2>3
    <3>. QED  BY <3>1, <3>2, <3>3 DEF SumFunction
  <2>9. /\ verusRate' = SumFunction(a.timings) /\ queueRate' = SumFunction(a.timings)
        /\ PushRate(SumFunction(a.timings))
        /\ timings' = [v \in Worker |-> 0] /\ count' = 0 /\ since' = << >>
    BY <1>4, <1>12
  <2>10. vals' \in Seq(Int) /\ sum' \in Int /\ sum' = SumFunction(vals') /\ Len(vals') <= Window
    BY <1>1, <2>8, <2>9, PushKeeps DEF RoundsAddUp
  <2>11. RatesTyped'
    BY <1>2, <2>9, <2>10 DEF RatesTyped
  <2>12. RoundKnown'
    <3>1. {v \in Worker : timings'[v] # 0} = {}
      BY <2>9
    <3>. QED  BY <2>9, <3>1, FirstOfEmpty, FS_EmptySet DEF RoundKnown
  <2>13. RoundsAddUp'
    <3>. DEFINE Total == SumFunction([v \in Worker |-> round'[FirstOf(v, round')].rate])
    <3>1. verusRate' = Total /\ verusRate' > 0 /\ queueRate' = verusRate'
      BY <2>7, <2>8, <2>9
    <3>2. /\ \A v \in Worker : FirstOf(v, round') # 0
          /\ \E v \in Worker : FirstOf(v, round') = Len(round')
      BY <1>3, <2>5, <2>6
    <3>. QED  BY <2>10, <3>1, <3>2 DEF RoundsAddUp
  <2>. QED  BY <2>11, <2>12, <2>13 DEF RoundsInv
<1>13. CASE ~a.complete
  <2>1. /\ timings' = a.timings /\ count' = a.count /\ since' = Append(since, e)
        /\ UNCHANGED <<vals, sum, queueRate, verusRate, round>>
    BY <1>4, <1>13
  <2>2. RatesTyped'
    BY <1>1, <1>2, <1>7, <1>10, <2>1 DEF RatesTyped
  <2>3. count' = Cardinality({v \in Worker : timings'[v] # 0})
    <3>1. CASE timings[w] # 0
      <4>1. timings' = timings /\ count' = count
        BY <1>5, <2>1, <3>1
      <4>. QED  BY <1>11, <4>1
    <3>2. CASE timings[w] = 0
      <4>1. timings' = [timings EXCEPT ![w] = rate] /\ count' = count + 1
        BY <1>5, <2>1, <3>2
      <4>2. {v \in Worker : timings'[v] # 0} = Nonzero \cup {w} /\ w \notin Nonzero
        BY <1>3, <1>7, <3>2, <4>1
      <4>3. Cardinality(Nonzero \cup {w}) = Cardinality(Nonzero) + 1
        BY <1>11, <4>2, FS_AddElement
      <4>. QED  BY <1>11, <4>1, <4>2, <4>3
    <3>. QED  BY <3>1, <3>2
  <2>4. RoundKnown'
    BY <1>10, <2>1, <2>3 DEF RoundKnown
  <2>5. RoundsAddUp'
    BY <1>1, <2>1 DEF RoundsAddUp
  <2>. QED  BY <2>2, <2>4, <2>5 DEF RoundsInv
<1>. QED  BY <1>12, <1>13

LEMMA RoundsNext == RoundsInv /\ [NextRates]_workerVars => RoundsInv'
<1>. SUFFICES ASSUME RoundsInv, [NextRates]_workerVars PROVE RoundsInv'
  OBVIOUS
<1>1. CASE UNCHANGED rateVars /\ reports' \in Seq(Event) /\ taken' \in Seq(Event)
  <2>1. UNCHANGED <<timings, count, vals, sum, queueRate, verusRate, since, round>>
    BY <1>1 DEF rateVars
  <2>2. RatesTyped'
    BY <1>1, <2>1 DEF RoundsInv, RatesTyped
  <2>3. RoundKnown' /\ RoundsAddUp'
    BY <2>1 DEF RoundsInv, RoundKnown, RoundsAddUp
  <2>. QED  BY <2>2, <2>3 DEF RoundsInv
<1>2. reports \in Seq(Event) /\ taken \in Seq(Event)
  BY DEF RoundsInv, RatesTyped
<1>3. ASSUME NEW w \in Worker, NEW t \in Timings, Trace(w, t) PROVE RoundsInv'
  <2>1. [worker |-> w, timing |-> t] \in Event
    BY DEF Event
  <2>2. Append(reports, [worker |-> w, timing |-> t]) \in Seq(Event)
    BY <1>2, <2>1, AppendProperties
  <2>3. UNCHANGED rateVars /\ reports' \in Seq(Event) /\ taken' \in Seq(Event)
    BY <1>2, <1>3, <2>2 DEF Trace
  <2>. QED  BY <1>1, <2>3
<1>4. CASE TakeReports
  <2>1. << >> \in Seq(Event)
    OBVIOUS
  <2>. QED  BY <1>1, <1>2, <1>4, <2>1 DEF TakeReports
<1>5. CASE Ignore
  <2>1. taken # << >> /\ taken' = Tail(taken) /\ UNCHANGED <<reports, rateVars>>
    BY <1>5 DEF Ignore
  <2>2. Tail(taken) \in Seq(Event)
    BY <1>2, <2>1
  <2>. QED  BY <1>1, <1>2, <2>1, <2>2
<1>6. CASE HandleReport
  BY <1>6, HandleKeeps
<1>7. CASE UNCHANGED workerVars
  BY <1>1, <1>2, <1>7 DEF workerVars
<1>. QED  BY <1>3, <1>4, <1>5, <1>6, <1>7 DEF NextRates

(* Every total is the sum of the first reports of all workers since the    *)
(* previous total, is not zero, and is what the job queue and the hasher   *)
(* are told; the estimator's sum is that of the totals it keeps            *)
(* (AllCount::set_timing, push_hashrate).                                  *)
THEOREM RoundsAddUpHolds == SpecRates => []RoundsAddUp
<1>1. RoundsInv => RoundsAddUp
  BY DEF RoundsInv
<1>. QED  BY RoundsInit, RoundsNext, <1>1, PTL DEF SpecRates

-----------------------------------------------------------------------------
(***************************************************************************)
(* The number a candidate is judged by: floats of every width a byte of 3  *)
(* to 8 bits makes (8 in the code, so that a mantissa has 32), digits of   *)
(* every width that leaves room for them, and every hash and difficulty.   *)
(***************************************************************************)
(* Powers of two, as far as a mantissa has bits.                           *)
LEMMA NextPower ==
    ASSUME NEW k \in 0 .. 31, NEW j, j = k + 1
    PROVE  2^k \in Nat \ {0} /\ 2^j = 2 * 2^k
<1>1. \/ (k = 0 /\ j = 1) \/ (k = 1 /\ j = 2) \/ (k = 2 /\ j = 3) \/ (k = 3 /\ j = 4)
      \/ (k = 4 /\ j = 5) \/ (k = 5 /\ j = 6) \/ (k = 6 /\ j = 7) \/ (k = 7 /\ j = 8)
      \/ (k = 8 /\ j = 9) \/ (k = 9 /\ j = 10) \/ (k = 10 /\ j = 11) \/ (k = 11 /\ j = 12)
      \/ (k = 12 /\ j = 13) \/ (k = 13 /\ j = 14) \/ (k = 14 /\ j = 15) \/ (k = 15 /\ j = 16)
      \/ (k = 16 /\ j = 17) \/ (k = 17 /\ j = 18) \/ (k = 18 /\ j = 19) \/ (k = 19 /\ j = 20)
      \/ (k = 20 /\ j = 21) \/ (k = 21 /\ j = 22) \/ (k = 22 /\ j = 23) \/ (k = 23 /\ j = 24)
      \/ (k = 24 /\ j = 25) \/ (k = 25 /\ j = 26) \/ (k = 26 /\ j = 27) \/ (k = 27 /\ j = 28)
      \/ (k = 28 /\ j = 29) \/ (k = 29 /\ j = 30) \/ (k = 30 /\ j = 31) \/ (k = 31 /\ j = 32)
  OBVIOUS
<1>2. CASE k = 0 /\ j = 1  BY <1>2
<1>3. CASE k = 1 /\ j = 2  BY <1>3
<1>4. CASE k = 2 /\ j = 3  BY <1>4
<1>5. CASE k = 3 /\ j = 4  BY <1>5
<1>6. CASE k = 4 /\ j = 5  BY <1>6
<1>7. CASE k = 5 /\ j = 6  BY <1>7
<1>8. CASE k = 6 /\ j = 7  BY <1>8
<1>9. CASE k = 7 /\ j = 8  BY <1>9
<1>10. CASE k = 8 /\ j = 9  BY <1>10
<1>11. CASE k = 9 /\ j = 10  BY <1>11
<1>12. CASE k = 10 /\ j = 11  BY <1>12
<1>13. CASE k = 11 /\ j = 12  BY <1>13
<1>14. CASE k = 12 /\ j = 13  BY <1>14
<1>15. CASE k = 13 /\ j = 14  BY <1>15
<1>16. CASE k = 14 /\ j = 15  BY <1>16
<1>17. CASE k = 15 /\ j = 16  BY <1>17
<1>18. CASE k = 16 /\ j = 17  BY <1>18
<1>19. CASE k = 17 /\ j = 18  BY <1>19
<1>20. CASE k = 18 /\ j = 19  BY <1>20
<1>21. CASE k = 19 /\ j = 20  BY <1>21
<1>22. CASE k = 20 /\ j = 21  BY <1>22
<1>23. CASE k = 21 /\ j = 22  BY <1>23
<1>24. CASE k = 22 /\ j = 23  BY <1>24
<1>25. CASE k = 23 /\ j = 24  BY <1>25
<1>26. CASE k = 24 /\ j = 25  BY <1>26
<1>27. CASE k = 25 /\ j = 26  BY <1>27
<1>28. CASE k = 26 /\ j = 27  BY <1>28
<1>29. CASE k = 27 /\ j = 28  BY <1>29
<1>30. CASE k = 28 /\ j = 29  BY <1>30
<1>31. CASE k = 29 /\ j = 30  BY <1>31
<1>32. CASE k = 30 /\ j = 31  BY <1>32
<1>33. CASE k = 31 /\ j = 32  BY <1>33
<1>. QED
  BY <1>1, <1>2, <1>3, <1>4, <1>5, <1>6, <1>7, <1>8, <1>9,
     <1>10, <1>11, <1>12, <1>13, <1>14, <1>15, <1>16, <1>17, <1>18,
     <1>19, <1>20, <1>21, <1>22, <1>23, <1>24, <1>25, <1>26, <1>27,
     <1>28, <1>29, <1>30, <1>31, <1>32, <1>33

LEMMA NextPowers == \A k \in 0 .. 31 : 2^k \in Nat \ {0} /\ 2^(k + 1) = 2 * 2^k
<1>. SUFFICES ASSUME NEW k \in 0 .. 31
              PROVE  2^k \in Nat \ {0} /\ 2^(k + 1) = 2 * 2^k
  OBVIOUS
<1>. DEFINE j == k + 1
<1>1. 2^k \in Nat \ {0} /\ 2^j = 2 * 2^k
  <2>1. j = k + 1
    OBVIOUS
  <2>. HIDE DEF j
  <2>. QED  BY <2>1, NextPower
<1>. QED  BY <1>1

USE WidthAssumption

(* The widths there are, and the least and the first too great mantissa.   *)
LEMMA MantissaSizes ==
    /\ \/ Width = 12 /\ Half = 2048
       \/ Width = 16 /\ Half = 32768
       \/ Width = 20 /\ Half = 524288
       \/ Width = 24 /\ Half = 8388608
       \/ Width = 28 /\ Half = 134217728
       \/ Width = 32 /\ Half = 2147483648
    /\ One = 2 * Half
<1>. DEFINE h == Width - 1
<1>1. /\ \/ Width = 12 \/ Width = 16 \/ Width = 20
         \/ Width = 24 \/ Width = 28 \/ Width = 32
      /\ h \in 0 .. 31 /\ h + 1 = Width /\ h = Width - 1
  OBVIOUS
<1>2. Half = 2^h
  BY DEF Half
<1>3. One = 2 * 2^h
  <2>. HIDE DEF h
  <2>. QED  BY <1>1, NextPowers DEF One
<1>. HIDE DEF h
<1>4. CASE Width = 12
  <2>1. h = 11  BY <1>1, <1>4
  <2>. QED  BY <2>1, <1>2, <1>3, <1>4
<1>5. CASE Width = 16
  <2>1. h = 15  BY <1>1, <1>5
  <2>. QED  BY <2>1, <1>2, <1>3, <1>5
<1>6. CASE Width = 20
  <2>1. h = 19  BY <1>1, <1>6
  <2>. QED  BY <2>1, <1>2, <1>3, <1>6
<1>7. CASE Width = 24
  <2>1. h = 23  BY <1>1, <1>7
  <2>. QED  BY <2>1, <1>2, <1>3, <1>7
<1>8. CASE Width = 28
  <2>1. h = 27  BY <1>1, <1>8
  <2>. QED  BY <2>1, <1>2, <1>3, <1>8
<1>9. CASE Width = 32
  <2>1. h = 31  BY <1>1, <1>9
  <2>. QED  BY <2>1, <1>2, <1>3, <1>9
<1>. QED  BY <1>1, <1>4, <1>5, <1>6, <1>7, <1>8, <1>9

LEMMA HalfKnown ==
    /\ Width \in 12 .. 32 /\ DigitWidth \in 2 .. Width - 1
    /\ Half \in Nat /\ One \in Nat /\ One = 2 * Half /\ Half >= 2048
BY MantissaSizes

Mantissas == Half .. One - 1
Floats == [exp : Int, man : Mantissas, pos : BOOLEAN]

(* A power of two beyond the first two is at least four.                   *)
LEMMA PowerAtLeast == \A k \in 0 .. 32 : /\ 2^k \in Nat \ {0}
                                         /\ k = 0 => 2^k = 1
                                         /\ k = 1 => 2^k = 2
                                         /\ k >= 1 => 2^k >= 2
                                         /\ k >= 2 => 2^k >= 4
<1>. SUFFICES ASSUME NEW k \in 0 .. 32
              PROVE  /\ 2^k \in Nat \ {0}
                     /\ k = 0 => 2^k = 1
                     /\ k = 1 => 2^k = 2
                     /\ k >= 1 => 2^k >= 2
                     /\ k >= 2 => 2^k >= 4
  OBVIOUS
<1>1. k = 0 => 2^k = 1
  OBVIOUS
<1>2. k = 1 => 2^k = 2
  OBVIOUS
<1>3. ASSUME k >= 2
      PROVE  2^k \in Nat /\ 2^k >= 4
  <2>. DEFINE h == k - 2  i == k - 1
  <2>1. h \in 0 .. 31 /\ i \in 0 .. 31 /\ h + 1 = i /\ i + 1 = k
    BY <1>3
  <2>. HIDE DEF h, i
  <2>2. 2^h \in Nat \ {0} /\ 2^i = 2 * 2^h /\ 2^k = 2 * 2^i
    BY <2>1, NextPowers
  <2>. QED  BY <2>2
<1>. QED  BY <1>1, <1>2, <1>3

LEMMA Shifted ==
    ASSUME NEW m \in 1 .. One - 1
    PROVE  /\ LeadingZeros(m) \in 0 .. Width - 1
           /\ 2^LeadingZeros(m) \in Nat \ {0}
           /\ m * 2^LeadingZeros(m) \in Mantissas
<1>. DEFINE T == {k \in 0 .. Width - 1 : Half <= m * 2^k}
            last == Width - 1
<1>1. /\ Width \in 12 .. 32 /\ Half \in Nat /\ One \in Nat /\ One = 2 * Half
      /\ Half >= 2048 /\ m \in Nat \ {0} /\ m < One
  BY HalfKnown
<1>2. \A k \in 0 .. Width - 1 : 2^k \in Nat \ {0} /\ m * 2^k \in Nat
  <2>1. \A k \in 0 .. Width - 1 : k \in 0 .. 31
    BY <1>1
  <2>2. \A k \in 0 .. Width - 1 : 2^k \in Nat \ {0}
    BY <2>1, NextPowers
  <2>. SUFFICES ASSUME NEW k \in 0 .. Width - 1
                PROVE  m * 2^k \in Nat
    BY <2>2
  <2>. DEFINE t == 2^k
  <2>3. t \in Nat
    BY <2>2
  <2>. HIDE DEF t
  <2>4. m * t \in Nat
    BY <1>1, <2>3, Times
  <2>. QED  BY <2>4 DEF t
<1>3. last \in T
  <2>1. 2^last = Half /\ last \in 0 .. Width - 1
    BY <1>1 DEF Half
  <2>2. 1 * Half <= m * Half
    BY <1>1, TimesMonotone
  <2>. QED  BY <1>1, <2>1, <2>2
<1>4. PICK k \in T : \A j \in T : k <= j
  <2>1. T \subseteq Nat /\ T # {}
    BY <1>1, <1>3
  <2>. HIDE DEF T
  <2>. QED  BY <2>1, LeastNumber
<1>5. m * 2^k < One
  <2>1. CASE k = 0
    <3>1. 2^k = 1  BY <2>1
    <3>. QED  BY <1>1, <3>1
  <2>2. CASE k # 0
    <3>. DEFINE j == k - 1
    <3>1. j \in 0 .. Width - 1 /\ j + 1 = k /\ j \in 0 .. 31 /\ ~(k <= j)
      BY <1>1, <2>2
    <3>2. m * 2^j < Half
      <4>1. j \notin T
        BY <1>4, <3>1
      <4>2. m * 2^j \in Nat
        BY <1>2, <3>1
      <4>. HIDE DEF j
      <4>. QED  BY <1>1, <3>1, <4>1, <4>2
    <3>. HIDE DEF j
    <3>3. 2^k = 2 * 2^j /\ 2^j \in Nat
      BY <3>1, NextPowers
    <3>4. m * 2^k = 2 * (m * 2^j) /\ m * 2^j \in Nat
      BY <1>1, <3>3, Times
    <3>. QED  BY <1>1, <3>2, <3>4
  <2>. QED  BY <2>1, <2>2
<1>6. \E i \in 0 .. Width - 1 : IsMantissa(m * 2^i)
  BY <1>4, <1>5 DEF IsMantissa
<1>7. LeadingZeros(m) \in 0 .. Width - 1 /\ IsMantissa(m * 2^LeadingZeros(m))
  BY <1>6 DEF LeadingZeros
<1>. QED  BY <1>1, <1>2, <1>7 DEF IsMantissa, Mantissas

(* shift_left keeps the value: by how much it shifts, at most and at the   *)
(* top.                                                                    *)
LEMMA ShiftedLeft ==
    ASSUME NEW e \in Int, NEW m \in 1 .. One - 1, NEW p \in BOOLEAN
    PROVE  LET x == ShiftLeft(e, m, p)
           IN  /\ x \in Floats /\ x.pos = p
               /\ x.exp <= e /\ e - x.exp < Width
               /\ m >= Half => x.exp = e /\ x.man = m
               /\ m < Half => x.exp < e
               /\ m < Half /\ 2 * m >= Half => x.exp = e - 1 /\ x.man = 2 * m
<1>. DEFINE k == LeadingZeros(m)  x == ShiftLeft(e, m, p)
<1>1. /\ Width \in 12 .. 32 /\ Half \in Nat /\ One \in Nat /\ One = 2 * Half
      /\ m \in Nat \ {0}
  BY HalfKnown
<1>2. k \in 0 .. Width - 1 /\ 2^k \in Nat \ {0} /\ m * 2^k \in Mantissas
  BY Shifted
<1>3. x = [exp |-> e - k, man |-> m * 2^k, pos |-> p]
  BY DEF ShiftLeft, Float
<1>. HIDE DEF k
<1>4. x \in Floats /\ x.pos = p /\ x.exp <= e /\ e - x.exp < Width
  BY <1>1, <1>2, <1>3 DEF Floats
<1>5. k \in 0 .. 32 /\ m * 2^k \in Nat /\ Half <= m * 2^k /\ m * 2^k < 2 * Half
  BY <1>1, <1>2 DEF Mantissas
<1>6. ASSUME k = 0
      PROVE  m * 2^k = m
  <2>1. 2^k = 1  BY <1>6
  <2>. QED  BY <1>1, <2>1
<1>7. ASSUME k = 1
      PROVE  m * 2^k = 2 * m
  <2>1. 2^k = 2  BY <1>7
  <2>. QED  BY <1>1, <2>1
<1>8. ASSUME k >= 1
      PROVE  m * 2^k >= 2 * m
  <2>1. 2^k >= 2 /\ 2^k \in Nat /\ 2 \in Nat
    BY <1>5, <1>8, PowerAtLeast
  <2>2. 2 * m <= 2^k * m
    BY <1>1, <2>1, TimesMonotone
  <2>3. 2^k * m = m * 2^k
    BY <1>1, <2>1
  <2>. QED  BY <2>2, <2>3
<1>9. ASSUME k >= 2
      PROVE  m * 2^k >= 4 * m
  <2>1. 2^k >= 4 /\ 2^k \in Nat /\ 4 \in Nat
    BY <1>5, <1>9, PowerAtLeast
  <2>2. 4 * m <= 2^k * m
    BY <1>1, <2>1, TimesMonotone
  <2>3. 2^k * m = m * 2^k
    BY <1>1, <2>1
  <2>. QED  BY <2>2, <2>3
<1>10. m >= Half => k = 0
  BY <1>1, <1>5, <1>8
<1>11. m < Half => k >= 1
  BY <1>1, <1>5, <1>6
<1>12. m < Half /\ 2 * m >= Half => k = 1
  BY <1>1, <1>5, <1>9, <1>11
<1>13. /\ m >= Half => x.exp = e /\ x.man = m
       /\ m < Half => x.exp < e
       /\ m < Half /\ 2 * m >= Half => x.exp = e - 1 /\ x.man = 2 * m
  <2>1. x.exp = e - k /\ x.man = m * 2^k
    BY <1>3
  <2>. QED  BY <1>2, <1>6, <1>7, <1>10, <1>11, <1>12, <2>1
<1>. QED  BY <1>4, <1>13

LEMMA QuotientAtLeast ==
    ASSUME NEW a \in Nat, NEW b \in Nat \ {0}, NEW r \in Nat, b * r <= a
    PROVE  r <= a \div b
<1>. DEFINE q == a \div b
<1>1. q \in Nat /\ a < b * q + b
  BY Quotient
<1>. HIDE DEF q
<1>2. ASSUME q < r
      PROVE  FALSE
  <2>1. (q + 1) * b <= r * b
    BY <1>1, <1>2, TimesMonotone
  <2>2. (q + 1) * b = b * q + b /\ r * b = b * r /\ b * q \in Nat /\ b * r \in Nat
    BY <1>1, Times
  <2>. QED  BY <1>1, <2>1, <2>2
<1>3. r <= q
  BY <1>1, <1>2
<1>. QED  BY <1>3 DEF q

LEMMA QuotientBelow ==
    ASSUME NEW a \in Nat, NEW b \in Nat \ {0}, NEW r \in Nat, a < b * r
    PROVE  a \div b < r
<1>. DEFINE q == a \div b
<1>1. q \in Nat /\ b * q <= a
  BY Quotient
<1>. HIDE DEF q
<1>2. ASSUME r <= q
      PROVE  FALSE
  <2>1. r * b <= q * b
    BY <1>1, <1>2, TimesMonotone
  <2>2. q * b = b * q /\ r * b = b * r /\ b * q \in Nat /\ b * r \in Nat
    BY <1>1, Times
  <2>. QED  BY <1>1, <2>1, <2>2
<1>3. q < r
  BY <1>1, <1>2
<1>. QED  BY <1>3 DEF q

-----------------------------------------------------------------------------
(* operator*= gives a mantissa again.                                      *)
LEMMA ProductOfFloats ==
    ASSUME NEW x \in Floats, NEW y \in Floats
    PROVE  LET t == x.man * y.man
               z == FloatProduct(x, y)
           IN  /\ t \in Nat /\ z \in Floats /\ z.pos = (x.pos = y.pos)
               /\ t < One * Half => z.exp = x.exp + y.exp - 1 /\ z.man = (2 * t) \div One
               /\ ~(t < One * Half) => z.exp = x.exp + y.exp /\ z.man = t \div One
<1>. DEFINE t == x.man * y.man  z == FloatProduct(x, y)
<1>1. /\ Half \in Nat /\ One \in Nat \ {0} /\ One = 2 * Half
      /\ x.man \in Nat /\ Half <= x.man /\ x.man < One /\ x.man # 0
      /\ y.man \in Nat /\ Half <= y.man /\ y.man < One /\ y.man # 0
      /\ x.exp \in Int /\ y.exp \in Int
  BY HalfKnown DEF Floats, Mantissas
<1>2. t \in Nat /\ Half * Half <= t /\ t < One * One
  <2>1. Half * Half <= x.man * Half /\ Half * x.man <= y.man * x.man
    BY <1>1, TimesMonotone
  <2>2. x.man * y.man <= One * y.man
    BY <1>1, TimesMonotone
  <2>3. y.man * One <= (One - 1) * One
    <3>1. One - 1 \in Nat /\ y.man <= One - 1
      BY <1>1
    <3>. QED  BY <1>1, <3>1, TimesMonotone
  <2>4. (One - 1) * One = One * One - One /\ One * One \in Nat
    BY <1>1
  <2>. QED
    BY <1>1, <2>1, <2>2, <2>3, <2>4, Times
<1>3. z = IF t < One * Half
          THEN [exp |-> x.exp + y.exp - 1, man |-> (2 * t) \div One, pos |-> x.pos = y.pos]
          ELSE [exp |-> x.exp + y.exp, man |-> t \div One, pos |-> x.pos = y.pos]
  BY <1>1 DEF FloatProduct, IsZero, Float
<1>. HIDE DEF t, z
<1>4. One * Half = 2 * (Half * Half) /\ Half * Half \in Nat /\ One * Half \in Nat
  BY <1>1
<1>5. CASE t < One * Half
  <2>1. One * Half <= 2 * t /\ 2 * t < One * One /\ 2 * t \in Nat
    <3>1. One * One = 2 * (One * Half) /\ One * Half \in Nat
      BY <1>1, Times
    <3>. QED  BY <1>2, <1>4, <1>5, <3>1
  <2>2. (2 * t) \div One \in Mantissas
    <3>1. Half <= (2 * t) \div One
      BY <1>1, <2>1, QuotientAtLeast
    <3>2. (2 * t) \div One < One
      BY <1>1, <2>1, QuotientBelow
    <3>3. (2 * t) \div One \in Nat
      BY <1>1, <2>1, Quotient
    <3>. QED  BY <1>1, <3>1, <3>2, <3>3 DEF Mantissas
  <2>. QED  BY <1>1, <1>2, <1>3, <1>5, <2>2 DEF Floats, t, z
<1>6. CASE ~(t < One * Half)
  <2>1. t \div One \in Mantissas
    <3>1. Half <= t \div One
      BY <1>1, <1>2, <1>4, <1>6, QuotientAtLeast
    <3>2. t \div One < One
      BY <1>1, <1>2, QuotientBelow
    <3>3. t \div One \in Nat
      BY <1>1, <1>2, Quotient
    <3>. QED  BY <1>1, <3>1, <3>2, <3>3 DEF Mantissas
  <2>. QED  BY <1>1, <1>2, <1>3, <1>6, <2>1 DEF Floats, t, z
<1>. QED  BY <1>5, <1>6

AtMostOne(x) == x.exp <= 0 \/ (x.exp = 1 /\ x.man = Half)
AtMost(x, e, m) == x.exp < e \/ (x.exp = e /\ x.man <= m)

(* A factor of at most one makes nothing greater.                          *)
LEMMA ProductAtMost ==
    ASSUME NEW x \in Floats, AtMostOne(x), NEW y \in Floats
    PROVE  AtMost(FloatProduct(x, y), y.exp, y.man)
<1>. DEFINE t == x.man * y.man  z == FloatProduct(x, y)
<1>1. /\ Half \in Nat \ {0} /\ One \in Nat \ {0} /\ One = 2 * Half
      /\ x.man \in Nat /\ Half <= x.man /\ x.man < One
      /\ y.man \in Nat /\ Half <= y.man /\ y.man < One
      /\ x.exp \in Int /\ y.exp \in Int
  BY HalfKnown DEF Floats, Mantissas
<1>2. /\ t \in Nat
      /\ t < One * Half => z.exp = x.exp + y.exp - 1 /\ z.man = (2 * t) \div One
      /\ ~(t < One * Half) => z.exp = x.exp + y.exp /\ z.man = t \div One
  BY ProductOfFloats
<1>3. CASE x.exp <= 0
  <2>1. t < One * (y.man + 1)
    <3>1. x.man * y.man <= One * y.man
      BY <1>1, TimesMonotone
    <3>2. One * (y.man + 1) = One * y.man + One /\ One * y.man \in Nat
      BY <1>1
    <3>. QED  BY <1>1, <1>2, <3>1, <3>2
  <2>2. t \div One <= y.man
    <3>. HIDE DEF t
    <3>1. t \div One < y.man + 1
      <4>. DEFINE n == y.man + 1
      <4>1. n \in Nat /\ t < One * n
        BY <1>1, <2>1
      <4>. HIDE DEF n
      <4>2. t \div One < n
        BY <1>1, <1>2, <4>1, QuotientBelow
      <4>. QED  BY <4>2 DEF n
    <3>2. t \div One \in Nat
      BY <1>1, <1>2, Quotient
    <3>. QED  BY <1>1, <3>1, <3>2
  <2>. HIDE DEF t, z
  <2>3. AtMost(z, y.exp, y.man)
    BY <1>1, <1>2, <1>3, <2>2 DEF AtMost
  <2>. QED  BY <2>3 DEF z
<1>4. CASE x.exp = 1 /\ x.man = Half
  <2>1. t < One * Half /\ 2 * t = One * y.man
    <3>1. y.man * Half <= (One - 1) * Half
      <4>1. One - 1 \in Nat /\ y.man <= One - 1
        BY <1>1
      <4>. QED  BY <1>1, <4>1, TimesMonotone
    <3>2. (One - 1) * Half = One * Half - Half /\ One * Half \in Nat
      BY <1>1
    <3>3. t = y.man * Half
      BY <1>1, <1>4
    <3>. QED  BY <1>1, <3>1, <3>2, <3>3
  <2>2. (2 * t) \div One = y.man
    <3>. HIDE DEF t
    <3>1. One * y.man \in Nat /\ One * y.man < One * (y.man + 1)
      BY <1>1
    <3>2. y.man <= (One * y.man) \div One /\ (One * y.man) \div One < y.man + 1
      <4>. DEFINE a == One * y.man  n == y.man + 1
      <4>1. a \in Nat /\ n \in Nat /\ One * y.man <= a /\ a < One * n
        BY <1>1, <3>1
      <4>. HIDE DEF a, n
      <4>2. y.man <= a \div One /\ a \div One < n
        BY <1>1, <4>1, QuotientAtLeast, QuotientBelow
      <4>. QED  BY <4>2 DEF a, n
    <3>3. (One * y.man) \div One \in Nat
      BY <1>1, <3>1, Quotient
    <3>. QED  BY <1>1, <2>1, <3>2, <3>3
  <2>. HIDE DEF t, z
  <2>3. AtMost(z, y.exp, y.man)
    BY <1>1, <1>2, <1>4, <2>1, <2>2 DEF AtMost
  <2>. QED  BY <2>3 DEF z
<1>. QED  BY <1>3, <1>4 DEF AtMostOne

-----------------------------------------------------------------------------
(* What operator+= takes of y when the other number has the exponent e.    *)
Operand(y, e) == IF e - y.exp < Width THEN y.man \div 2^(e - y.exp) ELSE 0

LEMMA OperandBound ==
    ASSUME NEW y \in Floats, NEW e \in Int, y.exp <= e
    PROVE  /\ Operand(y, e) \in Nat /\ Operand(y, e) <= y.man
           /\ y.exp = e => Operand(y, e) = y.man
           /\ y.exp = e - 1 => Operand(y, e) = y.man \div 2
           /\ y.exp = e - 2 => Operand(y, e) = y.man \div 4
           /\ y.exp = e - 3 => Operand(y, e) = y.man \div 8
           /\ y.exp < e => 2 * Operand(y, e) <= y.man
           /\ y.exp < e - 1 => 4 * Operand(y, e) <= y.man
<1>. DEFINE d == e - y.exp  m == y.man  p == 2^d  o == Operand(y, e)
<1>1. Width \in 12 .. 32 /\ m \in Nat /\ d \in Nat /\ y.exp \in Int
  BY HalfKnown DEF Floats, Mantissas
<1>2. o = IF d < Width THEN m \div p ELSE 0
  BY DEF Operand
<1>3. d = e - y.exp
  OBVIOUS
<1>4. /\ d < Width =>
            p \in Nat \ {0} /\ (d = 0 => p = 1) /\ (d = 1 => p = 2)
            /\ (d >= 1 => p >= 2) /\ (d >= 2 => p >= 4)
      /\ (d = 2 => p = 4) /\ (d = 3 => p = 8)
  <2>. HIDE DEF d
  <2>1. d < Width => d \in 0 .. 32
    BY <1>1
  <2>2. d = 2 => p = 4
    OBVIOUS
  <2>3. d = 3 => p = 8
    OBVIOUS
  <2>. QED  BY <2>1, <2>2, <2>3, PowerAtLeast
<1>. HIDE DEF d, m, p, o
<1>5. CASE d < Width
  <2>1. /\ o = m \div p /\ p \in Nat \ {0} /\ (d = 0 => p = 1) /\ (d = 1 => p = 2)
        /\ (d >= 1 => p >= 2) /\ (d >= 2 => p >= 4)
        /\ (d = 2 => p = 4) /\ (d = 3 => p = 8)
    BY <1>2, <1>4, <1>5
  <2>2. o \in Nat /\ p * o <= m
    BY <1>1, <2>1, Quotient
  <2>3. o <= m /\ (d >= 1 => 2 * o <= m) /\ (d >= 2 => 4 * o <= m)
    <3>1. 1 * o <= p * o
      BY <2>1, <2>2, TimesMonotone
    <3>2. d >= 1 => 2 * o <= p * o
      BY <2>1, <2>2, TimesMonotone
    <3>3. d >= 2 => 4 * o <= p * o
      BY <2>1, <2>2, TimesMonotone
    <3>4. p * o \in Nat
      BY <2>1, <2>2, Times
    <3>. QED  BY <1>1, <2>2, <3>1, <3>2, <3>3, <3>4
  <2>4. d = 0 => o = m
    BY <1>1, <2>1
  <2>5. /\ d = 1 => o = m \div 2
        /\ d = 2 => o = m \div 4
        /\ d = 3 => o = m \div 8
    BY <2>1
  <2>. QED  BY <1>1, <1>3, <2>2, <2>3, <2>4, <2>5 DEF m, o
<1>6. CASE ~(d < Width)
  <2>1. o = 0 /\ d > 3
    BY <1>1, <1>2, <1>6
  <2>. QED  BY <1>1, <1>3, <2>1 DEF m, o
<1>. QED  BY <1>5, <1>6

(* operator+= of two numbers with the same sign.                           *)
LEMMA SumSameSign ==
    ASSUME NEW x \in Floats, NEW y \in Floats, x.pos = y.pos, y.exp <= x.exp
    PROVE  LET s == x.man + Operand(y, x.exp)
           IN  /\ FloatSum(x, y) = ShiftRight(x.exp, s, x.pos)
               /\ s < One => ShiftRight(x.exp, s, x.pos) = Float(x.exp, s, x.pos)
               /\ ~(s < One) => ShiftRight(x.exp, s, x.pos) = Float(x.exp + 1, s \div 2, x.pos)
               /\ FloatSum(x, y) \in Floats
<1>. DEFINE o == Operand(y, x.exp)  s == x.man + o
<1>1. /\ Half \in Nat \ {0} /\ One \in Nat \ {0} /\ One = 2 * Half
      /\ x.man \in Nat /\ Half <= x.man /\ x.man < One /\ x.man # 0
      /\ y.man \in Nat /\ Half <= y.man /\ y.man < One /\ y.man # 0
      /\ x.exp \in Int /\ y.exp \in Int /\ x.pos \in BOOLEAN
  BY HalfKnown DEF Floats, Mantissas
<1>2. o \in Nat /\ o <= y.man
  BY <1>1, OperandBound
<1>3. FloatSum(x, y) = FloatSumOrdered(x, y)
  BY <1>1 DEF FloatSum, IsZero
<1>4. FloatSumOrdered(x, y) = ShiftRight(x.exp, s, x.pos)
  BY DEF FloatSumOrdered, Operand
<1>. HIDE DEF o
<1>5. s \in Nat /\ Half <= s /\ s < 2 * One
  BY <1>1, <1>2
<1>6. s < One => ShiftRight(x.exp, s, x.pos) = Float(x.exp, s, x.pos)
  BY DEF ShiftRight
<1>7. ~(s < One) => ShiftRight(x.exp, s, x.pos) = Float(x.exp + 1, s \div 2, x.pos)
  BY DEF ShiftRight
<1>8. ~(s < One) => s \div 2 \in Mantissas
  BY <1>1, <1>5 DEF Mantissas
<1>9. s < One => s \in Mantissas
  BY <1>1, <1>5 DEF Mantissas
<1>10. FloatSum(x, y) \in Floats
  <2>. HIDE DEF s
  <2>1. CASE s < One
    BY <1>1, <1>3, <1>4, <1>6, <1>9, <2>1 DEF Float, Floats
  <2>2. CASE ~(s < One)
    BY <1>1, <1>3, <1>4, <1>7, <1>8, <2>2 DEF Float, Floats
  <2>. QED  BY <2>1, <2>2
<1>. QED  BY <1>3, <1>4, <1>6, <1>7, <1>10 DEF o

-----------------------------------------------------------------------------
(* One term of pow2_fraction: what is in brackets is at most q * 2^e / One; *)
(* times x, with the next coefficient added, it is as the sum says.        *)
LEMMA PowTerm ==
    ASSUME NEW x \in Floats, x.pos, AtMostOne(x), NEW y \in Floats, y.pos,
           NEW e \in Int, NEW q \in Mantissas, AtMost(y, e, q),
           NEW c \in Floats, c.pos, c.exp = e + 1
    PROVE  LET r == FloatSum(c, FloatProduct(x, y))
               s == c.man + (q \div 2)
           IN  /\ r \in Floats /\ r.pos
               /\ s < One => r.exp = e + 1 /\ r.man <= s
               /\ ~(s < One) => AtMost(r, e + 2, s \div 2)
<1>. DEFINE z == FloatProduct(x, y)  o == Operand(z, c.exp)  s == c.man + (q \div 2)
            r == FloatSum(c, z)
<1>1. z \in Floats /\ z.pos = TRUE /\ AtMost(z, y.exp, y.man)
  <2>1. x.pos = TRUE /\ y.pos = TRUE
    BY DEF Floats
  <2>2. z \in Floats /\ z.pos = (x.pos = y.pos)
    BY ProductOfFloats
  <2>. QED  BY <2>1, <2>2, ProductAtMost
<1>2. /\ Half \in Nat \ {0} /\ One \in Nat \ {0} /\ One = 2 * Half
      /\ q \in Nat /\ Half <= q /\ q < One
      /\ z.man \in Nat /\ Half <= z.man /\ z.man < One /\ z.exp \in Int
      /\ y.man \in Nat /\ y.exp \in Int /\ c.man \in Nat /\ c.exp \in Int /\ c.pos = TRUE
  BY <1>1, HalfKnown DEF Floats, Mantissas
<1>3. AtMost(z, e, q)
  BY <1>1, <1>2 DEF AtMost
<1>4. o \in Nat /\ o <= q \div 2
  <2>1. z.exp <= c.exp
    BY <1>2, <1>3 DEF AtMost
  <2>2. /\ o \in Nat
        /\ z.exp = c.exp - 1 => o = z.man \div 2
        /\ z.exp < c.exp - 1 => 4 * o <= z.man
    BY <1>1, <1>2, <2>1, OperandBound
  <2>. HIDE DEF z, o
  <2>3. CASE z.exp = e
    BY <1>2, <1>3, <2>2, <2>3 DEF AtMost
  <2>4. CASE z.exp < e
    BY <1>2, <2>2, <2>4
  <2>. QED  BY <1>2, <1>3, <2>2, <2>3, <2>4 DEF AtMost
<1>5. /\ r \in Floats
      /\ c.man + o < One => r = Float(c.exp, c.man + o, TRUE)
      /\ ~(c.man + o < One) => r = Float(c.exp + 1, (c.man + o) \div 2, TRUE)
  <2>1. z.exp <= c.exp
    BY <1>2, <1>3 DEF AtMost
  <2>2. c.pos = z.pos
    BY <1>1, <1>2
  <2>. HIDE DEF z
  <2>3. LET t == c.man + Operand(z, c.exp)
        IN  /\ FloatSum(c, z) = ShiftRight(c.exp, t, c.pos)
            /\ t < One => ShiftRight(c.exp, t, c.pos) = Float(c.exp, t, c.pos)
            /\ ~(t < One) => ShiftRight(c.exp, t, c.pos) = Float(c.exp + 1, t \div 2, c.pos)
            /\ FloatSum(c, z) \in Floats
    BY <1>1, <2>1, <2>2, SumSameSign
  <2>. QED  BY <1>2, <2>3
<1>. HIDE DEF z, o, r
<1>6. CASE c.man + o < One
  <2>1. r.exp = e + 1 /\ r.man = c.man + o /\ r.pos
    BY <1>5, <1>6 DEF Float
  <2>2. s \in Nat /\ c.man + o <= s
    BY <1>2, <1>4
  <2>3. ~(s < One) => AtMost(r, e + 2, s \div 2)
    BY <2>1 DEF AtMost
  <2>. QED  BY <1>5, <2>1, <2>2, <2>3 DEF r, z
<1>7. CASE ~(c.man + o < One)
  <2>1. r.exp = e + 2 /\ r.man = (c.man + o) \div 2 /\ r.pos
    BY <1>5, <1>7 DEF Float
  <2>2. s \in Nat /\ c.man + o <= s /\ ~(s < One)
    BY <1>2, <1>4, <1>7
  <2>3. (c.man + o) \div 2 <= s \div 2
    BY <1>2, <1>4, <2>2
  <2>. QED  BY <1>5, <2>1, <2>2, <2>3 DEF r, z, AtMost
<1>. QED  BY <1>6, <1>7

-----------------------------------------------------------------------------
(* The mantissas of the coefficients, and how they add up.                 *)
First(high, low) == (high * One + (low * One) \div 2^16) \div 2^16

(* With at least 16 bits, the first half is among them; k counts what the  *)
(* others can be.                                                          *)
FirstHalf(k) ==
    /\ One = 65536 * k /\ Half = 32768 * k
    /\ \A high \in Nat, low \in Nat : low < 65536 =>
           /\ First(high, low) \in Nat
           /\ high * k <= First(high, low) /\ First(high, low) < high * k + k

LEMMA FirstBounds ==
    ASSUME Half # 2048
    PROVE  \E k \in Nat \ {0} : FirstHalf(k)
<1>1. PICK k \in Nat \ {0} : One = 65536 * k /\ Half = 32768 * k
  <2>1. CASE Half = 32768
    <3>1. One = 65536 * 1 /\ Half = 32768 * 1
      BY <2>1, MantissaSizes
    <3>. QED  BY <3>1
  <2>2. CASE Half = 524288
    <3>1. One = 65536 * 16 /\ Half = 32768 * 16
      BY <2>2, MantissaSizes
    <3>. QED  BY <3>1
  <2>3. CASE Half = 8388608
    <3>1. One = 65536 * 256 /\ Half = 32768 * 256
      BY <2>3, MantissaSizes
    <3>. QED  BY <3>1
  <2>4. CASE Half = 134217728
    <3>1. One = 65536 * 4096 /\ Half = 32768 * 4096
      BY <2>4, MantissaSizes
    <3>. QED  BY <3>1
  <2>5. CASE Half = 2147483648
    <3>1. One = 65536 * 65536 /\ Half = 32768 * 65536
      BY <2>5, MantissaSizes
    <3>. QED  BY <3>1
  <2>. QED  BY <2>1, <2>2, <2>3, <2>4, <2>5, MantissaSizes
<1>2. ASSUME NEW high \in Nat, NEW low \in Nat, low < 65536
      PROVE  /\ First(high, low) \in Nat
             /\ high * k <= First(high, low) /\ First(high, low) < high * k + k
  <2>. DEFINE h == high * k  l == low * k
  <2>1. h \in Nat /\ l \in Nat /\ l < 65536 * k
    <3>1. low * k <= 65535 * k
      BY SMT, <1>2, TimesMonotone
    <3>2. h \in Nat /\ l \in Nat
      BY Times
    <3>. QED  BY SMT, <3>1, <3>2
  <2>2. high * One = 65536 * h /\ low * One = 65536 * l
    BY SMT, <1>1
  <2>. HIDE DEF h, l
  <2>3. (65536 * l) \div 65536 = l
    BY SMT, <2>1
  <2>4. First(high, low) = (65536 * h + l) \div 65536
    <3>1. 2^16 = 65536
      OBVIOUS
    <3>2. (high * One + (65536 * l) \div 65536) \div 65536 = (65536 * h + l) \div 65536
      BY SMT, <2>2, <2>3
    <3>. QED  BY SMT, <2>2, <3>1, <3>2 DEF First
  <2>5. (65536 * h + l) \div 65536 \in Nat
        /\ h <= (65536 * h + l) \div 65536 /\ (65536 * h + l) \div 65536 < h + k
    BY SMT, <2>1
  <2>. QED  BY SMT, <2>4, <2>5 DEF h
<1>3. FirstHalf(k)
  <2>1. \A high \in Nat, low \in Nat : low < 65536 =>
            /\ First(high, low) \in Nat
            /\ high * k <= First(high, low) /\ First(high, low) < high * k + k
    BY SMT, <1>2
  <2>. QED  BY SMT, <1>1, <2>1 DEF FirstHalf
<1>. QED  BY <1>3

LEMMA PowNumbers ==
    LET c1 == First(32774, 56617)
        c2 == First(46004, 43246)
        c3 == First(53565, 57873)
        c4 == First(48947, 5668)
        q1 == (c3 + (c4 \div 2)) \div 2
        q2 == c2 + (q1 \div 2)
    IN  /\ c1 \in Mantissas /\ c2 \in Mantissas /\ c3 \in Mantissas /\ c4 \in Mantissas
        /\ c3 + (c4 \div 2) >= One /\ q1 \in Mantissas
        /\ q2 \in Mantissas /\ c1 + (q2 \div 2) < One
<1>. DEFINE c1 == First(32774, 56617)  c2 == First(46004, 43246)
            c3 == First(53565, 57873)  c4 == First(48947, 5668)
            q1 == (c3 + (c4 \div 2)) \div 2
            q2 == c2 + (q1 \div 2)
<1>1. CASE Half = 2048
  <2>1. One = 4096 /\ 2^16 = 65536
    BY <1>1, HalfKnown
  <2>2. c1 = 2048 /\ c2 = 2875 /\ c3 = 3347 /\ c4 = 3059
    BY <2>1 DEF First
  <2>. HIDE DEF c1, c2, c3, c4
  <2>. QED  BY <1>1, <2>1, <2>2 DEF Mantissas, c1, c2, c3, c4
<1>2. CASE Half # 2048
  <2>1. PICK k \in Nat \ {0} : FirstHalf(k)
    BY <1>2, FirstBounds
  <2>2. /\ c1 \in Nat /\ 32774 * k <= c1 /\ c1 < 32774 * k + k
        /\ c2 \in Nat /\ 46004 * k <= c2 /\ c2 < 46004 * k + k
        /\ c3 \in Nat /\ 53565 * k <= c3 /\ c3 < 53565 * k + k
        /\ c4 \in Nat /\ 48947 * k <= c4 /\ c4 < 48947 * k + k
        /\ One = 65536 * k /\ Half = 32768 * k
    <3>1. c1 \in Nat /\ 32774 * k <= c1 /\ c1 < 32774 * k + k
      BY SMT, <2>1 DEF FirstHalf
    <3>2. c2 \in Nat /\ 46004 * k <= c2 /\ c2 < 46004 * k + k
      BY SMT, <2>1 DEF FirstHalf
    <3>3. c3 \in Nat /\ 53565 * k <= c3 /\ c3 < 53565 * k + k
      BY SMT, <2>1 DEF FirstHalf
    <3>4. c4 \in Nat /\ 48947 * k <= c4 /\ c4 < 48947 * k + k
      BY SMT, <2>1 DEF FirstHalf
    <3>. HIDE DEF c1, c2, c3, c4
    <3>. QED  BY SMT, <2>1, <3>1, <3>2, <3>3, <3>4 DEF FirstHalf
  <2>. HIDE DEF c1, c2, c3, c4
  <2>3. /\ c1 \in Mantissas /\ c2 \in Mantissas /\ c3 \in Mantissas /\ c4 \in Mantissas
    BY SMT, <2>2 DEF Mantissas
  <2>4. /\ c3 + (c4 \div 2) >= One /\ c3 + (c4 \div 2) <= 78040 * k
        /\ q1 \in Nat /\ q1 <= 39020 * k /\ Half <= q1
    BY SMT, <2>2
  <2>. HIDE DEF q1
  <2>5. q2 \in Nat /\ Half <= q2 /\ q2 < 65515 * k
    BY SMT, <2>2, <2>4
  <2>. HIDE DEF q2
  <2>6. c1 + (q2 \div 2) < One /\ q1 \in Mantissas /\ q2 \in Mantissas
    BY SMT, <2>2, <2>4, <2>5 DEF Mantissas
  <2>. QED  BY SMT, <2>3, <2>4, <2>6 DEF c1, c2, c3, c4, q1, q2
<1>. QED  BY <1>1, <1>2

(* pow2_fraction of a number up to one lies between one and two.           *)
LEMMA PowFraction ==
    ASSUME NEW x \in Floats, x.pos, AtMostOne(x)
    PROVE  /\ Pow2Fraction(x) \in Floats /\ Pow2Fraction(x).exp = 1
           /\ Pow2Fraction(x).pos
<1>. DEFINE m1 == First(32774, 56617)  m2 == First(46004, 43246)
            m3 == First(53565, 57873)  m4 == First(48947, 5668)
            c1 == Float(1, m1, TRUE)   c2 == Float(0, m2, TRUE)
            c3 == Float(-2, m3, TRUE)  c4 == Float(-3, m4, TRUE)
            q1 == (m3 + (m4 \div 2)) \div 2
            q2 == m2 + (q1 \div 2)
            r3 == FloatSum(c3, FloatProduct(x, c4))
            r2 == FloatSum(c2, FloatProduct(x, r3))
            r1 == FloatSum(c1, FloatProduct(x, r2))
<1>1. Pow2Fraction(x) = r1
  BY DEF Pow2Fraction, Cubic, PowCoefficients, Coefficient, First
<1>2. /\ m1 \in Mantissas /\ m2 \in Mantissas /\ m3 \in Mantissas /\ m4 \in Mantissas
      /\ m3 + (m4 \div 2) >= One /\ q1 \in Mantissas
      /\ q2 \in Mantissas /\ m1 + (q2 \div 2) < One
  BY PowNumbers
<1>3. \A m \in Mantissas : m \in Nat
  BY HalfKnown DEF Mantissas
<1>. HIDE DEF m1, m2, m3, m4
<1>4. /\ c1 \in Floats /\ c2 \in Floats /\ c3 \in Floats /\ c4 \in Floats
      /\ c1.pos /\ c2.pos /\ c3.pos /\ c4.pos
      /\ c1.exp = 1 /\ c2.exp = 0 /\ c3.exp = -2 /\ c4.exp = -3
      /\ c1.man = m1 /\ c2.man = m2 /\ c3.man = m3 /\ c4.man = m4
  BY <1>2 DEF Float, Floats
<1>. HIDE DEF c1, c2, c3, c4
<1>5. r3 \in Floats /\ r3.pos /\ AtMost(r3, -1, q1)
  <2>1. AtMost(c4, -3, m4) /\ -3 \in Int
    BY <1>2, <1>3, <1>4 DEF AtMost
  <2>2. LET s == c3.man + (m4 \div 2)
        IN  /\ r3 \in Floats /\ r3.pos
            /\ s < One => r3.exp = -3 + 1 /\ r3.man <= s
            /\ ~(s < One) => AtMost(r3, -3 + 2, s \div 2)
    BY <1>2, <1>4, <2>1, PowTerm
  <2>3. ~(m3 + (m4 \div 2) < One)
    BY <1>2, <1>3, HalfKnown
  <2>. HIDE DEF r3
  <2>. QED  BY <1>4, <2>2, <2>3
<1>. HIDE DEF r3, q1
<1>6. r2 \in Floats /\ r2.pos /\ AtMost(r2, 0, q2)
  <2>1. -1 \in Int /\ c2.exp = -1 + 1
    BY <1>4
  <2>2. LET s == c2.man + (q1 \div 2)
        IN  /\ r2 \in Floats /\ r2.pos
            /\ s < One => r2.exp = -1 + 1 /\ r2.man <= s
    BY <1>2, <1>4, <1>5, <2>1, PowTerm
  <2>3. q2 < One /\ c2.man + (q1 \div 2) = q2
    BY <1>2, <1>4, HalfKnown DEF Mantissas
  <2>. HIDE DEF r2, q2
  <2>. QED  BY <2>2, <2>3 DEF AtMost
<1>. HIDE DEF r2, q2
<1>7. r1 \in Floats /\ r1.pos /\ r1.exp = 1
  <2>1. 0 \in Int /\ c1.exp = 0 + 1
    BY <1>4
  <2>2. LET s == c1.man + (q2 \div 2)
        IN  /\ r1 \in Floats /\ r1.pos
            /\ s < One => r1.exp = 0 + 1 /\ r1.man <= s
    BY <1>2, <1>4, <1>6, <2>1, PowTerm
  <2>. HIDE DEF r1
  <2>. QED  BY <1>2, <1>4, <2>2
<1>. QED  BY <1>1, <1>7

-----------------------------------------------------------------------------
(* operator+= of two numbers with different signs, the smaller one taken   *)
(* from the greater.                                                       *)
LEMMA SumOtherSign ==
    ASSUME NEW x \in Floats, NEW y \in Floats, x.pos # y.pos, y.exp <= x.exp,
           Operand(y, x.exp) <= x.man
    PROVE  /\ Operand(y, x.exp) = x.man => FloatSum(x, y) = Zero(x)
           /\ Operand(y, x.exp) # x.man =>
                /\ x.man - Operand(y, x.exp) \in 1 .. One - 1
                /\ FloatSum(x, y) = ShiftLeft(x.exp, x.man - Operand(y, x.exp), x.pos)
<1>. DEFINE o == Operand(y, x.exp)
<1>1. /\ Half \in Nat \ {0} /\ One \in Nat \ {0}
      /\ x.man \in Nat /\ x.man < One /\ x.man # 0
      /\ y.man \in Nat /\ y.man # 0
      /\ x.exp \in Int /\ y.exp \in Int
  BY HalfKnown DEF Floats, Mantissas
<1>2. o \in Nat
  BY <1>1, OperandBound
<1>3. FloatSum(x, y) = FloatSumOrdered(x, y)
  BY <1>1 DEF FloatSum, IsZero
<1>4. /\ o = x.man => FloatSumOrdered(x, y) = Zero(x)
      /\ o < x.man => FloatSumOrdered(x, y) = ShiftLeft(x.exp, x.man - o, x.pos)
  <2>1. o = IF x.exp - y.exp < Width THEN y.man \div 2^(x.exp - y.exp) ELSE 0
    BY DEF Operand
  <2>. HIDE DEF o
  <2>2. FloatSumOrdered(x, y) =
          CASE x.pos = y.pos -> ShiftRight(x.exp, x.man + o, x.pos)
            [] x.pos # y.pos /\ o = x.man -> Zero(x)
            [] x.pos # y.pos /\ o > x.man -> ShiftLeft(y.exp, o - x.man, y.pos)
            [] OTHER -> ShiftLeft(x.exp, x.man - o, x.pos)
    BY <2>1 DEF FloatSumOrdered
  <2>3. ASSUME o = x.man
        PROVE  FloatSumOrdered(x, y) = Zero(x)
    <3>1. ~(o > x.man)  BY <1>1, <1>2, <2>3
    <3>. QED  BY <2>2, <2>3, <3>1
  <2>4. ASSUME o < x.man
        PROVE  FloatSumOrdered(x, y) = ShiftLeft(x.exp, x.man - o, x.pos)
    <3>1. ~(o > x.man) /\ o # x.man  BY <1>1, <1>2, <2>4
    <3>. QED  BY <2>2, <3>1
  <2>. QED  BY <2>3, <2>4
<1>. HIDE DEF o
<1>5. o # x.man => o < x.man /\ x.man - o \in 1 .. One - 1
  BY <1>1, <1>2 DEF o
<1>. QED  BY <1>3, <1>4, <1>5 DEF o

LEMMA PowersGrow ==
    \A j \in 0 .. 31, k \in 0 .. 32 : j < k => 2 * 2^j <= 2^k
<1>. DEFINE T == {n \in Nat : \A j \in 0 .. 31, k \in 0 .. 32 :
                                  k = j + 1 + n => 2 * 2^j <= 2^k}
<1>1. 0 \in T
  <2>. SUFFICES ASSUME NEW j \in 0 .. 31, NEW k \in 0 .. 32, k = j + 1
                PROVE  2 * 2^j <= 2^k
    OBVIOUS
  <2>1. 2^k = 2 * 2^j /\ 2^j \in Nat
    BY NextPower
  <2>. QED  BY <2>1
<1>2. \A n \in Nat : n \in T => n + 1 \in T
  <2>. SUFFICES ASSUME NEW n \in Nat, n \in T,
                       NEW j \in 0 .. 31, NEW k \in 0 .. 32, k = j + 1 + (n + 1)
                PROVE  2 * 2^j <= 2^k
    OBVIOUS
  <2>. DEFINE i == k - 1
  <2>1. i \in 0 .. 31 /\ i \in 0 .. 32 /\ k = i + 1 /\ i = j + 1 + n
    OBVIOUS
  <2>. HIDE DEF i
  <2>2. 2 * 2^j <= 2^i
    BY <2>1
  <2>3. 2^k = 2 * 2^i /\ 2^i \in Nat /\ 2^j \in Nat
    BY <2>1, NextPower, NextPowers
  <2>. QED  BY <2>2, <2>3
<1>3. Nat \subseteq T
  <2>. HIDE DEF T
  <2>. QED  BY <1>1, <1>2, Induction
<1>. SUFFICES ASSUME NEW j \in 0 .. 31, NEW k \in 0 .. 32, j < k
              PROVE  2 * 2^j <= 2^k
  OBVIOUS
<1>4. k - j - 1 \in Nat /\ k = j + 1 + (k - j - 1)
  OBVIOUS
<1>. QED  BY <1>3, <1>4

LEMMA FromIntOne == FromInt(1) = Float(1, Half, TRUE)
<1>. DEFINE k == LeadingZeros(1)  h == Width - 1
<1>1. /\ Width \in 12 .. 32 /\ Half \in Nat /\ One = 2 * Half /\ Half >= 2048
      /\ One \in Nat /\ 1 \in 1 .. One - 1
  BY HalfKnown
<1>2. k \in 0 .. Width - 1 /\ 2^k \in Nat \ {0} /\ 1 * 2^k \in Mantissas
  BY <1>1, Shifted
<1>3. Half = 2^h /\ h \in 0 .. 31 /\ h = Width - 1
  BY <1>1 DEF Half
<1>. HIDE DEF k, h
<1>4. k = h
  <2>1. k < h => 2 * 2^k <= 2^h
    <3>1. k \in 0 .. 31 /\ h \in 0 .. 32
      BY <1>1, <1>2, <1>3
    <3>. QED  BY <3>1, PowersGrow
  <2>2. 2^k >= 2^h
    BY <1>1, <1>2, <1>3 DEF Mantissas
  <2>. QED  BY <1>1, <1>2, <1>3, <2>1, <2>2
<1>5. FromInt(1) = Float(Width - k, 1 * 2^k, TRUE)
  BY DEF FromInt, ShiftLeft, k
<1>6. Width - k = 1 /\ 1 * 2^k = Half
  BY <1>1, <1>2, <1>3, <1>4
<1>. QED  BY <1>5, <1>6

(* from_int(1) - frac.                                                     *)
LEMMA OneMinus ==
    ASSUME NEW f \in Floats, f.pos = FALSE, f.exp <= 0
    PROVE  LET r == FloatSum(FromInt(1), f)
           IN  r \in Floats /\ r.pos /\ AtMostOne(r)
<1>. DEFINE x == FromInt(1)  o == Operand(f, x.exp)
<1>1. /\ Half \in Nat /\ Half >= 2048 /\ One \in Nat /\ One = 2 * Half /\ f.exp \in Int
      /\ f.man \in Nat /\ f.man < One
  BY HalfKnown DEF Floats, Mantissas
<1>2. x \in Floats /\ x.pos = TRUE /\ x.exp = 1 /\ x.man = Half
  <2>1. x = [exp |-> 1, man |-> Half, pos |-> TRUE]
    BY FromIntOne DEF Float
  <2>. HIDE DEF x
  <2>2. Half \in Mantissas /\ 1 \in Int /\ TRUE \in BOOLEAN
    BY <1>1 DEF Mantissas
  <2>. QED  BY <2>1, <2>2 DEF Floats
<1>. HIDE DEF x
<1>3. o \in Nat /\ 2 * o <= f.man
  BY <1>1, <1>2, OperandBound
<1>. HIDE DEF o
<1>4. o < Half
  BY <1>1, <1>3
<1>5. /\ Half - o \in 1 .. One - 1
      /\ FloatSum(x, f) = ShiftLeft(1, Half - o, TRUE)
  <2>1. x.pos # f.pos /\ f.exp <= x.exp /\ Operand(f, x.exp) <= x.man /\ Operand(f, x.exp) # x.man
    BY <1>1, <1>2, <1>3, <1>4 DEF o
  <2>2. /\ x.man - Operand(f, x.exp) \in 1 .. One - 1
        /\ FloatSum(x, f) = ShiftLeft(x.exp, x.man - Operand(f, x.exp), x.pos)
    BY <1>2, <2>1, SumOtherSign
  <2>. QED  BY <1>2, <2>2 DEF o
<1>. DEFINE r == ShiftLeft(1, Half - o, TRUE)
<1>6. /\ r \in Floats /\ r.pos = TRUE
      /\ Half - o >= Half => r.exp = 1 /\ r.man = Half - o
      /\ Half - o < Half => r.exp < 1
  <2>. DEFINE m == Half - o
  <2>1. m \in 1 .. One - 1 /\ 1 \in Int /\ TRUE \in BOOLEAN
    BY <1>5
  <2>. HIDE DEF m
  <2>2. LET y == ShiftLeft(1, m, TRUE)
        IN  /\ y \in Floats /\ y.pos = TRUE
            /\ m >= Half => y.exp = 1 /\ y.man = m
            /\ m < Half => y.exp < 1
    BY <2>1, ShiftedLeft
  <2>. QED  BY <2>2 DEF m
<1>7. AtMostOne(r)
  <2>1. r.exp \in Int
    BY <1>6 DEF Floats
  <2>. HIDE DEF r
  <2>. QED  BY <1>1, <1>3, <1>6, <2>1 DEF AtMostOne
<1>. QED  BY <1>5, <1>6, <1>7 DEF x

-----------------------------------------------------------------------------
LEMMA NestedQuotient ==
    ASSUME NEW a \in Nat, NEW b \in Nat \ {0}, NEW c \in Nat \ {0}
    PROVE  (a \div b) \div c = a \div (b * c)
<1>. DEFINE q == a \div b  r == q \div c  d == b * c
<1>1. q \in Nat /\ b * q <= a /\ a < b * q + b
  BY Quotient
<1>. HIDE DEF q
<1>2. r \in Nat /\ c * r <= q /\ q < c * r + c
  BY <1>1, Quotient
<1>. HIDE DEF r
<1>3. d \in Nat \ {0}
  BY Times
<1>4. d * r <= a
  <2>1. (c * r) * b <= q * b
    BY <1>1, <1>2, Times, TimesMonotone
  <2>2. (c * r) * b = d * r /\ q * b = b * q /\ d * r \in Nat /\ b * q \in Nat
    BY <1>1, <1>2, <1>3, Times
  <2>. QED  BY <1>1, <2>1, <2>2
<1>5. a < d * (r + 1)
  <2>1. q + 1 <= c * (r + 1)
    BY <1>1, <1>2
  <2>2. (q + 1) * b <= (c * (r + 1)) * b
    BY <1>1, <1>2, <2>1, Times, TimesMonotone
  <2>3. (q + 1) * b = b * q + b /\ (c * (r + 1)) * b = d * (r + 1)
    BY <1>1, <1>2, <1>3
  <2>4. d * (r + 1) \in Nat /\ b * q \in Nat
    BY <1>1, <1>2, <1>3, Times
  <2>. QED  BY <1>1, <2>2, <2>3, <2>4
<1>. HIDE DEF d
<1>6. r <= a \div d
  BY <1>2, <1>3, <1>4, QuotientAtLeast
<1>7. a \div d < r + 1
  <2>. DEFINE n == r + 1
  <2>1. n \in Nat /\ a < d * n
    BY <1>2, <1>5
  <2>. HIDE DEF n
  <2>2. a \div d < n
    BY <1>3, <2>1, QuotientBelow
  <2>. QED  BY <2>2 DEF n
<1>8. a \div d \in Nat
  BY <1>3, Quotient
<1>. QED  BY <1>2, <1>6, <1>7, <1>8 DEF q, r, d

(* Of a product by a number below one, operator+= takes the quotient of the *)
(* product of the mantissas, with whatever exponent it came out.           *)
LEMMA ProductOperand ==
    ASSUME NEW x \in Floats, x.exp = 0, NEW y \in Floats
    PROVE  LET z == FloatProduct(x, y)
               t == x.man * y.man
           IN  /\ z.exp <= y.exp /\ y.exp - 1 <= z.exp
               /\ Operand(z, y.exp) = t \div One
               /\ Operand(z, y.exp + 2) = t \div (One * 4)
               /\ Operand(z, y.exp + 1) = t \div (One * 2)
               /\ t < One * Half => z.exp = y.exp - 1 /\ z.man = (2 * t) \div One
<1>. DEFINE z == FloatProduct(x, y)  t == x.man * y.man
<1>1. /\ One \in Nat \ {0} /\ Half \in Nat /\ x.exp \in Int /\ y.exp \in Int
      /\ 2 \in Nat \ {0} /\ 4 \in Nat \ {0} /\ 8 \in Nat \ {0}
  BY HalfKnown DEF Floats, Mantissas
<1>2. /\ t \in Nat /\ z \in Floats /\ z.exp \in Int
      /\ t < One * Half => z.exp = y.exp - 1 /\ z.man = (2 * t) \div One
      /\ ~(t < One * Half) => z.exp = y.exp /\ z.man = t \div One
  <2>1. /\ t \in Nat /\ z \in Floats
        /\ t < One * Half => z.exp = x.exp + y.exp - 1 /\ z.man = (2 * t) \div One
        /\ ~(t < One * Half) => z.exp = x.exp + y.exp /\ z.man = t \div One
    BY ProductOfFloats
  <2>2. z.exp \in Int
    BY <2>1 DEF Floats
  <2>. HIDE DEF z, t
  <2>. QED  BY <1>1, <2>1, <2>2
<1>. HIDE DEF z, t
<1>3. \A e \in Int : z.exp <= e =>
        /\ z.exp = e => Operand(z, e) = z.man
        /\ z.exp = e - 1 => Operand(z, e) = z.man \div 2
        /\ z.exp = e - 2 => Operand(z, e) = z.man \div 4
        /\ z.exp = e - 3 => Operand(z, e) = z.man \div 8
  BY <1>2, OperandBound
<1>4. CASE t < One * Half
  <2>. DEFINE u == 2 * t
  <2>1. z.exp = y.exp - 1 /\ z.man = u \div One /\ u \in Nat
    BY <1>2, <1>4
  <2>2. /\ Operand(z, y.exp) = (u \div One) \div 2
        /\ Operand(z, y.exp + 1) = (u \div One) \div 4
        /\ Operand(z, y.exp + 2) = (u \div One) \div 8
    <3>. HIDE DEF u
    <3>1. y.exp \in Int /\ y.exp + 1 \in Int /\ y.exp + 2 \in Int
      BY <1>1
    <3>. QED  BY <1>1, <1>3, <2>1, <3>1
  <2>3. \A c \in Nat \ {0} : (u \div One) \div c = u \div (One * c)
    <3>. HIDE DEF u
    <3>. QED  BY <1>1, <2>1, NestedQuotient
  <2>4. u \div (One * 2) = t \div One /\ u \div (One * 4) = t \div (One * 2)
        /\ u \div (One * 8) = t \div (One * 4)
    <3>1. \A d \in Nat \ {0} : (u \div 2) \div d = u \div (2 * d)
      <4>. HIDE DEF u
      <4>. QED  BY <1>1, <2>1, NestedQuotient
    <3>2. u \div 2 = t
      BY <1>2
    <3>3. /\ One * 2 = 2 * One /\ One * 4 = 2 * (One * 2) /\ One * 8 = 2 * (One * 4)
          /\ One \in Nat \ {0} /\ One * 2 \in Nat \ {0} /\ One * 4 \in Nat \ {0}
      BY <1>1
    <3>. HIDE DEF u
    <3>. QED  BY <3>1, <3>2, <3>3
  <2>. HIDE DEF u
  <2>5. /\ (u \div One) \div 2 = u \div (One * 2)
        /\ (u \div One) \div 4 = u \div (One * 4)
        /\ (u \div One) \div 8 = u \div (One * 8)
    BY <1>1, <2>3
  <2>6. /\ Operand(z, y.exp) = t \div One
        /\ Operand(z, y.exp + 1) = t \div (One * 2)
        /\ Operand(z, y.exp + 2) = t \div (One * 4)
    BY <2>2, <2>4, <2>5
  <2>7. z.exp <= y.exp /\ y.exp - 1 <= z.exp
    BY <1>1, <2>1
  <2>. QED  BY <1>2, <1>4, <2>6, <2>7 DEF z, t
<1>5. CASE ~(t < One * Half)
  <2>1. z.exp = y.exp /\ z.man = t \div One
    BY <1>2, <1>5
  <2>2. /\ Operand(z, y.exp) = t \div One
        /\ Operand(z, y.exp + 1) = (t \div One) \div 2
        /\ Operand(z, y.exp + 2) = (t \div One) \div 4
    <3>1. y.exp \in Int /\ y.exp + 1 \in Int /\ y.exp + 2 \in Int
      BY <1>1
    <3>. QED  BY <1>1, <1>3, <2>1, <3>1
  <2>3. \A c \in Nat \ {0} : (t \div One) \div c = t \div (One * c)
    BY <1>1, <1>2, NestedQuotient
  <2>4. /\ (t \div One) \div 2 = t \div (One * 2)
        /\ (t \div One) \div 4 = t \div (One * 4)
    BY <1>1, <2>3
  <2>5. /\ Operand(z, y.exp) = t \div One
        /\ Operand(z, y.exp + 1) = t \div (One * 2)
        /\ Operand(z, y.exp + 2) = t \div (One * 4)
    BY <2>2, <2>4
  <2>6. z.exp <= y.exp /\ y.exp - 1 <= z.exp
    BY <1>1, <2>1
  <2>. QED  BY <1>2, <1>5, <2>5, <2>6 DEF z, t
<1>. QED  BY <1>4, <1>5

LEMMA LogPolynomial ==
    ASSUME NEW m \in Nat, NEW w \in Nat, NEW a \in Nat, NEW b \in Nat, NEW c \in Nat,
           NEW d \in Nat, NEW n \in Nat, n = m + w,
           2 * d + 4 * b >= 4 * a + c, 6 * d + 4 * b >= 8 * a, 6 * d >= 4 * a
    PROVE  c * (m * m * m) + 4 * a * (n * n * m) <= 2 * d * (n * n * n) + 4 * b * (n * m * m)
<1>. DEFINE e1 == 2 * d + 4 * b - 4 * a - c
            e2 == 6 * d + 4 * b - 8 * a
            e3 == 6 * d - 4 * a
            x1 == (m * m * m) * e1  x2 == (m * m * w) * e2
            x3 == (m * w * w) * e3  x4 == (w * w * w) * d
<1>1. e1 \in Nat /\ e2 \in Nat /\ e3 \in Nat
  OBVIOUS
<1>2. /\ m * m * m \in Nat /\ m * m * w \in Nat /\ m * w * w \in Nat /\ w * w * w \in Nat
  BY Times
<1>3. x1 \in Nat /\ x2 \in Nat /\ x3 \in Nat /\ x4 \in Nat
  <2>. HIDE DEF e1, e2, e3
  <2>. QED BY <1>1, <1>2, Times
<1>4. 2 * d * (n * n * n) + 4 * b * (n * m * m)
        = c * (m * m * m) + 4 * a * (n * n * m) + x1 + x2 + x3 + 2 * x4
  BY SMT
<1>5. c * (m * m * m) + 4 * a * (n * n * m) \in Nat
  <2>1. n * n * m \in Nat /\ 4 * a \in Nat
    BY Times
  <2>. QED  BY <1>2, <2>1, Times
<1>. HIDE DEF x1, x2, x3, x4
<1>. QED  BY <1>3, <1>4, <1>5

LEMMA LogBound ==
    ASSUME NEW m \in Nat, NEW w \in Nat, NEW a \in Nat, NEW b \in Nat, NEW c \in Nat,
           NEW d \in Nat, NEW n \in Nat, NEW s \in Nat, NEW t \in Nat,
           n = m + w, m > 0,
           2 * d + 4 * b >= 4 * a + c, 6 * d + 4 * b >= 8 * a, 6 * d >= 4 * a,
           4 * n * b <= 4 * n * s + m * c, n * t + m * s < n * a
    PROVE  2 * m * t < n * d
<1>. DEFINE f == 4 * n * m  g == 4 * n * n  h == m * m  u == n * t + m * s  v == 2 * m * t
<1>1. f \in Nat \ {0} /\ g \in Nat \ {0} /\ h \in Nat \ {0}
  <2>1. n * m \in Nat \ {0} /\ n * n \in Nat \ {0} /\ m * m \in Nat \ {0}
    BY Times
  <2>. QED  BY <2>1
<1>2. 2 * f * u < 2 * f * (n * a)
  <2>1. u \in Nat /\ n * a \in Nat /\ u < n * a
    BY Times
  <2>. HIDE DEF f, u
  <2>2. (u + 1) * f <= (n * a) * f
    BY <1>1, <2>1, TimesMonotone
  <2>3. (u + 1) * f = u * f + f /\ u * f \in Nat /\ (n * a) * f \in Nat
        /\ 2 * f * u = 2 * (u * f) /\ 2 * f * (n * a) = 2 * ((n * a) * f)
    BY <1>1, <2>1, Times
  <2>. QED  BY <1>1, <2>2, <2>3
<1>3. 2 * (4 * n * b) * h <= 2 * (4 * n * s + m * c) * h
  <2>1. 4 * n * b \in Nat /\ 4 * n * s + m * c \in Nat
    BY Times
  <2>. DEFINE p == 4 * n * b  q == 4 * n * s + m * c
  <2>2. p \in Nat /\ q \in Nat /\ p <= q
    BY <2>1
  <2>. HIDE DEF p, q, h
  <2>3. p * h <= q * h /\ p * h \in Nat /\ q * h \in Nat
    BY <1>1, <2>2, Times, TimesMonotone
  <2>4. 2 * p * h = 2 * (p * h) /\ 2 * q * h = 2 * (q * h)
    BY <1>1, <2>2
  <2>5. 2 * p * h <= 2 * q * h
    BY <2>3, <2>4
  <2>. QED  BY <2>5 DEF p, q
<1>4. c * (m * m * m) + 4 * a * (n * n * m) <= 2 * d * (n * n * n) + 4 * b * (n * m * m)
  BY LogPolynomial
<1>5. g * v < g * (n * d)
  <2>. DEFINE i == n * n * m * t  j == n * m * m * s  k == n * n * m * a
              l == n * m * m * b  o == m * m * m * c  r == n * n * n * d
  <2>1. 2 * f * u = 8 * i + 8 * j /\ 2 * f * (n * a) = 8 * k
    BY SMT
  <2>2. 2 * (4 * n * b) * h = 8 * l /\ 2 * (4 * n * s + m * c) * h = 8 * j + 2 * o
    BY SMT
  <2>3. c * (m * m * m) + 4 * a * (n * n * m) = o + 4 * k
        /\ 2 * d * (n * n * n) + 4 * b * (n * m * m) = 2 * r + 4 * l
    BY SMT
  <2>4. g * v = 8 * i /\ g * (n * d) = 4 * r
    BY SMT
  <2>5. i \in Nat /\ j \in Nat /\ k \in Nat /\ l \in Nat /\ o \in Nat /\ r \in Nat
    BY Times
  <2>. HIDE DEF f, g, h, u, v, i, j, k, l, o, r
  <2>6. 8 * i + 8 * j < 8 * k /\ 8 * l <= 8 * j + 2 * o /\ o + 4 * k <= 2 * r + 4 * l
    BY <1>2, <1>3, <1>4, <2>1, <2>2, <2>3
  <2>7. 8 * i < 4 * r
    BY <2>5, <2>6
  <2>. QED  BY <2>4, <2>7
<1>6. ASSUME n * d <= v
      PROVE  FALSE
  <2>1. n * d \in Nat /\ v \in Nat
    BY Times
  <2>. DEFINE x == n * d
  <2>2. x \in Nat /\ x <= v /\ g * v < g * x
    BY <1>5, <1>6, <2>1
  <2>. HIDE DEF g, v, x
  <2>3. x * g <= v * g /\ x * g = g * x /\ v * g = g * v /\ x * g \in Nat /\ v * g \in Nat
    BY <1>1, <2>1, <2>2, Times, TimesMonotone
  <2>. QED  BY <2>2, <2>3
<1>7. n * d \in Nat /\ v \in Nat
  BY Times
<1>. QED  BY <1>6, <1>7

LEMMA LogNumbers ==
    LET l1 == First(52663, 16359)
        l2 == First(51640, 1773)
        l3 == First(36278, 30667)
        l4 == First(43828, 61860)
    IN  /\ l1 \in Mantissas /\ l2 \in Mantissas /\ l3 \in Mantissas /\ l4 \in Mantissas
        /\ 2 * (l1 + 1) + 4 * l3 >= 4 * (l2 + 1) + l4
        /\ 6 * (l1 + 1) + 4 * l3 >= 8 * (l2 + 1)
        /\ 6 * (l1 + 1) >= 4 * (l2 + 1)
        /\ 2 * (l3 - (l4 \div 4)) >= Half /\ l3 - (l4 \div 8) < Half
        /\ 2 * (l2 - Half) >= Half
<1>. DEFINE l1 == First(52663, 16359)  l2 == First(51640, 1773)
            l3 == First(36278, 30667)  l4 == First(43828, 61860)
<1>1. CASE Half = 2048
  <2>1. One = 4096 /\ 2^16 = 65536
    BY <1>1, HalfKnown
  <2>2. l1 = 3291 /\ l2 = 3227 /\ l3 = 2267 /\ l4 = 2739
    BY <2>1 DEF First
  <2>. HIDE DEF l1, l2, l3, l4
  <2>. QED  BY <1>1, <2>1, <2>2 DEF Mantissas, l1, l2, l3, l4
<1>2. CASE Half # 2048
  <2>1. PICK k \in Nat \ {0} : FirstHalf(k)
    BY <1>2, FirstBounds
  <2>2. /\ l1 \in Nat /\ 52663 * k <= l1 /\ l1 < 52663 * k + k
        /\ l2 \in Nat /\ 51640 * k <= l2 /\ l2 < 51640 * k + k
        /\ l3 \in Nat /\ 36278 * k <= l3 /\ l3 < 36278 * k + k
        /\ l4 \in Nat /\ 43828 * k <= l4 /\ l4 < 43828 * k + k
        /\ One = 65536 * k /\ Half = 32768 * k
    <3>1. l1 \in Nat /\ 52663 * k <= l1 /\ l1 < 52663 * k + k
      BY SMT, <2>1 DEF FirstHalf
    <3>2. l2 \in Nat /\ 51640 * k <= l2 /\ l2 < 51640 * k + k
      BY SMT, <2>1 DEF FirstHalf
    <3>3. l3 \in Nat /\ 36278 * k <= l3 /\ l3 < 36278 * k + k
      BY SMT, <2>1 DEF FirstHalf
    <3>4. l4 \in Nat /\ 43828 * k <= l4 /\ l4 < 43828 * k + k
      BY SMT, <2>1 DEF FirstHalf
    <3>. HIDE DEF l1, l2, l3, l4
    <3>. QED  BY SMT, <2>1, <3>1, <3>2, <3>3, <3>4 DEF FirstHalf
  <2>. HIDE DEF l1, l2, l3, l4
  <2>3. l1 \in Mantissas /\ l2 \in Mantissas /\ l3 \in Mantissas /\ l4 \in Mantissas
    BY SMT, <2>2 DEF Mantissas
  <2>4. /\ 2 * (l1 + 1) + 4 * l3 >= 4 * (l2 + 1) + l4
        /\ 6 * (l1 + 1) + 4 * l3 >= 8 * (l2 + 1)
        /\ 6 * (l1 + 1) >= 4 * (l2 + 1)
    BY SMT, <2>2
  <2>5. 2 * (l3 - (l4 \div 4)) >= Half
    BY SMT, <2>2
  <2>6. l3 - (l4 \div 8) < Half
    BY SMT, <2>2
  <2>7. 2 * (l2 - Half) >= Half
    BY SMT, <2>2
  <2>. QED  BY SMT, <2>3, <2>4, <2>5, <2>6, <2>7 DEF l1, l2, l3, l4
<1>. QED  BY <1>1, <1>2

LEMMA ProductSign ==
    ASSUME NEW x \in Floats, NEW y \in Floats, x.pos = TRUE, y.pos = FALSE
    PROVE  FloatProduct(x, y) \in Floats /\ FloatProduct(x, y).pos = FALSE
<1>1. FloatProduct(x, y) \in Floats /\ FloatProduct(x, y).pos = (x.pos = y.pos)
  BY ProductOfFloats
<1>2. (x.pos = y.pos) = FALSE
  OBVIOUS
<1>. QED  BY <1>1, <1>2

(* The polynomial of log2 is nowhere positive.                             *)
LEMMA LogNegative ==
    ASSUME NEW x \in Floats, x.exp = 0, x.pos
    PROVE  LET r == Cubic(LogCoefficients, x)
           IN  /\ r.pos = FALSE
               /\ r.man # 0 => r \in Floats /\ r.exp <= 2
<1>. DEFINE m1 == First(52663, 16359)  m2 == First(51640, 1773)
            m3 == First(36278, 30667)  m4 == First(43828, 61860)
            c1 == Float(2, m1, FALSE)  c2 == Float(3, m2, TRUE)
            c3 == Float(3, m3, FALSE)  c4 == Float(1, m4, TRUE)
            z3 == FloatProduct(x, c4)
            r3 == FloatSum(c3, z3)
            z2 == FloatProduct(x, r3)
            r2 == FloatSum(c2, z2)
            z1 == FloatProduct(x, r2)
            r1 == FloatSum(c1, z1)
            m  == x.man
            o3 == (m * m4) \div (One * 4)
            s3 == m3 - o3
            o2 == (m * s3) \div One
            s2 == m2 - o2
            o1 == (2 * m * s2) \div One
<1>1. Cubic(LogCoefficients, x) = r1
  BY DEF Cubic, LogCoefficients, Coefficient, First
<1>2. /\ m1 \in Mantissas /\ m2 \in Mantissas /\ m3 \in Mantissas /\ m4 \in Mantissas
      /\ 2 * (m1 + 1) + 4 * m3 >= 4 * (m2 + 1) + m4
      /\ 6 * (m1 + 1) + 4 * m3 >= 8 * (m2 + 1)
      /\ 6 * (m1 + 1) >= 4 * (m2 + 1)
      /\ 2 * (m3 - (m4 \div 4)) >= Half /\ m3 - (m4 \div 8) < Half
      /\ 2 * (m2 - Half) >= Half
  BY LogNumbers
<1>. HIDE DEF m1, m2, m3, m4
<1>3. /\ Half \in Nat \ {0} /\ One \in Nat \ {0} /\ One = 2 * Half
      /\ m1 \in Nat /\ m2 \in Nat /\ m3 \in Nat /\ m4 \in Nat /\ m \in Nat
      /\ m1 < One /\ m2 < One /\ m3 < One /\ m4 < One /\ m < One
      /\ Half <= m1 /\ Half <= m2 /\ Half <= m3 /\ Half <= m4 /\ Half <= m
      /\ m > 0
  BY <1>2, HalfKnown DEF Mantissas, Floats
<1>4. /\ c1 \in Floats /\ c2 \in Floats /\ c3 \in Floats /\ c4 \in Floats
      /\ c1.pos = FALSE /\ c2.pos = TRUE /\ c3.pos = FALSE /\ c4.pos = TRUE
      /\ c1.exp = 2 /\ c2.exp = 3 /\ c3.exp = 3 /\ c4.exp = 1
      /\ c1.man = m1 /\ c2.man = m2 /\ c3.man = m3 /\ c4.man = m4
      /\ x.pos = TRUE /\ c1 = Float(2, m1, FALSE)
  <2>1. x.pos = TRUE
    BY DEF Floats
  <2>. QED  BY <1>2, <2>1 DEF Float, Floats
<1>. HIDE DEF c1, c2, c3, c4, m
<1>5. /\ o3 \in Nat /\ s3 \in Nat /\ Half <= 2 * s3 /\ s3 < Half
      /\ 4 * One * m3 <= 4 * One * s3 + m * m4
  <2>1. m * m4 \in Nat /\ One * 4 \in Nat \ {0}
    BY <1>3, Times
  <2>2. o3 \in Nat /\ (One * 4) * o3 <= m * m4
    BY <2>1, Quotient
  <2>3. o3 <= m4 \div 4
    <3>1. m * m4 <= One * m4
      BY <1>3, TimesMonotone
    <3>. DEFINE q == m4 \div 4
    <3>2. m4 \in Nat /\ 4 \in Nat \ {0}
      BY <1>3
    <3>3. q \in Nat /\ m4 < 4 * (q + 1)
      <4>1. m4 \div 4 \in Nat /\ m4 < 4 * (m4 \div 4) + 4
        BY <3>2
      <4>. QED  BY <3>2, <4>1
    <3>. HIDE DEF q
    <3>4. m4 * One < (4 * (q + 1)) * One
      <4>1. m4 + 1 <= 4 * (q + 1) /\ m4 + 1 \in Nat /\ 4 * (q + 1) \in Nat
        BY <1>3, <3>3
      <4>2. (m4 + 1) * One <= (4 * (q + 1)) * One
        BY <1>3, <4>1, TimesMonotone
      <4>3. (m4 + 1) * One = m4 * One + One /\ m4 * One \in Nat
        BY <1>3, Times
      <4>4. (4 * (q + 1)) * One \in Nat
        BY <1>3, <4>1, Times
      <4>. QED  BY <1>3, <4>2, <4>3, <4>4
    <3>. DEFINE n == q + 1  t == m * m4  u == One * 4
    <3>5. t < u * n /\ n \in Nat /\ t \in Nat /\ u \in Nat \ {0}
      <4>1. (4 * (q + 1)) * One = u * n /\ m4 * One = One * m4
        BY <1>3, <3>3
      <4>2. u * n \in Nat /\ One * m4 \in Nat
        BY <1>3, <3>3, Times
      <4>. QED  BY <2>1, <3>1, <3>3, <3>4, <4>1, <4>2
    <3>. HIDE DEF n, t, u
    <3>6. t \div u < n
      BY <3>5, QuotientBelow
    <3>. QED  BY <2>2, <3>3, <3>6 DEF n, t, u, q
  <2>4. m4 \div 8 <= o3
    <3>. DEFINE q == m4 \div 8  t == m * m4  u == One * 4
    <3>1. q \in Nat /\ 8 * q <= m4
      BY <1>3
    <3>. HIDE DEF q
    <3>2. (8 * q) * Half <= m4 * Half /\ Half * m4 <= m * m4
      BY <1>3, <3>1, TimesMonotone
    <3>3. u * q = (8 * q) * Half /\ m4 * Half = Half * m4 /\ Half * m4 \in Nat
          /\ (8 * q) * Half \in Nat
      BY <1>3, <3>1, Times
    <3>4. u * q <= t /\ u \in Nat \ {0} /\ t \in Nat
      BY <2>1, <3>2, <3>3
    <3>. HIDE DEF t, u
    <3>5. q <= t \div u
      BY <3>1, <3>4, QuotientAtLeast
    <3>. QED  BY <3>5 DEF t, u, q
  <2>. HIDE DEF o3
  <2>5. Half <= 2 * s3 /\ s3 < Half /\ s3 \in Nat
    BY <1>2, <1>3, <2>2, <2>3, <2>4
  <2>6. 4 * One * m3 = 4 * One * s3 + (One * 4) * o3
    BY <1>3, <2>2
  <2>7. 4 * One * s3 \in Nat /\ (One * 4) * o3 \in Nat
    BY <1>3, <2>2, <2>5, Times
  <2>. HIDE DEF s3
  <2>. QED  BY <2>1, <2>2, <2>5, <2>6, <2>7
<1>6. r3 \in Floats /\ r3.exp = 2 /\ r3.man = 2 * s3 /\ r3.pos = FALSE
  <2>1. /\ z3 \in Floats /\ z3.pos = TRUE
        /\ z3.exp <= 1 /\ Operand(z3, 3) = o3
    <3>1. z3 \in Floats /\ z3.pos = (x.pos = c4.pos)
      BY <1>4, ProductOfFloats
    <3>2. /\ z3.exp <= c4.exp
          /\ Operand(z3, c4.exp + 2) = (x.man * c4.man) \div (One * 4)
      BY <1>4, ProductOperand
    <3>3. c4.exp + 2 = 3
      BY <1>4
    <3>. HIDE DEF z3
    <3>. QED  BY <1>4, <3>1, <3>2, <3>3 DEF m
  <2>. HIDE DEF z3, o3
  <2>2. z3.exp <= c3.exp /\ c3.pos # z3.pos /\ Operand(z3, c3.exp) = o3
    <3>1. z3.exp \in Int
      BY <2>1 DEF Floats
    <3>. QED  BY <1>4, <2>1, <3>1
  <2>3. o3 <= c3.man /\ o3 # c3.man
    BY <1>3, <1>4, <1>5
  <2>4. /\ c3.man - o3 \in 1 .. One - 1
        /\ r3 = ShiftLeft(c3.exp, c3.man - o3, c3.pos)
    BY <1>4, <2>1, <2>2, <2>3, SumOtherSign
  <2>5. c3.man - o3 = s3
    BY <1>4
  <2>6. r3 = ShiftLeft(c3.exp, s3, c3.pos) /\ s3 \in 1 .. One - 1
    BY <2>4, <2>5
  <2>7. c3.exp \in Int /\ c3.pos \in BOOLEAN
    BY <1>4 DEF Floats
  <2>. HIDE DEF s3, r3
  <2>8. /\ r3 \in Floats /\ r3.pos = c3.pos
        /\ s3 < Half /\ 2 * s3 >= Half => r3.exp = c3.exp - 1 /\ r3.man = 2 * s3
    BY <2>6, <2>7, ShiftedLeft
  <2>9. s3 < Half /\ 2 * s3 >= Half /\ c3.exp - 1 = 2
    BY <1>3, <1>4, <1>5
  <2>. QED  BY <1>4, <2>8, <2>9
<1>. HIDE DEF r3, s3
<1>7. /\ o2 \in Nat /\ s2 \in Nat /\ 2 * s2 >= Half /\ s2 \in 1 .. One - 1
      /\ One * s2 + m * s3 < One * (m2 + 1)
  <2>. DEFINE t == m * s3
  <2>1. t \in Nat
    BY <1>3, <1>5, Times
  <2>2. t < One * Half
    <3>1. m * s3 <= One * s3
      BY <1>3, <1>5, TimesMonotone
    <3>2. s3 * One <= (Half - 1) * One
      <4>1. Half - 1 \in Nat /\ s3 <= Half - 1
        BY <1>3, <1>5
      <4>. QED  BY <1>3, <1>5, <4>1, TimesMonotone
    <3>3. (Half - 1) * One = One * Half - One /\ s3 * One = One * s3
          /\ One * s3 \in Nat /\ One * Half \in Nat
      BY <1>3, <1>5, Times
    <3>. QED  BY <1>3, <2>1, <3>1, <3>2, <3>3
  <2>. HIDE DEF t
  <2>3. o2 \in Nat /\ t < One * o2 + One /\ o2 < Half
    <3>1. t \div One \in Nat /\ t < One * (t \div One) + One
      BY <1>3, <2>1, Quotient
    <3>2. t \div One < Half
      BY <1>3, <2>1, <2>2, QuotientBelow
    <3>. QED  BY <3>1, <3>2 DEF t
  <2>. HIDE DEF o2
  <2>4. s2 \in Nat /\ 2 * s2 >= Half /\ s2 \in 1 .. One - 1
    BY <1>2, <1>3, <2>3
  <2>5. One * s2 + One * o2 = One * m2 /\ One * (m2 + 1) = One * m2 + One
        /\ One * s2 \in Nat /\ One * o2 \in Nat /\ One * m2 \in Nat
    BY <1>3, <2>3, <2>4, Times
  <2>6. One * s2 + t < One * (m2 + 1)
    <3>. HIDE DEF s2
    <3>. QED  BY <1>3, <2>1, <2>3, <2>5
  <2>. QED  BY <2>3, <2>4, <2>6 DEF t
<1>8. /\ r2 \in Floats /\ r2.pos = TRUE
      /\ s2 >= Half => r2.exp = 3 /\ r2.man = s2
      /\ s2 < Half => r2.exp = 2 /\ r2.man = 2 * s2
  <2>1. /\ z2 \in Floats /\ z2.pos = FALSE
        /\ z2.exp <= 2 /\ Operand(z2, 3) = o2
    <3>1. z2 \in Floats /\ z2.pos = FALSE
      <4>1. r3 \in Floats /\ x.pos = TRUE /\ r3.pos = FALSE
        BY <1>4, <1>6
      <4>. QED  BY <4>1, ProductSign
    <3>2. /\ z2.exp <= r3.exp
          /\ Operand(z2, r3.exp + 1) = (x.man * r3.man) \div (One * 2)
      BY <1>6, ProductOperand
    <3>3. (x.man * r3.man) \div (One * 2) = o2
      <4>. DEFINE t == m * s3
      <4>1. x.man * r3.man = 2 * t /\ t \in Nat
        BY <1>3, <1>5, <1>6, Times DEF m
      <4>. HIDE DEF t
      <4>2. (2 * t) \div (2 * One) = ((2 * t) \div 2) \div One
        <5>1. 2 * t \in Nat /\ 2 \in Nat \ {0}
          BY <4>1
        <5>. DEFINE u == 2 * t
        <5>2. u \in Nat
          BY <5>1
        <5>. HIDE DEF u
        <5>3. (u \div 2) \div One = u \div (2 * One)
          BY <1>3, <5>1, <5>2, NestedQuotient
        <5>. QED  BY <5>3 DEF u
      <4>3. (2 * t) \div 2 = t /\ One * 2 = 2 * One
        BY <1>3, <4>1
      <4>. QED  BY <4>1, <4>2, <4>3 DEF t
    <3>4. r3.exp + 1 = 3
      BY <1>6
    <3>. HIDE DEF z2, o2
    <3>. QED  BY <1>4, <1>6, <3>1, <3>2, <3>3, <3>4
  <2>. HIDE DEF z2, o2
  <2>2. z2.exp <= c2.exp /\ c2.pos # z2.pos /\ Operand(z2, c2.exp) = o2
    <3>1. z2.exp \in Int
      BY <2>1 DEF Floats
    <3>. QED  BY <1>4, <2>1, <3>1
  <2>3. o2 <= c2.man /\ o2 # c2.man
    BY <1>3, <1>4, <1>7
  <2>4. r2 = ShiftLeft(c2.exp, c2.man - o2, c2.pos)
    BY <1>4, <2>1, <2>2, <2>3, SumOtherSign
  <2>5. c2.man - o2 = s2
    BY <1>4
  <2>6. r2 = ShiftLeft(c2.exp, s2, c2.pos) /\ s2 \in 1 .. One - 1
    BY <1>7, <2>4, <2>5
  <2>7. c2.exp \in Int /\ c2.pos \in BOOLEAN
    BY <1>4 DEF Floats
  <2>. HIDE DEF s2, r2
  <2>8. /\ r2 \in Floats /\ r2.pos = c2.pos
        /\ s2 >= Half => r2.exp = c2.exp /\ r2.man = s2
        /\ s2 < Half /\ 2 * s2 >= Half => r2.exp = c2.exp - 1 /\ r2.man = 2 * s2
    BY <2>6, <2>7, ShiftedLeft
  <2>9. 2 * s2 >= Half /\ c2.exp - 1 = 2
    BY <1>4, <1>7
  <2>. QED  BY <1>4, <2>8, <2>9
<1>. HIDE DEF r2, s2, o2
<1>9. 2 * m * s2 < One * (m1 + 1)
  <2>. DEFINE w == One - m  a == m2 + 1  d == m1 + 1
  <2>1. w \in Nat /\ a \in Nat /\ d \in Nat /\ One = m + w
    BY <1>3
  <2>2. /\ 2 * d + 4 * m3 >= 4 * a + m4 /\ 6 * d + 4 * m3 >= 8 * a /\ 6 * d >= 4 * a
        /\ 4 * One * m3 <= 4 * One * s3 + m * m4 /\ One * s2 + m * s3 < One * a
    BY <1>2, <1>5, <1>7
  <2>. HIDE DEF w, a, d
  <2>3. 2 * m * s2 < One * d
    BY <1>3, <1>5, <1>7, <2>1, <2>2, LogBound
  <2>. QED  BY <2>3 DEF d
<1>10. o1 \in Nat /\ o1 <= m1
  <2>. DEFINE u == 2 * m * s2  n == m1 + 1
  <2>1. u \in Nat /\ n \in Nat /\ u < One * n
    <3>1. m * s2 \in Nat
      BY <1>3, <1>7, Times
    <3>2. u = 2 * (m * s2)
      BY <1>3, <1>7
    <3>. QED  BY <1>3, <1>9, <3>1, <3>2
  <2>. HIDE DEF u, n
  <2>2. u \div One \in Nat /\ u \div One < n
    BY <1>3, <2>1, Quotient, QuotientBelow
  <2>3. o1 = u \div One
    BY DEF u
  <2>. HIDE DEF o1
  <2>. QED  BY <1>3, <2>2, <2>3 DEF n
<1>11. z1 \in Floats /\ z1.pos = TRUE /\ z1.exp <= 2 /\ Operand(z1, 2) = o1
  <2>1. z1 \in Floats /\ z1.pos = (x.pos = r2.pos)
    BY <1>8, ProductOfFloats
  <2>2. LET t == x.man * r2.man
        IN  /\ z1.exp <= r2.exp
            /\ Operand(z1, r2.exp) = t \div One
            /\ t < One * Half => z1.exp = r2.exp - 1 /\ z1.man = (2 * t) \div One
    BY <1>8, ProductOperand
  <2>3. z1.exp \in Int
    BY <2>1 DEF Floats
  <2>. HIDE DEF z1, o1
  <2>4. z1.pos = TRUE
    BY <1>4, <1>8, <2>1
  <2>5. s2 < Half \/ s2 >= Half
    <3>1. s2 \in Nat
      BY <1>7
    <3>. QED  BY <1>3, <3>1
  <2>6. CASE s2 < Half
    <3>1. r2.exp = 2 /\ x.man * r2.man = 2 * m * s2
      BY <1>3, <1>7, <1>8, <2>6 DEF m
    <3>2. Operand(z1, 2) = (2 * m * s2) \div One /\ z1.exp <= 2
      BY <2>2, <3>1
    <3>. QED  BY <2>1, <2>4, <3>2 DEF o1
  <2>7. CASE s2 >= Half
    <3>1. r2.exp = 3 /\ x.man * r2.man = m * s2
      BY <1>8, <2>7 DEF m
    <3>2. m * s2 < One * Half /\ 2 * (m * s2) = 2 * m * s2
      <4>1. One * (m1 + 1) <= 2 * (One * Half)
        <5>1. (m1 + 1) * One <= One * One
          BY <1>3, TimesMonotone
        <5>2. One * One = 2 * (One * Half) /\ (m1 + 1) * One = One * (m1 + 1)
              /\ One * Half \in Nat
          BY <1>3, Times
        <5>. QED  BY <5>1, <5>2
      <4>2. m * s2 \in Nat /\ One * Half \in Nat /\ 2 * m * s2 = 2 * (m * s2)
            /\ One * (m1 + 1) \in Nat
        BY <1>3, <1>7, Times
      <4>. QED  BY <1>9, <4>1, <4>2
    <3>3. z1.exp = 2 /\ z1.man = o1
      <4>1. z1.exp = r2.exp - 1 /\ z1.man = (2 * (m * s2)) \div One
        BY <2>2, <3>1, <3>2
      <4>. QED  BY <3>1, <3>2, <4>1 DEF o1
    <3>4. Operand(z1, 2) = z1.man
      BY <2>1, <3>3, OperandBound
    <3>5. z1.exp <= 2
      BY <3>3
    <3>. QED  BY <2>1, <2>4, <3>3, <3>4, <3>5
  <2>. QED  BY <2>6, <2>7, <2>5
<1>. HIDE DEF z1, o1
<1>12. /\ o1 = m1 => r1 = Zero(c1)
       /\ o1 # m1 => /\ m1 - o1 \in 1 .. One - 1
                     /\ r1 = ShiftLeft(2, m1 - o1, FALSE)
  <2>1. z1.exp <= c1.exp /\ c1.pos # z1.pos /\ Operand(z1, c1.exp) = o1 /\ o1 <= c1.man
    BY <1>4, <1>10, <1>11
  <2>2. /\ Operand(z1, c1.exp) = c1.man => r1 = Zero(c1)
        /\ Operand(z1, c1.exp) # c1.man =>
              /\ c1.man - Operand(z1, c1.exp) \in 1 .. One - 1
              /\ r1 = ShiftLeft(c1.exp, c1.man - Operand(z1, c1.exp), c1.pos)
    BY <1>4, <1>11, <2>1, SumOtherSign
  <2>. HIDE DEF r1
  <2>. QED  BY <1>4, <2>1, <2>2
<1>. HIDE DEF r1
<1>13. CASE o1 = m1
  <2>1. r1 = [exp |-> 2, man |-> 0, pos |-> FALSE]
    BY <1>4, <1>12, <1>13 DEF Zero, Float
  <2>. QED  BY <1>1, <2>1
<1>14. CASE o1 # m1
  <2>. DEFINE s1 == m1 - o1
  <2>1. s1 \in 1 .. One - 1 /\ r1 = ShiftLeft(2, s1, FALSE)
    BY <1>12, <1>14
  <2>2. 2 \in Int /\ FALSE \in BOOLEAN
    OBVIOUS
  <2>. HIDE DEF s1
  <2>3. r1 \in Floats /\ r1.pos = FALSE /\ r1.exp <= 2
    BY <2>1, <2>2, ShiftedLeft
  <2>. QED  BY <1>1, <2>3
<1>. QED  BY <1>13, <1>14

LEMMA SumNegative ==
    ASSUME NEW x \in Floats, NEW y \in Floats, x.pos = FALSE, y.pos = FALSE,
           NEW e \in Int, x.exp <= e, y.exp <= e
    PROVE  FloatSum(x, y) \in Floats /\ FloatSum(x, y).pos = FALSE
           /\ FloatSum(x, y).exp <= e + 1
<1>1. x.exp \in Int /\ y.exp \in Int /\ x.man # 0 /\ y.man # 0
  BY HalfKnown DEF Floats, Mantissas
<1>2. ASSUME NEW a \in Floats, NEW b \in Floats, a.pos = FALSE, b.pos = FALSE,
             a.exp <= e, b.exp <= a.exp
      PROVE  FloatSum(a, b) \in Floats /\ FloatSum(a, b).pos = FALSE
             /\ FloatSum(a, b).exp <= e + 1
  <2>. DEFINE s == a.man + Operand(b, a.exp)
  <2>1. a.exp \in Int
    BY DEF Floats
  <2>2. a.pos = b.pos
    BY <1>2
  <2>3. /\ FloatSum(a, b) = ShiftRight(a.exp, s, a.pos)
        /\ s < One => ShiftRight(a.exp, s, a.pos) = Float(a.exp, s, a.pos)
        /\ ~(s < One) => ShiftRight(a.exp, s, a.pos) = Float(a.exp + 1, s \div 2, a.pos)
        /\ FloatSum(a, b) \in Floats
    BY <1>2, <2>2, SumSameSign
  <2>. HIDE DEF s
  <2>4. CASE s < One
    <3>1. FloatSum(a, b) = [exp |-> a.exp, man |-> s, pos |-> a.pos]
      BY <2>3, <2>4 DEF Float
    <3>. QED  BY <1>2, <2>1, <2>3, <3>1
  <2>5. CASE ~(s < One)
    <3>1. FloatSum(a, b) = [exp |-> a.exp + 1, man |-> s \div 2, pos |-> a.pos]
      BY <2>3, <2>5 DEF Float
    <3>. QED  BY <1>2, <2>1, <2>3, <3>1
  <2>. QED  BY <2>4, <2>5
<1>3. CASE y.exp <= x.exp
  BY <1>2, <1>3
<1>4. CASE x.exp < y.exp
  <2>1. FloatSum(x, y) = FloatSum(y, x)
    <3>1. ~(y.exp < x.exp)
      BY <1>1, <1>4
    <3>. QED  BY <1>1, <1>4, <3>1 DEF FloatSum, IsZero
  <2>2. x.exp <= y.exp
    BY <1>1, <1>4
  <2>3. FloatSum(y, x) \in Floats /\ FloatSum(y, x).pos = FALSE
        /\ FloatSum(y, x).exp <= e + 1
    BY <1>2, <2>2
  <2>. QED  BY <2>1, <2>3
<1>5. y.exp <= x.exp \/ x.exp < y.exp
  BY <1>1
<1>. QED  BY <1>3, <1>4, <1>5

(* log2 of a number below one is negative, and its exponent fits.          *)
LEMMA LogOfSmall ==
    ASSUME NEW x \in Floats, x.pos, x.exp <= 0, -x.exp <= 2 * Width
    PROVE  LET y == Log2(x)
           IN  y.man # 0 => y \in Floats /\ y.pos = FALSE /\ y.exp <= Width
<1>. DEFINE f == [x EXCEPT !.exp = 0]  i == FromInt(x.exp)  c == Cubic(LogCoefficients, f)
            n == -x.exp
<1>1. /\ Width \in 12 .. 32 /\ Half \in Nat /\ Half >= 2048 /\ One \in Nat /\ One = 2 * Half
      /\ x.exp \in Int
  BY HalfKnown DEF Floats
<1>2. Log2(x) = FloatSum(i, c)
  BY DEF Log2
<1>3. c.pos = FALSE /\ (c.man # 0 => c \in Floats /\ c.exp <= 2)
  <2>1. f \in Floats /\ f.exp = 0 /\ f.pos
    BY DEF Floats
  <2>. HIDE DEF f
  <2>. QED  BY <2>1, LogNegative
<1>. HIDE DEF f, c
<1>4. CASE x.exp = 0
  <2>1. FloatSum(i, c) = c
    <3>1. i = [exp |-> 0, man |-> 0, pos |-> TRUE]
      BY <1>4 DEF FromInt, Float
    <3>2. i.man = 0
      BY <3>1
    <3>. QED  BY <3>2 DEF FloatSum, IsZero
  <2>2. c.man # 0 => c.exp <= Width
    <3>1. c.man # 0 => c.exp \in Int
      BY <1>3 DEF Floats
    <3>. QED  BY <1>1, <1>3, <3>1
  <2>. QED  BY <1>2, <1>3, <2>1, <2>2
<1>5. CASE x.exp # 0
  <2>1. n \in 1 .. One - 1 /\ n < Half /\ x.exp < 0
    BY <1>1, <1>5
  <2>2. i = ShiftLeft(Width, n, FALSE)
    <3>1. ~(x.exp > 0) /\ x.exp # 0
      BY <1>1, <1>5, <2>1
    <3>. QED  BY <3>1 DEF FromInt
  <2>3. i \in Floats /\ i.pos = FALSE /\ i.exp < Width /\ i.man # 0
    <3>. DEFINE p == FALSE
    <3>1. p \in BOOLEAN /\ Width \in Int
      BY <1>1
    <3>. HIDE DEF i, n, p
    <3>2. LET y == ShiftLeft(Width, n, p)
          IN  y \in Floats /\ y.pos = p /\ (n < Half => y.exp < Width)
      BY <2>1, <3>1, ShiftedLeft
    <3>3. i \in Floats /\ i.pos = FALSE /\ i.exp < Width
      BY <2>1, <2>2, <3>2 DEF p
    <3>4. i.man # 0
      BY <3>3, HalfKnown DEF Floats, Mantissas
    <3>. QED  BY <3>3, <3>4
  <2>. HIDE DEF i, n
  <2>4. CASE c.man = 0
    <3>1. FloatSum(i, c) = i
      BY <2>3, <2>4 DEF FloatSum, IsZero
    <3>2. i.exp \in Int
      BY <2>3 DEF Floats
    <3>. QED  BY <1>1, <1>2, <2>3, <3>1, <3>2
  <2>5. CASE c.man # 0
    <3>. DEFINE e == Width - 1
    <3>1. i.exp \in Int /\ c.exp \in Int /\ c \in Floats /\ c.exp <= 2
      BY <1>3, <2>3, <2>5 DEF Floats
    <3>2. e \in Int /\ i.exp <= e /\ c.exp <= e /\ e + 1 = Width
      BY <1>1, <2>3, <3>1
    <3>. HIDE DEF e
    <3>3. FloatSum(i, c) \in Floats /\ FloatSum(i, c).pos = FALSE
          /\ FloatSum(i, c).exp <= e + 1
      BY <1>3, <2>3, <3>1, <3>2, SumNegative
    <3>. QED  BY <1>2, <3>2, <3>3
  <2>. QED  BY <2>4, <2>5
<1>. QED  BY <1>4, <1>5

LEMMA FactorNumber == First(45875, 13107) \in Mantissas
<1>. DEFINE l == First(45875, 13107)
<1>1. CASE Half = 2048
  <2>1. One = 4096 /\ 2^16 = 65536
    BY <1>1, HalfKnown
  <2>2. l = 2867
    BY <2>1 DEF First
  <2>. HIDE DEF l
  <2>. QED  BY <1>1, <2>1, <2>2 DEF Mantissas, l
<1>2. CASE Half # 2048
  <2>1. PICK k \in Nat \ {0} : FirstHalf(k)
    BY <1>2, FirstBounds
  <2>2. l \in Nat /\ 45875 * k <= l /\ l < 45875 * k + k
    BY SMT, <2>1 DEF FirstHalf
  <2>3. One = 65536 * k /\ Half = 32768 * k
    BY <2>1 DEF FirstHalf
  <2>. HIDE DEF l
  <2>4. l \in Mantissas
    BY SMT, <2>2, <2>3 DEF Mantissas
  <2>. QED  BY <2>4 DEF l
<1>. QED  BY <1>1, <1>2

LEMMA LogPowerOfSmall ==
    ASSUME NEW x \in Floats, x.pos, x.exp <= 0, -x.exp <= 2 * Width
    PROVE  LET y == LogPower(x)
           IN  y.man # 0 => y \in Floats /\ y.pos = FALSE /\ y.exp <= Width
<1>. DEFINE m == First(45875, 13107)  f == Float(0, m, TRUE)  g == Log2(x)
            y == FloatProduct(f, g)
<1>1. LogPower(x) = y
  BY DEF LogPower, Factor, Coefficient, First
<1>2. g.man # 0 => g \in Floats /\ g.pos = FALSE /\ g.exp <= Width
  BY LogOfSmall
<1>3. m \in Mantissas
  BY FactorNumber
<1>. HIDE DEF m, g
<1>4. f \in Floats /\ f.exp = 0 /\ f.pos = TRUE
  BY <1>3 DEF Float, Floats
<1>. HIDE DEF f
<1>5. CASE g.man = 0
  <2>1. y = Zero(f)
    BY <1>5 DEF FloatProduct, IsZero
  <2>2. Zero(f).man = 0
    BY <1>4 DEF Zero, Floats
  <2>. QED  BY <1>1, <2>1, <2>2
<1>6. CASE g.man # 0
  <2>1. g \in Floats /\ g.pos = FALSE /\ g.exp <= Width
    BY <1>2, <1>6
  <2>2. y \in Floats /\ y.pos = FALSE
    BY <1>4, <2>1, ProductSign
  <2>3. y.exp <= g.exp
    BY <1>4, <2>1, ProductOperand
  <2>4. y.exp \in Int /\ g.exp \in Int /\ Width \in Int
    BY <2>1, <2>2, HalfKnown DEF Floats
  <2>. HIDE DEF y
  <2>5. y.exp <= Width
    BY <2>1, <2>3, <2>4
  <2>. QED  BY <1>1, <2>2, <2>5
<1>. QED  BY <1>5, <1>6


Bytes == 0 .. AllOnes

LEMMA ByteSizes ==
    /\ 2^ByteWidth \in Nat /\ 2^ByteWidth >= 8
    /\ One = 2^ByteWidth * 2^ByteWidth * 2^ByteWidth * 2^ByteWidth
    /\ AllOnes = 2^ByteWidth - 1 /\ ByteWidth \in 3 .. 8 /\ Width = 4 * ByteWidth
<1>1. CASE ByteWidth = 3
  <2>1. 2^ByteWidth = 8 /\ Width = 12  BY <1>1
  <2>. QED  BY <2>1, MantissaSizes DEF AllOnes
<1>2. CASE ByteWidth = 4
  <2>1. 2^ByteWidth = 16 /\ Width = 16  BY <1>2
  <2>. QED  BY <2>1, MantissaSizes DEF AllOnes
<1>3. CASE ByteWidth = 5
  <2>1. 2^ByteWidth = 32 /\ Width = 20  BY <1>3
  <2>. QED  BY <2>1, MantissaSizes DEF AllOnes
<1>4. CASE ByteWidth = 6
  <2>1. 2^ByteWidth = 64 /\ Width = 24  BY <1>4
  <2>. QED  BY <2>1, MantissaSizes DEF AllOnes
<1>5. CASE ByteWidth = 7
  <2>1. 2^ByteWidth = 128 /\ Width = 28  BY <1>5
  <2>. QED  BY <2>1, MantissaSizes DEF AllOnes
<1>6. CASE ByteWidth = 8
  <2>1. 2^ByteWidth = 256 /\ Width = 32  BY <1>6
  <2>. QED  BY <2>1, MantissaSizes DEF AllOnes
<1>. QED  BY <1>1, <1>2, <1>3, <1>4, <1>5, <1>6

LEMMA OneMoreByte ==
    ASSUME NEW b \in Nat, NEW c \in Nat, NEW p \in 1 .. c - 1, NEW a \in 0 .. b - 1, b >= 1
    PROVE  p * b + a \in 1 .. c * b - 1 /\ c * b \in Nat
<1>1. 1 * b <= p * b /\ (p + 1) * b <= c * b
  BY TimesMonotone
<1>2. (p + 1) * b = p * b + b /\ p * b \in Nat /\ c * b \in Nat
  BY Times
<1>. QED  BY <1>1, <1>2

LEMMA ZeroBytes ==
    ASSUME NEW h \in Seq(Bytes)
    PROVE  LET k == LeadingZeroBytes(h)
           IN  /\ k \in 0 .. Len(h)
               /\ \A i \in 1 .. k : h[i] = 0
               /\ k < Len(h) => h[k + 1] # 0
<1>. DEFINE k == LeadingZeroBytes(h)
<1>1. Len(h) \in Nat
  OBVIOUS
<1>2. CASE \A i \in 1 .. Len(h) : h[i] = 0
  <2>1. k = Len(h)
    BY <1>2 DEF LeadingZeroBytes
  <2>. HIDE DEF k
  <2>. QED  BY <1>1, <1>2, <2>1 DEF k
<1>3. CASE ~(\A i \in 1 .. Len(h) : h[i] = 0)
  <2>. DEFINE T == {i \in 1 .. Len(h) : h[i] # 0}
  <2>1. PICK j \in T : \A i \in T : j <= i
    <3>1. T \subseteq Nat /\ T # {}
      BY <1>1, <1>3
    <3>. HIDE DEF T
    <3>. QED  BY <3>1, LeastNumber
  <2>. DEFINE n == j - 1
  <2>2. n \in 0 .. Len(h) - 1 /\ h[n + 1] # 0
    <3>1. n + 1 = j
      BY <1>1
    <3>. QED  BY <1>1, <3>1
  <2>3. \A i \in 1 .. n : h[i] = 0
    <3>. SUFFICES ASSUME NEW i \in 1 .. n
                  PROVE  h[i] = 0
      OBVIOUS
    <3>1. i \in 1 .. Len(h) /\ ~(j <= i)
      BY <1>1
    <3>. QED  BY <2>1, <3>1
  <2>4. \E l \in 0 .. Len(h) - 1 : h[l + 1] # 0 /\ \A i \in 1 .. l : h[i] = 0
    BY <2>2, <2>3
  <2>5. k \in 0 .. Len(h) - 1 /\ h[k + 1] # 0 /\ \A i \in 1 .. k : h[i] = 0
    BY <1>3, <2>4 DEF LeadingZeroBytes
  <2>. HIDE DEF k
  <2>. QED  BY <1>1, <2>5 DEF k
<1>. QED  BY <1>2, <1>3

(* A hash as a number is below one.                                        *)
LEMMA FloatOfHash ==
    ASSUME NEW h \in Seq(Bytes)
    PROVE  LET f == FloatOf(h)
           IN  /\ f \in Floats /\ f.pos = TRUE /\ f.exp <= 0
               /\ LeadingZeroBytes(h) <= 4 => -f.exp <= 2 * Width
<1>. DEFINE k == LeadingZeroBytes(h)  b == 2^ByteWidth
            a1 == ByteAt(h, k + 1)  a2 == ByteAt(h, k + 2)
            a3 == ByteAt(h, k + 3)  a4 == ByteAt(h, k + 4)
            m == ((a1 * b + a2) * b + a3) * b + a4
            e == -k * ByteWidth
<1>1. /\ b \in Nat /\ b >= 8 /\ One = b * b * b * b
      /\ AllOnes = b - 1 /\ ByteWidth \in 3 .. 8 /\ Width = 4 * ByteWidth
  BY ByteSizes
<1>2. Len(h) \in Nat /\ k \in 0 .. Len(h) /\ (k < Len(h) => h[k + 1] # 0)
  BY ZeroBytes
<1>3. FloatOf(h) = ShiftLeft(e, m, TRUE)
  BY DEF FloatOf
<1>. HIDE DEF k, b
<1>4. \A i \in Nat \ {0} : ByteAt(h, i) \in 0 .. b - 1
  <2>1. \A i \in 1 .. Len(h) : h[i] \in 0 .. b - 1
    BY <1>1 DEF Bytes
  <2>. SUFFICES ASSUME NEW i \in Nat \ {0}
                PROVE  ByteAt(h, i) \in 0 .. b - 1
    OBVIOUS
  <2>2. CASE i <= Len(h)
    <3>1. i \in 1 .. Len(h)
      BY <1>2, <2>2
    <3>. QED  BY <2>1, <2>2, <3>1 DEF ByteAt
  <2>3. CASE ~(i <= Len(h))
    <3>1. ByteAt(h, i) = b - 1
      BY <1>1, <2>3 DEF ByteAt
    <3>. QED  BY <1>1, <3>1
  <2>. QED  BY <2>2, <2>3
<1>5. a1 \in 1 .. b - 1
  <2>1. a1 # 0
    <3>1. CASE k + 1 <= Len(h)
      BY <1>2, <3>1 DEF ByteAt
    <3>2. CASE ~(k + 1 <= Len(h))
      BY <1>1, <3>2 DEF ByteAt
    <3>. QED  BY <3>1, <3>2
  <2>2. a1 \in 0 .. b - 1
    <3>1. k + 1 \in Nat \ {0}
      BY <1>2
    <3>. QED  BY <1>4, <3>1
  <2>. QED  BY <1>1, <2>1, <2>2
<1>6. a2 \in 0 .. b - 1 /\ a3 \in 0 .. b - 1 /\ a4 \in 0 .. b - 1
  <2>1. k + 2 \in Nat \ {0} /\ k + 3 \in Nat \ {0} /\ k + 4 \in Nat \ {0}
    BY <1>2
  <2>. QED  BY <1>4, <2>1
<1>. HIDE DEF a1, a2, a3, a4
<1>7. m \in 1 .. One - 1
  <2>. DEFINE p2 == a1 * b + a2  c2 == b * b
              p3 == p2 * b + a3  c3 == c2 * b
  <2>1. b >= 1
    BY <1>1
  <2>2. p2 \in 1 .. c2 - 1 /\ c2 \in Nat
    BY <1>1, <1>5, <1>6, <2>1, OneMoreByte
  <2>. HIDE DEF p2, c2
  <2>3. p3 \in 1 .. c3 - 1 /\ c3 \in Nat
    BY <1>1, <1>6, <2>1, <2>2, OneMoreByte
  <2>. HIDE DEF p3, c3
  <2>4. p3 * b + a4 \in 1 .. c3 * b - 1
    BY <1>1, <1>6, <2>1, <2>3, OneMoreByte
  <2>5. c3 * b = One /\ p3 * b + a4 = m
    BY <1>1 DEF c2, c3, p2, p3
  <2>. HIDE DEF m
  <2>. QED  BY <2>4, <2>5
<1>. HIDE DEF m
<1>8. e \in Int /\ e <= 0 /\ (k <= 4 => -e <= Width)
  <2>1. k * ByteWidth \in Nat
    <3>1. k \in Nat /\ ByteWidth \in Nat
      BY <1>1, <1>2
    <3>. QED  BY <3>1, Times
  <2>2. ASSUME k <= 4
        PROVE  k * ByteWidth <= Width
    <3>1. k * ByteWidth <= 4 * ByteWidth
      <4>1. k \in Nat /\ ByteWidth \in Nat
        BY <1>1, <1>2
      <4>. QED  BY <2>2, <4>1, TimesMonotone
    <3>. QED  BY <1>1, <3>1
  <2>. QED  BY <1>1, <2>1, <2>2
<1>. HIDE DEF e
<1>9. LET f == ShiftLeft(e, m, TRUE)
      IN  f \in Floats /\ f.pos = TRUE /\ f.exp <= e /\ e - f.exp < Width
  <2>. DEFINE p == TRUE
  <2>1. p \in BOOLEAN
    OBVIOUS
  <2>. HIDE DEF p
  <2>2. LET f == ShiftLeft(e, m, p)
        IN  f \in Floats /\ f.pos = p /\ f.exp <= e /\ e - f.exp < Width
    BY <1>7, <1>8, <2>1, ShiftedLeft
  <2>. QED  BY <2>2 DEF p
<1>. DEFINE f == FloatOf(h)
<1>10. f \in Floats /\ f.pos = TRUE /\ f.exp <= e /\ e - f.exp < Width
  BY <1>3, <1>9
<1>11. f.exp \in Int /\ Width \in Int
  BY <1>10, HalfKnown DEF Floats
<1>. HIDE DEF f
<1>12. f.exp <= 0 /\ (k <= 4 => -f.exp <= 2 * Width)
  BY <1>8, <1>10, <1>11
<1>. QED  BY <1>10, <1>12 DEF f, k

(* The hash the worker puts together has ones behind four bytes.           *)
LEMMA FirstBytes ==
    ASSUME NEW n \in Nat
    PROVE  Sha256t(n) \in Seq(Bytes) /\ LeadingZeroBytes(Sha256t(n)) <= 4
<1>. DEFINE h == Sha256t(n)  b == 2^ByteWidth
<1>1. /\ b \in Nat /\ b >= 8 /\ AllOnes = b - 1 /\ ByteWidth \in 3 .. 8 /\ Width = 4 * ByteWidth
  BY ByteSizes
<1>2. Len(StartBytes(n)) = 4 /\ \A i \in 1 .. 4 : StartBytes(n)[i] \in Bytes
  <2>1. ASSUME NEW i \in 1 .. 4
        PROVE  (n \div 2^((4 - i) * ByteWidth)) % b \in Bytes
    <3>. DEFINE j == (4 - i) * ByteWidth  q == n \div 2^j
    <3>1. j \in 0 .. 32
      <4>1. \/ i = 1 /\ j = 3 * ByteWidth
            \/ i = 2 /\ j = 2 * ByteWidth
            \/ i = 3 /\ j = 1 * ByteWidth
            \/ i = 4 /\ j = 0
        BY <1>1
      <4>. HIDE DEF j
      <4>. QED  BY <1>1, <4>1
    <3>. HIDE DEF j
    <3>2. 2^j \in Nat \ {0}
      BY <3>1, PowerAtLeast
    <3>3. q \in Nat
      BY <3>2, Quotient
    <3>. HIDE DEF q, b
    <3>4. q % b \in 0 .. b - 1
      BY <1>1, <3>3
    <3>. QED  BY <1>1, <3>4 DEF q, j, Bytes
  <2>2. StartBytes(n) = [i \in 1 .. 4 |-> (n \div 2^((4 - i) * ByteWidth)) % b]
    BY DEF StartBytes
  <2>. DEFINE g == [i \in 1 .. 4 |-> (n \div 2^((4 - i) * ByteWidth)) % b]
  <2>3. g \in [1 .. 4 -> Bytes]
    BY <2>1
  <2>. DEFINE l == 4
  <2>4. l \in Nat /\ g \in [1 .. l -> Bytes]
    BY <2>3
  <2>. HIDE DEF g, l
  <2>5. g \in Seq(Bytes) /\ Len(g) = l /\ \A i \in 1 .. l : g[i] \in Bytes
    BY <2>4
  <2>6. StartBytes(n) = g
    BY <2>2 DEF g
  <2>. QED  BY <2>5, <2>6 DEF l
<1>4. AllOnes \in Bytes /\ AllOnes # 0
  BY <1>1 DEF Bytes
<1>5. h = [i \in 1 .. HashBytes |-> IF i <= 4 THEN StartBytes(n)[i] ELSE AllOnes]
  BY <1>2 DEF Sha256t, Filled
<1>. HIDE DEF h
<1>6. h \in [1 .. HashBytes -> Bytes]
  <2>. SUFFICES ASSUME NEW i \in 1 .. HashBytes
                PROVE  (IF i <= 4 THEN StartBytes(n)[i] ELSE AllOnes) \in Bytes
    BY <1>5
  <2>. QED  BY <1>2, <1>4
<1>7. h \in Seq(Bytes) /\ Len(h) = HashBytes
  BY <1>6
<1>. DEFINE k == LeadingZeroBytes(h)
<1>8. k \in 0 .. HashBytes /\ \A i \in 1 .. k : h[i] = 0
  BY <1>7, ZeroBytes
<1>. HIDE DEF k
<1>9. ASSUME k >= 5
      PROVE  FALSE
  <2>1. 5 \in 1 .. HashBytes /\ 5 \in 1 .. k
    BY <1>8, <1>9
  <2>2. h[5] = AllOnes
    BY <1>5, <2>1
  <2>. QED  BY <1>4, <1>8, <2>1, <2>2
<1>10. k <= 4
  BY <1>8, <1>9
<1>. QED  BY <1>7, <1>10 DEF h, k

LEMMA FilledHash ==
    ASSUME NEW start \in VerusStarts, NEW byte \in {0, AllOnes}
    PROVE  Filled(start, byte) \in Seq(Bytes)
<1>1. start \in Seq(Bytes)
  BY InputAssumption DEF Bytes, AllOnes
<1>2. byte \in Bytes
  BY ByteSizes DEF Bytes
<1>. DEFINE h == [i \in 1 .. HashBytes |-> IF i <= Len(start) THEN start[i] ELSE byte]
<1>3. Filled(start, byte) = h
  BY DEF Filled
<1>4. h \in [1 .. HashBytes -> Bytes]
  <2>1. \A i \in 1 .. Len(start) : start[i] \in Bytes
    BY <1>1
  <2>2. Len(start) \in Nat
    BY <1>1
  <2>. SUFFICES ASSUME NEW i \in 1 .. HashBytes
                PROVE  (IF i <= Len(start) THEN start[i] ELSE byte) \in Bytes
    OBVIOUS
  <2>. QED  BY <1>2, <2>1, <2>2
<1>. HIDE DEF h
<1>5. h \in Seq(Bytes)
  BY <1>4
<1>. QED  BY <1>3, <1>5


Bracketed(r, n) == (r.exp = -n /\ IsMantissa(r.man)) \/ r = FromExponent(-n)

LEMMA FromExponentIs ==
    ASSUME NEW n \in Nat
    PROVE  LET r == FromExponent(-n)
           IN  r \in Floats /\ r.pos = TRUE /\ AtMostOne(r)
<1>. DEFINE r == FromExponent(-n)
<1>1. r = [exp |-> -n + 1, man |-> Half, pos |-> TRUE]
  BY DEF FromExponent, Float
<1>2. Half \in Mantissas /\ -n + 1 \in Int /\ TRUE \in BOOLEAN
  BY HalfKnown DEF Mantissas
<1>. HIDE DEF r
<1>3. r \in Floats
  BY <1>1, <1>2 DEF Floats
<1>4. r.exp = -n + 1 /\ r.man = Half /\ r.pos = TRUE
  BY <1>1
<1>5. AtMostOne(r)
  BY <1>4 DEF AtMostOne
<1>. QED  BY <1>3, <1>4, <1>5 DEF r

(* pow2 of a number that is not positive.                                  *)
LEMMA Pow2OfNegative ==
    ASSUME NEW y, y.man # 0 => y \in Floats /\ y.pos = FALSE /\ y.exp <= Width
    PROVE  LET n == IF IsZero(y) \/ y.exp <= 0 THEN 0 ELSE IntegerPart(y)
               r == Pow2(y)
           IN  /\ n \in Nat /\ Bracketed(r, n)
               /\ r \in Floats /\ r.pos = TRUE /\ AtMostOne(r)
<1>. DEFINE n == IF IsZero(y) \/ y.exp <= 0 THEN 0 ELSE IntegerPart(y)
            r == Pow2(y)
<1>1. /\ Width \in 12 .. 32 /\ Half \in Nat /\ One \in Nat \ {0} /\ One = 2 * Half
  BY HalfKnown
<1>2. CASE y.man = 0
  <2>1. n = 0 /\ r = FromInt(1)
    BY <1>2 DEF IsZero, Pow2
  <2>2. FromInt(1) = FromExponent(-0)
    BY FromIntOne DEF FromExponent, Float
  <2>. HIDE DEF n, r
  <2>3. r = FromExponent(-n) /\ n \in Nat
    BY <2>1, <2>2
  <2>4. r \in Floats /\ r.pos = TRUE /\ AtMostOne(r)
    BY <2>3, FromExponentIs
  <2>. QED  BY <2>3, <2>4 DEF Bracketed, n, r
<1>3. CASE y.man # 0 /\ y.exp <= 0
  <2>1. y \in Floats /\ y.pos = FALSE /\ y.exp \in Int /\ ~(y.exp > 0)
    BY <1>3 DEF Floats
  <2>. DEFINE g == FloatSum(FromInt(1), y)  p == Pow2Fraction(g)
  <2>2. g \in Floats /\ g.pos /\ AtMostOne(g)
    BY <1>3, <2>1, OneMinus
  <2>. HIDE DEF g
  <2>3. p \in Floats /\ p.exp = 1 /\ p.pos
    BY <2>2, PowFraction
  <2>4. r = [p EXCEPT !.exp = -@ + 1]
    <3>1. r = Pow2Small(y)
      BY <1>3, <2>1 DEF Pow2, IsZero
    <3>. QED  BY <2>1, <3>1 DEF Pow2Small, g
  <2>. HIDE DEF p
  <2>5. r = [exp |-> 0, man |-> p.man, pos |-> TRUE]
    <3>1. p.exp \in Int /\ p.pos = TRUE
      BY <2>3 DEF Floats
    <3>2. \A k \in Int : k = 1 => -k + 1 = 0
      OBVIOUS
    <3>3. -p.exp + 1 = 0
      BY <2>3, <3>1, <3>2
    <3>4. r = [exp |-> -p.exp + 1, man |-> p.man, pos |-> p.pos]
      BY <2>3, <2>4 DEF Floats
    <3>. HIDE DEF r
    <3>. QED  BY <3>1, <3>3, <3>4
  <2>6. n = 0
    BY <1>3
  <2>. HIDE DEF r, n
  <2>7. r \in Floats /\ r.exp = 0 /\ r.pos = TRUE /\ r.man = p.man
    <3>1. p.man \in Mantissas
      BY <2>3 DEF Floats
    <3>. QED  BY <2>5, <3>1 DEF Floats
  <2>8. IsMantissa(r.man)
    BY <2>7, <1>1 DEF Floats, Mantissas, IsMantissa
  <2>9. r.exp = -n /\ n \in Nat
    <3>1. \A k \in Int : -k = 0 - k
      OBVIOUS
    <3>2. n \in Nat /\ n \in Int
      BY <2>6
    <3>3. 0 - n = 0
      BY <2>6, <3>2
    <3>. QED  BY <2>7, <3>1, <3>2, <3>3
  <2>10. Bracketed(r, n) /\ AtMostOne(r)
    BY <2>7, <2>8, <2>9 DEF Bracketed, AtMostOne
  <2>. QED  BY <2>7, <2>9, <2>10 DEF n, r
<1>4. CASE y.man # 0 /\ ~(y.exp <= 0)
  <2>. DEFINE e == IntegerPart(y)  q == FractionalPart(y)
  <2>1. /\ y \in Floats /\ y.pos = FALSE /\ y.exp \in 1 .. Width /\ y.exp > 0
        /\ y.man \in Nat
    BY <1>1, <1>4 DEF Floats, Mantissas
  <2>2. e \in Nat /\ q \in 0 .. One - 1
    <3>. DEFINE i == Width - y.exp  j == y.exp
    <3>1. i \in 0 .. 32 /\ j \in 0 .. 32
      BY <1>1, <2>1
    <3>2. e = y.man \div 2^i /\ q = (y.man * 2^j) % One
      BY DEF IntegerPart, FractionalPart
    <3>. HIDE DEF i, j
    <3>3. 2^i \in Nat \ {0} /\ 2^j \in Nat \ {0}
      BY <3>1, PowerAtLeast
    <3>4. e \in Nat
      BY <2>1, <3>2, <3>3, Quotient
    <3>. DEFINE t == y.man * 2^j
    <3>5. t \in Nat
      BY <2>1, <3>3, Times
    <3>. HIDE DEF t
    <3>6. t % One \in 0 .. One - 1
      BY <1>1, <3>5
    <3>. QED  BY <3>2, <3>4, <3>6 DEF t
  <2>3. n = e
    BY <1>4 DEF IsZero
  <2>4. r = Pow2Big(y)
    BY <1>4, <2>1 DEF Pow2, IsZero
  <2>5. CASE q = 0
    <3>1. r = FromExponent(-e)
      BY <2>1, <2>4, <2>5 DEF Pow2Big
    <3>. HIDE DEF r, n, e
    <3>2. r = FromExponent(-n) /\ n \in Nat
      BY <2>2, <2>3, <3>1
    <3>3. r \in Floats /\ r.pos = TRUE /\ AtMostOne(r)
      BY <3>2, FromExponentIs
    <3>. QED  BY <3>2, <3>3 DEF Bracketed, n, r
  <2>6. CASE q # 0
    <3>. DEFINE f == ShiftLeft(0, q, TRUE)  h == Negative(f)
                g == FloatSum(FromInt(1), h)  p == Pow2Fraction(g)
    <3>1. f \in Floats /\ f.pos = TRUE /\ f.exp <= 0
      <4>. DEFINE s == TRUE  z == 0
      <4>1. s \in BOOLEAN /\ z \in Int /\ q \in 1 .. One - 1
        BY <1>1, <2>2, <2>6
      <4>. HIDE DEF s, z, q
      <4>2. LET x == ShiftLeft(z, q, s)
            IN  x \in Floats /\ x.pos = s /\ x.exp <= z
        BY <4>1, ShiftedLeft
      <4>. QED  BY <4>2 DEF s, z
    <3>. HIDE DEF f
    <3>2. h \in Floats /\ h.pos = FALSE /\ h.exp <= 0
      BY <3>1 DEF Negative, Floats
    <3>. HIDE DEF h
    <3>3. g \in Floats /\ g.pos /\ AtMostOne(g)
      BY <3>2, OneMinus
    <3>. HIDE DEF g
    <3>4. p \in Floats /\ p.exp = 1 /\ p.pos
      BY <3>3, PowFraction
    <3>5. r = [p EXCEPT !.exp = -(@ + e - 1)]
      BY <2>1, <2>4, <2>6 DEF Pow2Big, f, g, h
    <3>. HIDE DEF p, e, q
    <3>6. -(1 + e - 1) = -e
      BY <2>2
    <3>7. r = [exp |-> -e, man |-> p.man, pos |-> TRUE]
      BY <3>4, <3>5, <3>6 DEF Floats
    <3>. HIDE DEF r, n
    <3>8. r \in Floats /\ r.exp = -e /\ r.pos = TRUE /\ r.man = p.man
      <4>1. p.man \in Mantissas /\ -e \in Int
        BY <2>2, <3>4 DEF Floats
      <4>. QED  BY <3>7, <4>1 DEF Floats
    <3>9. IsMantissa(r.man)
      BY <1>1, <3>8 DEF Floats, Mantissas, IsMantissa
    <3>10. r.exp = -n /\ n \in Nat /\ r.exp <= 0
      BY <2>2, <2>3, <3>8
    <3>. QED  BY <3>8, <3>9, <3>10 DEF Bracketed, AtMostOne, n, r
  <2>. QED  BY <2>5, <2>6
<1>. QED  BY <1>2, <1>3, <1>4

-----------------------------------------------------------------------------
(* Where digits meet a mantissa.                                           *)
LEMMA DigitSizes ==
    LET q == 2^DigitWidth  r == 2^(Width - DigitWidth)
    IN  /\ q \in Nat \ {0} /\ r \in Nat \ {0} /\ q >= 4
        /\ q * r = One /\ 2^(Width - DigitWidth + 1) = 2 * r
        /\ 2 * 2^(DigitWidth - 1) = q /\ 2^(DigitWidth - 1) \in Nat
<1>. DEFINE T == {k \in Nat : \A i \in 0 .. 32, j \in 0 .. 32, n \in 0 .. 32 :
                                 i = k /\ n = i + j => 2^i * 2^j = 2^n}
<1>1. 0 \in T
  <2>. SUFFICES ASSUME NEW i \in 0 .. 32, NEW j \in 0 .. 32, NEW n \in 0 .. 32,
                       i = 0, n = i + j
                PROVE  2^i * 2^j = 2^n
    OBVIOUS
  <2>1. 2^i = 1 /\ n = j
    BY PowerAtLeast
  <2>2. 2^j \in Nat
    BY PowerAtLeast
  <2>3. 1 * 2^j = 2^j
    BY <2>2
  <2>. QED  BY <2>1, <2>3
<1>2. \A k \in Nat : k \in T => k + 1 \in T
  <2>. SUFFICES ASSUME NEW k \in Nat, k \in T,
                       NEW i \in 0 .. 32, NEW j \in 0 .. 32, NEW n \in 0 .. 32,
                       i = k + 1, n = i + j
                PROVE  2^i * 2^j = 2^n
    OBVIOUS
  <2>. DEFINE h == i - 1  l == n - 1
  <2>1. /\ h \in 0 .. 31 /\ i = h + 1 /\ l \in 0 .. 31 /\ n = l + 1
        /\ h \in 0 .. 32 /\ l \in 0 .. 32 /\ h = k /\ l = h + j
    OBVIOUS
  <2>. HIDE DEF h, l
  <2>2. 2^h * 2^j = 2^l
    BY <2>1
  <2>3. 2^i = 2 * 2^h /\ 2^n = 2 * 2^l
    BY <2>1, NextPower
  <2>4. 2^h \in Nat /\ 2^j \in Nat /\ 2^l \in Nat
    BY <2>1, PowerAtLeast
  <2>. DEFINE a == 2^h  b == 2^j  c == 2^l
  <2>5. a \in Nat /\ b \in Nat /\ c \in Nat /\ a * b = c
    BY <2>2, <2>4
  <2>. HIDE DEF a, b, c
  <2>6. (2 * a) * b = 2 * c
    BY <2>5
  <2>. QED  BY <2>3, <2>6 DEF a, b, c
<1>3. Nat \subseteq T
  <2>. HIDE DEF T
  <2>. QED  BY <1>1, <1>2, Induction
<1>4. \A i \in 0 .. 32, j \in 0 .. 32, n \in 0 .. 32 : n = i + j => 2^i * 2^j = 2^n
  <2>. SUFFICES ASSUME NEW i \in 0 .. 32, NEW j \in 0 .. 32, NEW n \in 0 .. 32, n = i + j
                PROVE  2^i * 2^j = 2^n
    OBVIOUS
  <2>1. i \in T
    BY <1>3
  <2>. QED  BY <2>1
<1>. HIDE DEF T
<1>. DEFINE d == DigitWidth  w == Width - DigitWidth  v == w + 1  u == d - 1
<1>5. /\ d \in 0 .. 32 /\ w \in 0 .. 31 /\ w \in 0 .. 32 /\ Width \in 0 .. 32
      /\ Width = d + w /\ v = w + 1 /\ u \in 0 .. 31 /\ u \in 0 .. 32 /\ d = u + 1 /\ d >= 2
      /\ v = Width - DigitWidth + 1
  BY HalfKnown
<1>. HIDE DEF w, v, u
<1>6. 2^d * 2^w = 2^Width /\ 2^v = 2 * 2^w /\ 2^d = 2 * 2^u
  BY <1>4, <1>5, NextPower
<1>7. 2^d \in Nat \ {0} /\ 2^w \in Nat \ {0} /\ 2^d >= 4 /\ 2^u \in Nat
  BY <1>5, PowerAtLeast
<1>. QED  BY <1>5, <1>6, <1>7 DEF One, w, u


(* The inverse of a coefficient, cut to digits, against a mantissa.        *)
LEMMA InverseDigits ==
    ASSUME NEW j \in Nat, NEW c \in Mantissas
    PROVE  LET u == 2^(DigitWidth - 1)  r == 2^(Width - DigitWidth)
               n == ((One * u) \div c) * r
           IN  /\ j < n => 2 * j * c < One * One
               /\ ~(j < n) => 2 * j * c >= One * (One - 2 * r)
<1>. DEFINE u == 2^(DigitWidth - 1)  r == 2^(Width - DigitWidth)  q == 2^DigitWidth
            b == (One * u) \div c  n == b * r  g == c * b
<1>1. /\ Half \in Nat \ {0} /\ One \in Nat /\ One = 2 * Half
      /\ c \in Nat \ {0} /\ c < One
  BY HalfKnown DEF Mantissas
<1>2. r \in Nat \ {0} /\ u \in Nat /\ q \in Nat /\ q * r = One /\ 2 * u = q
  BY DigitSizes
<1>. HIDE DEF u, r, q
<1>3. u * r = Half
  <2>1. (2 * u) * r = 2 * (u * r) /\ u * r \in Nat
    BY <1>2, Times
  <2>. QED  BY <1>1, <1>2, <2>1
<1>4. b \in Nat /\ c * b <= One * u /\ One * u < c * b + c
  <2>. DEFINE a == One * u
  <2>1. a \in Nat
    BY <1>1, <1>2, Times
  <2>. HIDE DEF a
  <2>2. a \div c \in Nat /\ c * (a \div c) <= a /\ a < c * (a \div c) + c
    BY <1>1, <2>1, Quotient
  <2>. QED  BY <2>2 DEF a
<1>. HIDE DEF b
<1>5. /\ g \in Nat /\ n \in Nat /\ n * c = g * r /\ (One * u) * r = One * Half
      /\ One * u \in Nat /\ One * Half \in Nat /\ One * One = 2 * (One * Half)
      /\ j * c \in Nat /\ 2 * j * c = 2 * (j * c) /\ g * r \in Nat
  <2>1. g \in Nat /\ n \in Nat /\ One * u \in Nat /\ One * Half \in Nat /\ j * c \in Nat
    BY <1>1, <1>2, <1>4, Times
  <2>2. n * c = g * r
    BY <1>1, <1>2, <1>4
  <2>3. (One * u) * r = One * (u * r)
    BY <1>1, <1>2
  <2>4. One * One = 2 * (One * Half) /\ 2 * j * c = 2 * (j * c)
    BY <1>1
  <2>. HIDE DEF g
  <2>5. g * r \in Nat
    BY <1>2, <2>1, Times
  <2>. QED  BY <1>3, <2>1, <2>2, <2>3, <2>4, <2>5
<1>6. g <= One * u /\ One * u <= g + One
  BY <1>1, <1>4, <1>5
<1>. HIDE DEF g, n
<1>7. ASSUME j < n
      PROVE  2 * j * c < One * One
  <2>1. (j + 1) * c <= n * c
    BY <1>1, <1>5, <1>7, TimesMonotone
  <2>2. g * r <= (One * u) * r
    BY <1>2, <1>5, <1>6, TimesMonotone
  <2>3. (j + 1) * c = j * c + c
    BY <1>1
  <2>. QED  BY <1>1, <1>5, <2>1, <2>2, <2>3
<1>8. ASSUME ~(j < n)
      PROVE  2 * j * c >= One * (One - 2 * r)
  <2>1. n * c <= j * c
    BY <1>1, <1>5, <1>8, TimesMonotone
  <2>2. (One * u) * r <= (g + One) * r
    BY <1>1, <1>2, <1>5, <1>6, TimesMonotone
  <2>3. (g + One) * r = g * r + One * r /\ One * r \in Nat
    BY <1>1, <1>2, <1>5, Times
  <2>4. One * (One - 2 * r) = One * One - 2 * (One * r)
    BY <1>1, <1>2
  <2>. QED  BY <1>1, <1>5, <2>1, <2>2, <2>3, <2>4
<1>. QED  BY <1>7, <1>8 DEF u, r, b, n

(* All digits set, against a mantissa, for a power of two.                 *)
LEMMA FullDigits ==
    ASSUME NEW j \in Nat
    PROVE  LET r == 2^(Width - DigitWidth)
               n == (2^DigitWidth - 1) * r
           IN  /\ j < n => 2 * j * Half < One * One
               /\ ~(j < n) => 2 * j * Half >= One * (One - 2 * r)
<1>. DEFINE r == 2^(Width - DigitWidth)  q == 2^DigitWidth  n == (q - 1) * r
<1>1. Half \in Nat \ {0} /\ One \in Nat \ {0} /\ One = 2 * Half
  BY HalfKnown
<1>2. r \in Nat \ {0} /\ q \in Nat \ {0} /\ q * r = One
  BY DigitSizes
<1>. HIDE DEF r, q
<1>3. n = One - r
  <2>1. n = q * r - r
    BY <1>2
  <2>. QED  BY <1>2, <2>1
<1>4. 2 * j * Half = j * One /\ j * One \in Nat
  BY <1>1, Times
<1>. HIDE DEF n
<1>5. ASSUME j < n
      PROVE  2 * j * Half < One * One
  <2>1. (j + 1) * One <= One * One
    <3>1. j + 1 <= One
      BY <1>1, <1>2, <1>3, <1>5
    <3>. QED  BY <1>1, <3>1, TimesMonotone
  <2>2. (j + 1) * One = j * One + One /\ One * One \in Nat
    BY <1>1, Times
  <2>. QED  BY <1>1, <1>4, <2>1, <2>2
<1>6. ASSUME ~(j < n)
      PROVE  2 * j * Half >= One * (One - 2 * r)
  <2>1. One <= j + r /\ j + r \in Nat
    BY <1>1, <1>2, <1>3, <1>6
  <2>2. One * One <= (j + r) * One
    BY <1>1, <2>1, TimesMonotone
  <2>3. (j + r) * One = j * One + One * r /\ One * r \in Nat
    BY <1>1, <1>2, Times
  <2>4. One * (One - 2 * r) = One * One - 2 * (One * r) /\ One * One \in Nat
    BY <1>1, <1>2, Times
  <2>. QED  BY <1>4, <2>2, <2>3, <2>4
<1>. QED  BY <1>5, <1>6 DEF n, q, r

(* operator< decides as the inverse of the difficulty does, up to the last *)
(* digit.                                                                  *)
LEMMA BelowDecides ==
    ASSUME NEW x \in Floats, x.exp <= 0, NEW difficulty \in Difficulties
    PROVE  LET d == AtLeastOne(difficulty)
               e == x.exp + d.exp
               t == TargetOf(difficulty)
           IN  /\ Below(x, t) => e <= 0 \/ (e = 1 /\ 2 * x.man * d.man < One * One)
               /\ ~Below(x, t) =>
                     \/ e >= 2
                     \/ /\ e \in {0, 1}
                        /\ 2^e * x.man * d.man >= One * (One - 2^(Width - DigitWidth + 1))
<1>. DEFINE d == AtLeastOne(difficulty)  e == x.exp + d.exp  t == TargetOf(difficulty)
            r == 2^(Width - DigitWidth)  j == x.man
<1>1. /\ Half \in Nat \ {0} /\ One \in Nat \ {0} /\ One = 2 * Half
      /\ x.exp \in Int /\ j \in Nat
  BY HalfKnown DEF Floats, Mantissas
<1>2. difficulty.exp \in Int /\ difficulty.man \in Mantissas
  BY InputAssumption DEF Mantissas, Half, One
<1>3. r \in Nat /\ 2^(Width - DigitWidth + 1) = 2 * r
  BY DigitSizes
<1>4. /\ d.exp \in Int /\ d.man \in Mantissas
      /\ t.zeros = d.exp - 1
      /\ j < t.bits * r => 2 * j * d.man < One * One
      /\ ~(j < t.bits * r) => 2 * j * d.man >= One * (One - 2 * r)
  <2>1. /\ j < (2^DigitWidth - 1) * r => 2 * j * Half < One * One
        /\ ~(j < (2^DigitWidth - 1) * r) => 2 * j * Half >= One * (One - 2 * r)
    BY <1>1, FullDigits
  <2>2. CASE difficulty.exp < 1
    <3>1. d = [exp |-> 1, man |-> Half, pos |-> TRUE]
      BY <2>2, FromIntOne DEF AtLeastOne, Float
    <3>2. t = [zeros |-> 0, bits |-> 2^DigitWidth - 1]
      BY <2>2 DEF TargetOf
    <3>. HIDE DEF d, t, j, r
    <3>3. d.exp = 1 /\ d.man = Half /\ t.zeros = 0 /\ t.bits = 2^DigitWidth - 1
      BY <3>1, <3>2
    <3>4. Half \in Mantissas
      BY <1>1 DEF Mantissas
    <3>. QED  BY <2>1, <3>3, <3>4
  <2>3. CASE difficulty.exp >= 1 /\ difficulty.man = Half
    <3>1. d = difficulty
      BY <1>2, <2>3 DEF AtLeastOne
    <3>2. t.zeros = d.exp - 1 /\ t.bits = 2^DigitWidth - 1
      <4>1. CASE difficulty.exp = 1
        BY <2>3, <3>1, <4>1 DEF TargetOf
      <4>2. CASE difficulty.exp # 1
        <5>1. ~(difficulty.exp < 1)
          BY <1>2, <2>3
        <5>. QED  BY <2>3, <3>1, <4>2, <5>1 DEF TargetOf
      <4>. QED  BY <4>1, <4>2
    <3>. HIDE DEF d, t, j, r
    <3>3. d.man = Half
      BY <2>3, <3>1
    <3>. QED  BY <1>2, <2>1, <3>1, <3>2, <3>3
  <2>4. CASE difficulty.exp >= 1 /\ difficulty.man # Half
    <3>1. ~(difficulty.exp < 1)
      BY <1>2, <2>4
    <3>2. d = difficulty
      BY <3>1 DEF AtLeastOne
    <3>3. /\ t.zeros = d.exp - 1
          /\ t.bits = (One * 2^(DigitWidth - 1)) \div d.man
      BY <2>4, <3>1, <3>2 DEF TargetOf
    <3>. HIDE DEF d, t
    <3>4. LET n == ((One * 2^(DigitWidth - 1)) \div d.man) * r
          IN  /\ j < n => 2 * j * d.man < One * One
              /\ ~(j < n) => 2 * j * d.man >= One * (One - 2 * r)
      BY <1>1, <1>2, <3>2, InverseDigits
    <3>. HIDE DEF j, r
    <3>. QED  BY <1>2, <3>2, <3>3, <3>4
  <2>. QED  BY <1>2, <2>2, <2>3, <2>4
<1>5. Below(x, t) <=> \/ t.zeros < -x.exp
                      \/ t.zeros = -x.exp /\ j < t.bits * r
  BY DEF Below
<1>. DEFINE v == d.man  z == t.zeros  k == t.bits * r
<1>6. v \in Nat
  BY <1>1, <1>4 DEF Mantissas
<1>7. ASSUME Below(x, t)
      PROVE  e <= 0 \/ (e = 1 /\ 2 * j * v < One * One)
  <2>1. CASE t.zeros < -x.exp
    <3>. HIDE DEF d, t
    <3>1. e <= 0
      BY <1>1, <1>4, <2>1
    <3>. QED  BY <3>1
  <2>2. CASE t.zeros = -x.exp /\ j < t.bits * r
    <3>. HIDE DEF d, t, j, r
    <3>1. e = 1
      BY <1>1, <1>4, <2>2
    <3>. QED  BY <1>4, <2>2, <3>1
  <2>. QED  BY <1>5, <1>7, <2>1, <2>2
<1>8. ASSUME ~Below(x, t)
      PROVE  e >= 2 \/ (e = 1 /\ 2 * j * v >= One * (One - 2 * r))
  <2>. HIDE DEF d, t, j, r
  <2>1. ~(t.zeros < -x.exp) /\ ~(t.zeros = -x.exp /\ j < t.bits * r)
    BY <1>5, <1>8
  <2>2. CASE t.zeros = -x.exp
    <3>1. e = 1
      BY <1>1, <1>4, <2>2
    <3>. QED  BY <1>4, <2>1, <2>2, <3>1
  <2>3. CASE t.zeros # -x.exp
    <3>1. e >= 2
      BY <1>1, <1>4, <2>1, <2>3
    <3>. QED  BY <3>1
  <2>. QED  BY <2>2, <2>3
<1>. HIDE DEF d, e, t, j, r
<1>9. e = 1 => 2^e * j * v = 2 * j * v
  <2>1. e = 1 => 2^e = 2
    OBVIOUS
  <2>. QED  BY <2>1
<1>10. Below(x, t) => e <= 0 \/ (e = 1 /\ 2 * j * v < One * One)
  BY <1>7
<1>11. ~Below(x, t) => \/ e >= 2
                       \/ e \in {0, 1} /\ 2^e * j * v >= One * (One - 2 * r)
  BY <1>8, <1>9
<1>. QED  BY <1>3, <1>10, <1>11 DEF d, e, t, j, r

-----------------------------------------------------------------------------
(* The power is a mantissa again, of a number up to one.                   *)
PowerKnown ==
    /\ share.stage \in {"none", "power", "compared"}
    /\ share.stage = "power" => share.power \in Floats /\ AtMostOne(share.power)

ShareInv == PowerKnown /\ PowBracketed /\ ShareMeetsDifficulty

LEMMA ShareInit == InitShare => ShareInv
BY DEF InitShare, NoShare, ShareInv, PowerKnown, PowBracketed, ShareMeetsDifficulty

LEMMA ShareNext == ShareInv /\ [NextShare]_share => ShareInv'
<1>. SUFFICES ASSUME ShareInv, [NextShare]_share
              PROVE  ShareInv'
  OBVIOUS
<1>. USE DEF ShareInv
<1>1. CASE TakePower
  <2>1. PICK n \in HashStarts :
          share' = [stage |-> "power", sha |-> FloatOf(Sha256t(n)),
                    log |-> LogPower(FloatOf(Sha256t(n))),
                    power |-> Power(FloatOf(Sha256t(n)))]
    BY <1>1 DEF TakePower
  <2>. DEFINE f == FloatOf(Sha256t(n))  y == LogPower(f)  p == Pow2(y)
              i == IF IsZero(y) \/ y.exp <= 0 THEN 0 ELSE IntegerPart(y)
  <2>2. share' = [stage |-> "power", sha |-> f, log |-> y, power |-> p]
    BY <2>1 DEF Power
  <2>3. f \in Floats /\ f.pos = TRUE /\ f.exp <= 0 /\ -f.exp <= 2 * Width
    <3>1. n \in Nat
      BY InputAssumption
    <3>2. Sha256t(n) \in Seq(Bytes) /\ LeadingZeroBytes(Sha256t(n)) <= 4
      BY <3>1, FirstBytes
    <3>. QED  BY <3>2, FloatOfHash
  <2>. HIDE DEF f
  <2>4. y.man # 0 => y \in Floats /\ y.pos = FALSE /\ y.exp <= Width
    <3>1. f.pos
      BY <2>3
    <3>. QED  BY <2>3, <3>1, LogPowerOfSmall
  <2>. HIDE DEF y
  <2>5. i \in Nat /\ Bracketed(p, i) /\ p \in Floats /\ p.pos = TRUE /\ AtMostOne(p)
    BY <2>4, Pow2OfNegative
  <2>. HIDE DEF p
  <2>6. share'.stage = "power" /\ share'.log = y /\ share'.power = p
    BY <2>2
  <2>7. PowerKnown'
    BY <2>5, <2>6 DEF PowerKnown, AtMostOne, Floats, Mantissas, Half, One
  <2>8. PowBracketed'
    <3>1. IsZero(y) \/ ~y.pos
      BY <2>4 DEF IsZero
    <3>2. p.pos
      BY <2>5
    <3>3. \/ p.exp = -i /\ IsMantissa(p.man)
          \/ p = FromExponent(-i)
      BY <2>5 DEF Bracketed
    <3>. QED  BY <2>6, <3>1, <3>2, <3>3 DEF PowBracketed
  <2>9. ShareMeetsDifficulty'
    BY <2>6 DEF ShareMeetsDifficulty
  <2>. QED  BY <2>7, <2>8, <2>9
<1>2. CASE Compare
  <2>1. PICK start \in VerusStarts, byte \in {0, AllOnes}, d \in Difficulties :
          LET janus == FloatProduct(FloatOf(Filled(start, byte)), share.power)
          IN  share' = [stage |-> "compared", janus |-> janus, difficulty |-> d,
                        isShare |-> Below(janus, TargetOf(d))]
    BY <1>2 DEF Compare
  <2>. DEFINE v == FloatOf(Filled(start, byte))  p == share.power
              x == FloatProduct(v, p)  a == v.man * p.man
  <2>2. p \in Floats /\ AtMostOne(p)
    BY <1>2 DEF Compare, PowerKnown
  <2>3. v \in Floats /\ v.exp <= 0
    <3>1. Filled(start, byte) \in Seq(Bytes)
      BY FilledHash
    <3>. QED  BY <3>1, FloatOfHash
  <2>4. share' = [stage |-> "compared", janus |-> x, difficulty |-> d,
                  isShare |-> Below(x, TargetOf(d))]
    BY <2>1
  <2>. HIDE DEF v, p
  <2>5. x \in Floats /\ x.exp <= 0
    <3>1. /\ a \in Nat /\ x \in Floats
          /\ a < One * Half => x.exp = v.exp + p.exp - 1
          /\ ~(a < One * Half) => x.exp = v.exp + p.exp
      BY <2>2, <2>3, ProductOfFloats
    <3>2. /\ Half \in Nat \ {0} /\ One \in Nat /\ v.man \in Nat /\ v.man < One
          /\ v.exp \in Int /\ p.exp \in Int
      BY <2>2, <2>3, HalfKnown DEF Floats, Mantissas
    <3>3. p.exp = 1 /\ p.man = Half => a < One * Half
      <4>1. (v.man + 1) * Half <= One * Half
        BY <3>2, TimesMonotone
      <4>2. (v.man + 1) * Half = v.man * Half + Half /\ v.man * Half \in Nat
            /\ One * Half \in Nat
        BY <3>2, Times
      <4>. QED  BY <3>2, <4>1, <4>2
    <3>. HIDE DEF x, a
    <3>4. x.exp <= 0
      BY <2>2, <2>3, <3>1, <3>2, <3>3 DEF AtMostOne
    <3>. QED  BY <3>1, <3>4
  <2>. HIDE DEF x
  <2>6. /\ share'.stage = "compared" /\ share'.janus = x /\ share'.difficulty = d
        /\ share'.isShare = Below(x, TargetOf(d))
    BY <2>4
  <2>7. PowerKnown' /\ PowBracketed'
    BY <2>6 DEF PowerKnown, PowBracketed
  <2>8. ShareMeetsDifficulty'
    <3>1. LET c == AtLeastOne(d)
              e == x.exp + c.exp
          IN  /\ Below(x, TargetOf(d)) =>
                    e <= 0 \/ (e = 1 /\ 2 * x.man * c.man < One * One)
              /\ ~Below(x, TargetOf(d)) =>
                    \/ e >= 2
                    \/ /\ e \in {0, 1}
                       /\ 2^e * x.man * c.man >=
                             One * (One - 2^(Width - DigitWidth + 1))
      BY <2>5, BelowDecides
    <3>. QED  BY <2>5, <2>6, <3>1 DEF ShareMeetsDifficulty
  <2>. QED  BY <2>7, <2>8
<1>3. CASE UNCHANGED share
  BY <1>3 DEF PowerKnown, PowBracketed, ShareMeetsDifficulty
<1>. QED  BY <1>1, <1>2, <1>3 DEF NextShare

LEMMA ShareInvHolds == SpecShare => []ShareInv
<1>1. InitShare => ShareInv
  BY ShareInit
<1>2. ShareInv /\ [NextShare]_share => ShareInv'
  BY ShareNext
<1>. QED  BY <1>1, <1>2, PTL DEF SpecShare

(* Of every hash the kernel passes on, the power that is computed is right *)
(* up to less than a factor of two, and no greater than one (pow and pow2  *)
(* in custom_float.hpp).                                                   *)
THEOREM PowBracketedHolds == SpecShare => []PowBracketed
<1>1. ShareInv => PowBracketed
  BY DEF ShareInv
<1>. QED  BY <1>1, ShareInvHolds, PTL

(* What is taken for a share meets the pool's difficulty, whatever the     *)
(* hashes and the difficulty are, and what is not misses it by no more     *)
(* than the last digit of a target (operator< and TargetV2).               *)
THEOREM ShareMeetsDifficultyHolds == SpecShare => []ShareMeetsDifficulty
<1>1. ShareInv => ShareMeetsDifficulty
  BY DEF ShareInv
<1>. QED  BY <1>1, ShareInvHolds, PTL
=============================================================================
