-------------------------- MODULE CyclicQueue_proofs --------------------------
(***************************************************************************)
(* Proofs about the ring of results, for every size of the ring, every     *)
(* number of Buffers and every set of odd requests.                        *)
(***************************************************************************)
EXTENDS CyclicQueue, TLAPS

(***************************************************************************)
(* What a grant can be                                                     *)
(***************************************************************************)
(* alloc_part gives no more than was asked for and no more than there is.  *)
LEMMA PartLenBounds ==
    ASSUME NEW n \in Nat, NEW max \in Nat
    PROVE  /\ PartLen(n, max) \in Nat
           /\ PartLen(n, max) <= n
           /\ PartLen(n, max) <= max
<1> DEFINE m == IF n > max THEN max ELSE n
           len == IF m % 2 # n % 2 THEN m - 1 ELSE m
<1>1. m \in Nat /\ m <= n /\ m <= max
  OBVIOUS
<1> HIDE DEF m
<1>2. len \in Int /\ len <= m
  BY <1>1
<1> HIDE DEF len
<1>3. (IF len < 2 THEN 0 ELSE len) \in Nat
  BY <1>2
<1>4. (IF len < 2 THEN 0 ELSE len) <= m
  BY <1>1, <1>2
<1>5. PartLen(n, max) = IF len < 2 THEN 0 ELSE len
  BY DEF PartLen, len, m
<1> QED
  BY <1>1, <1>3, <1>4, <1>5

(* The part ahead ends within the ring, the part behind before i1.         *)
LEMMA GrantLengths ==
    ASSUME i0 \in Index, i1 \in Index, NEW n \in Requests
    PROVE  /\ AheadLen(n) \in Nat /\ i0 + AheadLen(n) \in Index
           /\ BehindLen(n) \in Nat /\ BehindLen(n) \in Index
<1>1. n \in Nat
  BY RequestsAssumption
<1>2. i0 \in Nat /\ i1 \in Nat /\ i0 <= Size /\ i1 <= Size /\ Size \in Nat
  BY SizeAssumption DEF Index
<1>3. /\ AheadLen(n) \in Nat /\ AheadLen(n) <= n
      /\ i0 + AheadLen(n) <= Size
  <2>1. CASE i0 < i1
    <3>1. i1 - i0 \in Nat
      BY <1>2, <2>1
    <3>2. AheadLen(n) = PartLen(n, i1 - i0)
      BY <2>1 DEF AheadLen
    <3>3. /\ AheadLen(n) \in Nat /\ AheadLen(n) <= n
          /\ AheadLen(n) <= i1 - i0
      BY <1>1, <3>1, <3>2, PartLenBounds
    <3> QED
      BY <1>2, <3>3
  <2>2. CASE ~(i0 < i1)
    <3>1. Size - i0 \in Nat
      BY <1>2
    <3>2. AheadLen(n) = PartLen(n, Size - i0)
      BY <2>2 DEF AheadLen
    <3>3. /\ AheadLen(n) \in Nat /\ AheadLen(n) <= n
          /\ AheadLen(n) <= Size - i0
      BY <1>1, <3>1, <3>2, PartLenBounds
    <3> QED
      BY <1>2, <3>3
  <2> QED
    BY <2>1, <2>2
<1>4. BehindLen(n) \in Nat /\ BehindLen(n) <= Size
  <2>1. CASE i0 < i1
    BY <1>2, <2>1 DEF BehindLen
  <2>2. CASE ~(i0 < i1)
    <3>1. n - AheadLen(n) \in Nat
      BY <1>1, <1>3
    <3>2. BehindLen(n) = PartLen(n - AheadLen(n), i1)
      BY <2>2 DEF BehindLen
    <3> QED
      BY <1>2, <3>1, <3>2, PartLenBounds
  <2> QED
    BY <2>1, <2>2
<1> QED
  BY <1>2, <1>3, <1>4 DEF Index

(* Spans and cursor of a grant lie within the ring.                        *)
LEMMA GrantInRing ==
    ASSUME i0 \in Index, i1 \in Index, NEW n \in Requests
    PROVE  Grant(n) \in Place
<1>1. 0 \in Index
  BY SizeAssumption DEF Index
<1> QED
  BY <1>1, GrantLengths DEF Grant, Place, Span, SpanAt, NoSpan

(***************************************************************************)
(* Type correctness                                                        *)
(***************************************************************************)
LEMMA TypeInit == Init => TypeOK
<1> SUFFICES ASSUME Init PROVE TypeOK
  OBVIOUS
<1>1. 0 \in Index /\ Size \in Index
  BY SizeAssumption DEF Index
<1> QED
  BY <1>1 DEF Init, TypeOK, Stage, Place, Span, NoPlace, NoSpan

LEMMA TypeStep == TypeOK /\ [Next]_vars => TypeOK'
<1> SUFFICES ASSUME TypeOK, [Next]_vars
             PROVE  TypeOK'
  OBVIOUS
<1> USE DEF TypeOK, Stage
<1>1. ASSUME NEW b \in Buf, NEW n \in Requests, AllocBegin(b, n)
      PROVE  TypeOK'
  <2>1. Grant(n) \in Place
    BY GrantInRing
  <2>2. Grant(n).cursor \in Index
    BY <2>1 DEF Place
  <2>3. i0' \in Index /\ i1' \in Index /\ hasSpace' \in BOOLEAN
    BY <1>1, <2>2 DEF AllocBegin
  <2>4. place' \in [Buf -> Place]
    BY <1>1, <2>1 DEF AllocBegin
  <2>5. /\ life' \in [Buf -> {"unborn", "alive", "expired", "freeing", "leaving"}]
        /\ used' \in SUBSET Buf /\ newest' \in Buf \cup {NoBuf}
        /\ pinned' \in Buf \cup {NoBuf}
        /\ older' \in SUBSET (Buf \X Buf)
    BY <1>1 DEF AllocBegin
  <2> QED
    BY <1>1, <2>3, <2>4, <2>5 DEF AllocBegin
<1>2. ASSUME NEW n \in Requests, AllocFails(n)
      PROVE  TypeOK'
  BY <1>2 DEF AllocFails, chain, ghost
<1>3. CASE AllocEnd
  BY <1>3 DEF AllocEnd, ring, ghost
<1>4. ASSUME NEW b \in Buf, Release(b)
      PROVE  TypeOK'
  BY <1>4 DEF Release, ring, ghost
<1>5. ASSUME NEW b \in Buf, DecideFree(b)
      PROVE  TypeOK'
  BY <1>5 DEF DecideFree, ring, ghost
<1>6. ASSUME NEW b \in Buf, Free(b)
      PROVE  TypeOK'
  <2>1. place[b].cursor \in Index
    BY DEF Place
  <2>2. OlderThan(b) \subseteq Buf
    BY DEF OlderThan
  <2> QED
    BY <1>6, <2>1, <2>2 DEF Free
<1>7. ASSUME NEW b \in Buf, Leave(b)
      PROVE  TypeOK'
  <2>1. NoPlace \in Place
    BY SizeAssumption DEF NoPlace, NoSpan, Place, Span, Index
  <2>2. life' \in [Buf -> {"unborn", "alive", "expired", "freeing", "leaving"}]
    BY <1>7 DEF Leave
  <2> QED
    BY <1>7, <2>1, <2>2 DEF Leave, ring
<1>8. CASE UNCHANGED vars
  BY <1>8 DEF vars, ring, chain, ghost
<1> QED
  BY <1>1, <1>2, <1>3, <1>4, <1>5, <1>6, <1>7, <1>8 DEF Next, Alloc, Destroy

(* The positions of the ring and of every Buffer stay within the ring, and *)
(* every pointer names a Buffer or none (cyclic_queue.hpp).                *)
THEOREM TypeCorrect == Spec => []TypeOK
BY TypeInit, TypeStep, PTL DEF Spec

(***************************************************************************)
(* FIFO destruction                                                        *)
(***************************************************************************)
Alive(b) == life[b] = "alive"
Dying(b) == life[b] \in {"expired", "freeing", "leaving"}

(* The history of allocations relates existing, different Buffers.         *)
OlderExist ==
    \A a, b \in Buf : <<a, b>> \in older =>
        a # b /\ life[a] # "unborn" /\ life[b] # "unborn"

(* A Buffer with users is alive.                                           *)
UsedAlive == \A b \in used : Alive(b)

(* A successor is kept alive by the one Buffer that owns it, its immediate *)
(* predecessor in the history; a Buffer that does not exist owns none.     *)
LinksSound ==
    \A c, b \in Buf : next[c] = b =>
        /\ life[c] # "unborn" /\ Alive(b)
        /\ \A e \in Buf : next[e] = b => e = c
        /\ \A a \in Buf : (<<a, b>> \in older /\ a # c) => <<a, c>> \in older

(* The Buffer whose alloc has not returned is younger than all the others  *)
(* and not linked yet.                                                     *)
NewestSound ==
    newest # NoBuf =>
        /\ newest \in used /\ Alive(newest)
        /\ next[newest] = NoBuf /\ newest # prev
        /\ \A a \in Buf : /\ next[a] # newest
                          /\ a # newest /\ life[a] # "unborn" => <<a, newest>> \in older

(* prev is the youngest of the others; when it has gone, none is alive.    *)
PrevSound ==
    /\ prev # NoBuf =>
        /\ life[prev] # "unborn" /\ next[prev] = NoBuf
        /\ \A a \in Buf : (life[a] # "unborn" /\ a # prev /\ a # newest)
                                => <<a, prev>> \in older
    /\ prev = NoBuf => \A a \in Buf : Alive(a) => a = newest

(* alloc pins prev if that is alive; if it is not, none of the others is.  *)
PinnedSound ==
    /\ pinned # NoBuf => newest # NoBuf /\ pinned = prev /\ Alive(pinned)
    /\ newest # NoBuf /\ pinned = NoBuf => \A a \in Buf : Alive(a) => a = newest

(* A Buffer that follows one that is alive has an owner that is alive.     *)
FollowersOwned ==
    \A a, b \in Buf : (<<a, b>> \in older /\ Alive(a) /\ b # newest) =>
        \E c \in Buf : next[c] = b /\ Alive(c)

(* When ~Buffer begins, that of each older Buffer has begun.               *)
OlderDieFirst ==
    \A a, b \in Buf : (<<a, b>> \in older /\ Dying(b)) => ~Alive(a)

FifoInv ==
    /\ TypeOK /\ OlderExist /\ UsedAlive /\ LinksSound /\ NewestSound /\ PrevSound
    /\ PinnedSound /\ FollowersOwned /\ OlderDieFirst

LEMMA FifoInit == Init => FifoInv
<1> SUFFICES ASSUME Init PROVE FifoInv
  OBVIOUS
<1>1. TypeOK
  BY TypeInit
<1> QED
  BY <1>1, BufAssumption DEF Init, FifoInv, OlderExist, UsedAlive, LinksSound,
        NewestSound, PrevSound, PinnedSound, FollowersOwned, OlderDieFirst, Alive, Dying

(* A Buffer nobody alive owns follows no Buffer that is alive.             *)
LEMMA UnownedIsFirst ==
    ASSUME FifoInv, NEW b \in Buf, b # newest,
           \A c \in Buf : next[c] = b => ~Alive(c)
    PROVE  \A a \in Buf : <<a, b>> \in older => ~Alive(a)
BY DEF FifoInv, FollowersOwned

(* If the only owner of what follows x dies after everything before x, a   *)
(* Buffer that follows one still alive keeps an owner that is alive.       *)
LEMMA ExpiryKeepsOwners ==
    ASSUME FifoInv, NEW x \in Buf,
           \A a \in Buf : <<a, x>> \in older => ~Alive(a)
    PROVE  \A a, b \in Buf :
              (<<a, b>> \in older /\ Alive(a) /\ a # x /\ b # newest) =>
                  \E c \in Buf : next[c] = b /\ Alive(c) /\ c # x
<1> SUFFICES ASSUME NEW a \in Buf, NEW b \in Buf,
                    <<a, b>> \in older, Alive(a), a # x, b # newest
             PROVE  \E c \in Buf : next[c] = b /\ Alive(c) /\ c # x
  OBVIOUS
<1>1. PICK c \in Buf : next[c] = b /\ Alive(c)
  BY DEF FifoInv, FollowersOwned
<1>2. c # x
  BY <1>1 DEF FifoInv, LinksSound
<1> QED
  BY <1>1, <1>2

LEMMA FifoAllocBegin ==
    ASSUME FifoInv, NEW n \in Requests, NEW b \in Buf, AllocBegin(b, n), TypeOK'
    PROVE  FifoInv'
<1> USE DEF FifoInv, TypeOK
<1>1. /\ newest = NoBuf /\ life[b] = "unborn"
      /\ newest' = b /\ prev' = prev /\ next' = next /\ b \in used'
      /\ pinned' = IF prev # NoBuf /\ Alive(prev) THEN prev ELSE NoBuf
      /\ \A a \in Buf : life'[a] = IF a = b THEN "alive" ELSE life[a]
      /\ \A a, c \in Buf : <<a, c>> \in older' <=>
             <<a, c>> \in older \/ (c = b /\ life[a] # "unborn")
  BY DEF AllocBegin, RingUnlocked, Alive
<1>2. prev # b /\ next[b] = NoBuf /\ \A a \in Buf : next[a] # b
  BY <1>1, BufAssumption DEF PrevSound, LinksSound, Alive
<1>3. OlderExist' /\ UsedAlive'
  <2>1. used' = used \cup {b}
    BY DEF AllocBegin
  <2> QED
    BY <1>1, <2>1 DEF OlderExist, UsedAlive, Alive
<1>4. LinksSound'
  BY <1>1, <1>2 DEF LinksSound, Alive
<1>5. NewestSound'
  BY <1>1, <1>2 DEF NewestSound, Alive
<1>6. PrevSound'
  BY <1>1, <1>2, BufAssumption DEF PrevSound, Alive
<1>7. PinnedSound'
  <2>1. CASE prev # NoBuf /\ Alive(prev)
    BY <1>1, <1>2, <2>1, BufAssumption DEF PinnedSound, Alive
  <2>2. CASE prev = NoBuf
    BY <1>1, <2>2, BufAssumption DEF PrevSound, PinnedSound, Alive
  <2>3. CASE prev # NoBuf /\ ~Alive(prev)
    <3>1. prev \in Buf /\ Dying(prev)
      BY <2>3 DEF PrevSound, Dying, Alive, Stage
    <3>2. \A a \in Buf : ~Alive(a)
      BY <1>1, <2>3, <3>1, BufAssumption DEF PrevSound, OlderDieFirst, Alive
    <3> QED
      BY <1>1, <2>3, <3>2 DEF PinnedSound, Alive
  <2> QED
    BY <2>1, <2>2, <2>3
<1>8. FollowersOwned'
  BY <1>1, BufAssumption DEF FollowersOwned, OlderExist, Alive
<1>9. OlderDieFirst'
  BY <1>1 DEF OlderDieFirst, OlderExist, Alive, Dying
<1> QED
  BY <1>3, <1>4, <1>5, <1>6, <1>7, <1>8, <1>9

LEMMA FifoAllocEnd ==
    ASSUME FifoInv, AllocEnd, TypeOK'
    PROVE  FifoInv'
<1> USE DEF FifoInv, TypeOK
<1>1. /\ newest \in Buf /\ prev' = newest /\ newest' = NoBuf /\ pinned' = NoBuf
      /\ used' = used /\ older' = older
  BY DEF AllocEnd, ghost
<1>2. CASE pinned = NoBuf
  <2>1. next' = next /\ life' = life
    BY <1>2 DEF AllocEnd
  <2>2. \A a \in Buf : Alive(a) => a = newest
    BY <1>1, <1>2, BufAssumption DEF PinnedSound
  <2>3. OlderExist' /\ UsedAlive' /\ LinksSound' /\ NewestSound' /\ OlderDieFirst'
    BY <1>1, <2>1 DEF OlderExist, UsedAlive, LinksSound, NewestSound, OlderDieFirst,
                      Alive, Dying
  <2>4. PrevSound' /\ PinnedSound'
    BY <1>1, <2>1, BufAssumption DEF NewestSound, PrevSound, PinnedSound, Alive
  <2>5. FollowersOwned'
    BY <1>1, <2>1, <2>2, BufAssumption DEF FollowersOwned, NewestSound, OlderExist, Alive
  <2> QED
    BY <2>3, <2>4, <2>5
<1>3. CASE pinned # NoBuf
  <2> DEFINE dies == pinned \notin used /\ ~Owned(pinned)
  <2>1. /\ pinned \in Buf /\ pinned = prev /\ Alive(pinned) /\ pinned # newest
        /\ next[pinned] = NoBuf
    BY <1>1, <1>3 DEF PinnedSound, PrevSound, NewestSound
  <2>2. \A a \in Buf : next'[a] = IF a = pinned THEN newest ELSE next[a]
    BY <1>3, <2>1 DEF AllocEnd
  <2>3. \A a \in Buf :
           life'[a] = IF a = pinned /\ dies THEN "expired" ELSE life[a]
    BY <1>3, <2>1 DEF AllocEnd
  <2>4. \A a \in Buf : (life[a] # "unborn" /\ a # pinned /\ a # newest)
                            => <<a, pinned>> \in older
    BY <1>3, <2>1 DEF PrevSound
  <2>5. UsedAlive'
    BY <1>1, <2>3 DEF UsedAlive, Alive
  <2>6. dies => \A a \in Buf : <<a, pinned>> \in older => ~Alive(a)
    <3> SUFFICES ASSUME dies
                 PROVE  \A c \in Buf : next[c] # pinned \/ ~Alive(c)
      BY <2>1, UnownedIsFirst
    <3> QED
      BY DEF Owned, Alive
  <2>7. dies => \A a \in Buf : next[a] # pinned
    BY <2>1 DEF Owned, LinksSound
  <2> HIDE DEF dies
  <2>8. OlderExist'
    BY <1>1, <2>3 DEF OlderExist
  <2>9. LinksSound'
    <3> SUFFICES ASSUME NEW c \in Buf, NEW b \in Buf, next'[c] = b
                 PROVE  /\ life'[c] # "unborn" /\ life'[b] = "alive"
                        /\ \A e \in Buf : next'[e] = b => e = c
                        /\ \A a \in Buf : (<<a, b>> \in older /\ a # c)
                                             => <<a, c>> \in older
      BY <1>1 DEF LinksSound, Alive
    <3>1. CASE c = pinned
      <4>1. b = newest
        BY <2>2, <3>1
      <4> QED
        BY <1>1, <2>1, <2>2, <2>3, <2>4, <3>1, <4>1, BufAssumption
           DEF NewestSound, OlderExist, Alive
    <3>2. CASE c # pinned
      <4>1. next[c] = b /\ b # newest
        BY <1>1, <2>2, <3>2, BufAssumption DEF NewestSound
      <4> QED
        BY <2>2, <2>3, <2>7, <3>2, <4>1 DEF LinksSound, Alive
    <3> QED
      BY <3>1, <3>2
  <2>10. NewestSound' /\ PinnedSound'
    BY <1>1 DEF NewestSound, PinnedSound
  <2>11. PrevSound'
    BY <1>1, <2>1, <2>2, <2>3, BufAssumption DEF NewestSound, PrevSound, Alive
  <2>12. FollowersOwned'
    <3> SUFFICES ASSUME NEW a \in Buf, NEW b \in Buf,
                        <<a, b>> \in older, life'[a] = "alive"
                 PROVE  \E c \in Buf : next'[c] = b /\ life'[c] = "alive"
      BY <1>1 DEF FollowersOwned, Alive
    <3>1. Alive(a) /\ (dies => a # pinned)
      BY <2>3 DEF Alive
    <3>2. CASE b = newest
      <4>1. ~dies
        <5> SUFFICES ASSUME dies PROVE FALSE
          OBVIOUS
        <5> QED
          BY <2>4, <2>6, <3>1, <3>2 DEF OlderExist, Alive
      <4> QED
        BY <2>1, <2>2, <2>3, <3>2, <4>1 DEF Alive
    <3>3. CASE b # newest /\ dies
      <4>1. PICK c \in Buf : next[c] = b /\ Alive(c) /\ c # pinned
        BY <2>1, <2>6, <3>1, <3>3, ExpiryKeepsOwners
      <4> QED
        BY <2>2, <2>3, <4>1 DEF Alive
    <3>4. CASE b # newest /\ ~dies
      <4>1. PICK c \in Buf : next[c] = b /\ Alive(c)
        BY <3>1, <3>4 DEF FollowersOwned
      <4>2. c # pinned
        BY <2>1, <4>1, BufAssumption
      <4> QED
        BY <2>2, <2>3, <4>1, <4>2 DEF Alive
    <3> QED
      BY <3>2, <3>3, <3>4
  <2>13. OlderDieFirst'
    BY <1>1, <2>3, <2>6 DEF OlderDieFirst, Alive, Dying
  <2> QED
    BY <2>5, <2>8, <2>9, <2>10, <2>11, <2>12, <2>13
<1> QED
  BY <1>2, <1>3

LEMMA FifoRelease ==
    ASSUME FifoInv, NEW b \in Buf, Release(b), TypeOK'
    PROVE  FifoInv'
<1> USE DEF FifoInv, TypeOK
<1> DEFINE dies == ~(Owned(b) \/ pinned = b)
<1>1. /\ b \in used /\ b # newest /\ used' = used \ {b}
      /\ prev' = prev /\ pinned' = pinned /\ newest' = newest
      /\ next' = next /\ older' = older
      /\ \A a \in Buf : life'[a] = IF a = b /\ dies THEN "expired" ELSE life[a]
  BY DEF Release, ghost
<1>2. dies => \A a \in Buf : <<a, b>> \in older => ~Alive(a)
  <2> SUFFICES ASSUME dies
               PROVE  \A c \in Buf : next[c] = b => ~Alive(c)
    BY <1>1, UnownedIsFirst
  <2> QED
    BY DEF Owned, Alive
<1>3. dies => pinned # b /\ \A a \in Buf : next[a] # b
  BY DEF Owned, LinksSound
<1> HIDE DEF dies
<1>4. OlderExist' /\ UsedAlive' /\ LinksSound'
  BY <1>1, <1>3 DEF OlderExist, UsedAlive, LinksSound, Alive
<1>5. NewestSound' /\ PrevSound' /\ PinnedSound'
  <2>1. NewestSound'
    BY <1>1, BufAssumption DEF NewestSound, UsedAlive, Alive
  <2>2. PrevSound'
    <3>1. prev # NoBuf => prev \in Buf
      OBVIOUS
    <3> QED
      BY <1>1, <3>1 DEF PrevSound, UsedAlive, Alive
  <2>3. PinnedSound'
    BY <1>1, <1>3 DEF PinnedSound, Alive
  <2> QED
    BY <2>1, <2>2, <2>3
<1>6. FollowersOwned'
  <2>1. CASE dies
    BY <1>1, <1>2, <2>1, ExpiryKeepsOwners DEF FollowersOwned, Alive
  <2>2. CASE ~dies
    BY <1>1, <2>2 DEF FollowersOwned, Alive
  <2> QED
    BY <2>1, <2>2
<1>7. OlderDieFirst'
  BY <1>1, <1>2 DEF OlderDieFirst, Alive, Dying
<1> QED
  BY <1>4, <1>5, <1>6, <1>7

(* The steps of a destructor up to free change no Buffer that is alive.    *)
LEMMA FifoDestructor ==
    ASSUME FifoInv, NEW b \in Buf, DecideFree(b) \/ Free(b), TypeOK'
    PROVE  FifoInv'
<1> USE DEF FifoInv, TypeOK
<1>1. /\ Dying(b) /\ used' = used
      /\ prev' = prev /\ pinned' = pinned /\ newest' = newest
      /\ next' = next /\ older' = older
      /\ \E s \in {"freeing", "leaving"} :
            \A a \in Buf : life'[a] = IF a = b THEN s ELSE life[a]
  BY DEF DecideFree, Free, ghost, Dying
<1>2. \A a \in Buf : /\ life'[a] = "alive" <=> life[a] = "alive"
                     /\ life'[a] = "unborn" <=> life[a] = "unborn"
                     /\ Dying(a)' <=> Dying(a)
  BY <1>1 DEF Dying
<1> QED
  BY <1>1, <1>2 DEF OlderExist, UsedAlive, LinksSound, NewestSound, PrevSound,
                    PinnedSound, FollowersOwned, OlderDieFirst, Alive

LEMMA FifoLeave ==
    ASSUME FifoInv, NEW b \in Buf, Leave(b), TypeOK'
    PROVE  FifoInv'
<1> USE DEF FifoInv, TypeOK
<1> DEFINE s == next[b]
           dies == s # NoBuf /\ s \notin used /\ s # pinned
<1>1. life[b] = "leaving"
  BY DEF Leave
<1>2. dies => s \in Buf /\ s # b /\ Alive(s) /\ s # newest
  BY <1>1 DEF LinksSound, NewestSound, Alive
<1>3. /\ used' = used
      /\ pinned' = pinned /\ newest' = newest
      /\ prev' = IF prev = b THEN NoBuf ELSE prev
      /\ \A a \in Buf : next'[a] = IF a = b THEN NoBuf ELSE next[a]
      /\ \A a, c \in Buf : <<a, c>> \in older' <=>
             <<a, c>> \in older /\ a # b /\ c # b
      /\ \A a \in Buf : life'[a] = IF a = b THEN "unborn"
                                   ELSE IF a = s /\ dies THEN "expired"
                                   ELSE life[a]
  <2>1. life' = [a \in Buf |-> IF a = b THEN "unborn"
                               ELSE IF a = s /\ dies THEN "expired" ELSE life[a]]
    BY <1>2 DEF Leave
  <2>2. next' = [next EXCEPT ![b] = NoBuf]
    BY DEF Leave
  <2>3. older' = older \cap ((Buf \ {b}) \X (Buf \ {b}))
    BY DEF Leave
  <2> HIDE DEF s, dies
  <2> QED
    BY <2>1, <2>2, <2>3 DEF Leave, ring
<1>4. \A c \in Buf : s \in Buf /\ next[c] = s => c = b
  BY DEF LinksSound
<1>5. dies => \A a \in Buf : <<a, s>> \in older => ~Alive(a)
  BY <1>1, <1>2, <1>4, UnownedIsFirst DEF Alive
<1>6. \A a \in Buf : <<a, b>> \in older => ~Alive(a)
  BY <1>1 DEF OlderDieFirst, Dying
<1>7. dies => s # pinned /\ s \notin used
  OBVIOUS
<1> HIDE DEF s, dies
<1>8. OlderExist' /\ UsedAlive'
  BY <1>1, <1>3, <1>7 DEF OlderExist, UsedAlive, Alive
<1>9. LinksSound'
  <2> SUFFICES ASSUME NEW c \in Buf, NEW d \in Buf, next'[c] = d
               PROVE  /\ life'[c] # "unborn" /\ life'[d] = "alive"
                      /\ \A e \in Buf : next'[e] = d => e = c
                      /\ \A a \in Buf : (<<a, d>> \in older' /\ a # c)
                                           => <<a, c>> \in older'
    BY DEF LinksSound, Alive
  <2>1. c # b /\ next[c] = d
    BY <1>3, BufAssumption
  <2>2. d # b /\ (dies => d # s)
    BY <1>1, <1>3, <1>2, <1>4, <2>1 DEF LinksSound, Alive
  <2> QED
    BY <1>3, <2>1, <2>2, BufAssumption DEF LinksSound, Alive
<1>10. NewestSound'
  BY <1>1, <1>2, <1>3, BufAssumption DEF NewestSound, Alive
<1>11. PrevSound'
  <2>1. CASE prev = b
    BY <1>3, <1>6, <2>1, BufAssumption DEF PrevSound, Alive
  <2>2. CASE prev # b
    <3>1. prev # NoBuf => prev \in Buf
      OBVIOUS
    <3>2. prev' # NoBuf => /\ life'[prev] # "unborn" /\ next'[prev] = NoBuf
                           /\ \A a \in Buf : (life'[a] # "unborn" /\ a # prev /\ a # newest)
                                  => <<a, prev>> \in older'
      BY <1>3, <1>2, <2>2, <3>1 DEF PrevSound, Alive
    <3>3. prev' = NoBuf => \A a \in Buf : life'[a] = "alive" => a = newest
      BY <1>3, <2>2 DEF PrevSound, Alive
    <3> QED
      BY <1>3, <2>2, <3>2, <3>3 DEF PrevSound, Alive
  <2> QED
    BY <2>1, <2>2
<1>12. PinnedSound'
  BY <1>1, <1>3, <1>7 DEF PinnedSound, Alive
<1>13. FollowersOwned'
  <2> SUFFICES ASSUME NEW a \in Buf, NEW d \in Buf,
                      <<a, d>> \in older', life'[a] = "alive", d # newest
               PROVE  \E c \in Buf : next'[c] = d /\ life'[c] = "alive"
    BY <1>3 DEF FollowersOwned, Alive
  <2>1. <<a, d>> \in older /\ Alive(a) /\ a # b /\ (dies => a # s)
    BY <1>3, <1>2 DEF Alive
  <2>2. \E c \in Buf : next[c] = d /\ Alive(c) /\ (dies => c # s)
    <3>1. CASE dies
      BY <1>2, <1>5, <2>1, <3>1, ExpiryKeepsOwners
    <3>2. CASE ~dies
      BY <2>1, <3>2 DEF FollowersOwned
    <3> QED
      BY <3>1, <3>2
  <2> QED
    BY <1>1, <1>3, <2>2 DEF Alive
<1>14. OlderDieFirst'
  BY <1>3, <1>5 DEF OlderDieFirst, Alive, Dying
<1> QED
  BY <1>8, <1>9, <1>10, <1>11, <1>12, <1>13, <1>14

LEMMA FifoStep == FifoInv /\ [Next]_vars => FifoInv'
<1> SUFFICES ASSUME FifoInv, [Next]_vars
             PROVE  FifoInv'
  OBVIOUS
<1>1. TypeOK'
  BY TypeStep DEF FifoInv
<1>2. ASSUME NEW n \in Requests, AllocFails(n)
      PROVE  FifoInv'
  BY <1>1, <1>2 DEF AllocFails, chain, ghost, FifoInv, OlderExist, UsedAlive, LinksSound,
       NewestSound, PrevSound, PinnedSound, FollowersOwned, OlderDieFirst, Alive, Dying
<1>3. CASE UNCHANGED vars
  BY <1>1, <1>3 DEF vars, chain, ghost, FifoInv, OlderExist, UsedAlive, LinksSound,
       NewestSound, PrevSound, PinnedSound, FollowersOwned, OlderDieFirst, Alive, Dying
<1> QED
  BY <1>1, <1>2, <1>3, FifoAllocBegin, FifoAllocEnd, FifoRelease, FifoDestructor, FifoLeave
     DEF Next, Alloc, Destroy

(* Buffers are destroyed in the order of their allocation, whichever       *)
(* threads drop them and in whatever order (~Buffer, alloc): no ~Buffer    *)
(* begins before that of every older Buffer has begun, for any number of   *)
(* Buffers and any size of the ring.                                       *)
THEOREM FifoDestructionHolds == Spec => []FifoDestruction
<1>1. FifoInv => FifoDestruction
  BY DEF FifoInv, FifoDestruction, OlderExist, OlderDieFirst, OlderThan,
         Alive, Dying, TypeOK, Stage
<1> QED
  BY FifoInit, FifoStep, <1>1, PTL DEF Spec

(***************************************************************************)
(* Where the Buffers lie                                                   *)
(*                                                                         *)
(* Words are ordered by their distance behind i1.  The Buffers that are    *)
(* still to be freed follow each other in the order of their allocation,   *)
(* none begins before the cursor of an older one, and all end before i0    *)
(* (LayoutInv).  A free moves i1 to the cursor of the oldest of them,      *)
(* which by FifoInv leaves no Buffer in use behind.                        *)
(***************************************************************************)
(* Positions 0 and Size are the same place; only Size is used.             *)
Position == 1 .. Size

(* How far p is behind i in the ring, where i itself is a whole ring away. *)
Gap(i, p) == IF p > i THEN p - i ELSE p - i + Size

(* The words in use are those up to Filled behind i1.                      *)
Empty  == i0 = i1 /\ hasSpace
Filled == IF Empty THEN 0 ELSE Gap(i1, i0)

Exists(b)  == life[b] # "unborn"
Unfreed(b) == life[b] \in {"alive", "expired", "freeing"}
Pending(b) == Unfreed(b) /\ b \notin overtaken
EndOf(b)   == Gap(i1, place[b].cursor)

(* The history orders the Buffers that exist, and links follow it.         *)
OlderOrder ==
    \A a, b \in Buf : (Exists(a) /\ Exists(b) /\ a # b) =>
        /\ <<a, b>> \in older \/ <<b, a>> \in older
        /\ ~(<<a, b>> \in older /\ <<b, a>> \in older)
LinksOlder == \A a, b \in Buf : next[a] = b => <<a, b>> \in older
OvertakenDying == \A b \in overtaken : Dying(b)

(* In the smallest rings every grant begins at the start.                  *)
Positions ==
    /\ i0 \in Position /\ i1 \in Position
    /\ \A b \in Buf : Exists(b) => place[b].cursor \in Position
    /\ Size <= 4 => i0 >= 3

WithinFilled ==
    \A b \in Buf : Pending(b) =>
        /\ EndOf(b) <= Filled
        /\ \A w \in Region(b) : Gap(i1, w + 1) <= EndOf(b)

InOrder ==
    \A a, b \in Buf : (Pending(a) /\ Pending(b) /\ <<a, b>> \in older) =>
        /\ EndOf(a) < EndOf(b)
        /\ \A w \in Region(b) : EndOf(a) < Gap(i1, w + 1)

(* The youngest Buffer ends at i0 and will be freed.                       *)
IsYoungest(y) ==
    /\ Unfreed(y) /\ place[y].cursor = i0
    /\ \A a \in Buf : (Exists(a) /\ a # y) => <<a, y>> \in older
YoungestAtEnd == ~Empty => \E y \in Buf : IsYoungest(y)

FailedNotEmpty == failedAlloc => ~Empty

LayoutInv ==
    /\ FifoInv /\ OlderOrder /\ LinksOlder /\ OvertakenDying /\ Positions
    /\ ~late => WithinFilled /\ InOrder /\ YoungestAtEnd /\ FailedNotEmpty

-----------------------------------------------------------------------------
(* Arithmetic of the ring.                                                 *)
LEMMA GapBounds ==
    ASSUME NEW i \in Position, NEW p \in Position
    PROVE  /\ Gap(i, p) \in 1 .. Size
           /\ Gap(i, p) = Size <=> p = i
  BY SizeAssumption DEF Gap, Position

LEMMA GapInjective ==
    ASSUME NEW i \in Position, NEW p \in Position, NEW q \in Position,
           Gap(i, p) = Gap(i, q)
    PROVE  p = q
  BY SizeAssumption DEF Gap, Position

(* What lies behind j keeps its order when j takes the place of i.         *)
LEMMA GapShift ==
    ASSUME NEW i \in Position, NEW j \in Position, NEW p \in Position,
           Gap(i, j) < Gap(i, p)
    PROVE  Gap(j, p) = Gap(i, p) - Gap(i, j)
  BY SizeAssumption DEF Gap, Position

(* A part is large enough to hold something, and odd requests get an odd   *)
(* number of words.                                                        *)
LEMMA PartLenParts ==
    ASSUME NEW n \in Nat, NEW max \in Nat
    PROVE  /\ PartLen(n, max) = 0 \/ PartLen(n, max) >= 2
           /\ n % 2 = 1 => PartLen(n, max) = 0 \/ PartLen(n, max) >= 3
           /\ (n % 2 = 1 /\ n >= 3 /\ max >= 3) => PartLen(n, max) > 0
  <1> DEFINE m == IF n > max THEN max ELSE n
             len == IF m % 2 # n % 2 THEN m - 1 ELSE m
  <1>1. m \in Nat /\ (n >= 3 /\ max >= 3 => m >= 3)
    OBVIOUS
  <1>2. PartLen(n, max) = IF len < 2 THEN 0 ELSE len
    BY DEF PartLen
  <1> HIDE DEF m
  <1>3. len \in Int /\ (len = m \/ len = m - 1)
    BY <1>1
  <1>4. n % 2 = 1 => len % 2 = 1
    BY <1>1
  <1> HIDE DEF len
  <1>5. PartLen(n, max) = 0 \/ PartLen(n, max) >= 2
    BY <1>2, <1>3
  <1>6. len % 2 = 1 => len # 2
    OBVIOUS
  <1>7. n % 2 = 1 => PartLen(n, max) = 0 \/ PartLen(n, max) >= 3
    BY <1>2, <1>3, <1>4, <1>6
  <1>8. (n % 2 = 1 /\ n >= 3 /\ max >= 3) => PartLen(n, max) > 0
    BY <1>1, <1>2, <1>3
  <1> QED
    BY <1>5, <1>7, <1>8

(* The parts of a grant lie in the free part of the ring.                  *)
LEMMA GrantParts ==
    ASSUME i0 \in Position, i1 \in Position, NEW n \in Requests
    PROVE  /\ AheadLen(n) \in Nat /\ BehindLen(n) \in Nat
           /\ AheadLen(n) = 0 \/ AheadLen(n) >= 3
           /\ BehindLen(n) = 0 \/ BehindLen(n) >= 2
           /\ AheadLen(n) = 0 => BehindLen(n) = 0 \/ BehindLen(n) >= 3
           /\ i0 < i1 => i0 + AheadLen(n) <= i1 /\ BehindLen(n) = 0
           /\ ~(i0 < i1) => i0 + AheadLen(n) <= Size /\ BehindLen(n) <= i1
  <1>1. n \in Nat /\ n >= 3 /\ n % 2 = 1
    BY RequestsAssumption
  <1>2. i0 \in Nat /\ i1 \in Nat /\ i0 <= Size /\ i1 <= Size /\ Size \in Nat
    BY SizeAssumption DEF Position
  <1>3. CASE i0 < i1
    <2>1. i1 - i0 \in Nat
      BY <1>2, <1>3
    <2>2. AheadLen(n) = PartLen(n, i1 - i0) /\ BehindLen(n) = 0
      BY <1>3 DEF AheadLen, BehindLen
    <2>3. /\ AheadLen(n) \in Nat /\ AheadLen(n) <= i1 - i0
          /\ AheadLen(n) = 0 \/ AheadLen(n) >= 3
      BY <1>1, <2>1, <2>2, PartLenBounds, PartLenParts
    <2> QED
      BY <1>2, <1>3, <2>2, <2>3
  <1>4. CASE ~(i0 < i1)
    <2>1. Size - i0 \in Nat
      BY <1>2
    <2>2. AheadLen(n) = PartLen(n, Size - i0)
      BY <1>4 DEF AheadLen
    <2>3. /\ AheadLen(n) \in Nat /\ AheadLen(n) <= Size - i0 /\ AheadLen(n) <= n
          /\ AheadLen(n) = 0 \/ AheadLen(n) >= 3
      BY <1>1, <2>1, <2>2, PartLenBounds, PartLenParts
    <2>4. n - AheadLen(n) \in Nat
      BY <1>1, <2>3
    <2>5. BehindLen(n) = PartLen(n - AheadLen(n), i1)
      BY <1>4 DEF BehindLen
    <2>6. /\ BehindLen(n) \in Nat /\ BehindLen(n) <= i1
          /\ BehindLen(n) = 0 \/ BehindLen(n) >= 2
      BY <1>2, <2>4, <2>5, PartLenBounds, PartLenParts
    <2>7. AheadLen(n) = 0 => BehindLen(n) = 0 \/ BehindLen(n) >= 3
      <3> SUFFICES ASSUME AheadLen(n) = 0
                   PROVE  BehindLen(n) = 0 \/ BehindLen(n) >= 3
        OBVIOUS
      <3>1. BehindLen(n) = PartLen(n, i1)
        BY <1>1, <2>5
      <3> QED
        BY <1>1, <1>2, <3>1, PartLenParts
    <2> QED
      BY <1>2, <1>4, <2>3, <2>6, <2>7
  <1> QED
    BY <1>3, <1>4

LEMMA WordsAt == \A i, j : Words([from |-> i, to |-> j]) = i .. j - 1
  BY DEF Words

(* A grant lies behind everything in use and ends at its cursor.           *)
LEMMA GrantLayout ==
    ASSUME i0 \in Position, i1 \in Position, NEW n \in Requests, CanGrant(n)
    PROVE  /\ Grant(n).cursor \in Position
           /\ Size <= 4 /\ i0 >= 3 => Grant(n).cursor >= 3
           /\ Filled < Gap(i1, Grant(n).cursor)
           /\ \A w \in Words(Grant(n).first) \cup Words(Grant(n).second) :
                 /\ w + 1 \in Position
                 /\ Filled < Gap(i1, w + 1)
                 /\ Gap(i1, w + 1) <= Gap(i1, Grant(n).cursor)
  <1> DEFINE A == AheadLen(n)
             B == BehindLen(n)
  <1>1. /\ A \in Nat /\ B \in Nat
        /\ A = 0 \/ A >= 3
        /\ B = 0 \/ B >= 2
        /\ A = 0 => B = 0 \/ B >= 3
        /\ i0 < i1 => i0 + A <= i1 /\ B = 0
        /\ ~(i0 < i1) => i0 + A <= Size /\ B <= i1
    BY GrantParts
  <1>2. (i0 < i1 \/ hasSpace) /\ (A > 0 \/ B > 0)
    BY DEF CanGrant
  <1> HIDE DEF A, B
  <1>3. CASE A > 0 /\ B > 0
    <2>1. Grant(n) = [first |-> SpanAt(i0, A), second |-> SpanAt(0, B), cursor |-> B]
      BY <1>3 DEF Grant, A, B
    <2>2. /\ Grant(n).cursor = B
          /\ Words(Grant(n).first) = i0 .. i0 + A - 1
          /\ Words(Grant(n).second) = 0 .. 0 + B - 1
      BY <1>1, <2>1, WordsAt, SizeAssumption DEF Position, SpanAt
    <2> QED
      BY <1>1, <1>2, <1>3, <2>2, SizeAssumption DEF Gap, Position, Filled, Empty
  <1>4. CASE A > 0 /\ B = 0
    <2>1. Grant(n) = [first |-> SpanAt(i0, A), second |-> NoSpan, cursor |-> i0 + A]
      BY <1>1, <1>4 DEF Grant, A, B
    <2>2. /\ Grant(n).cursor = i0 + A
          /\ Words(Grant(n).first) = i0 .. i0 + A - 1
          /\ Words(Grant(n).second) = 0 .. 0 - 1
      BY <1>1, <2>1, WordsAt, SizeAssumption DEF Position, SpanAt, NoSpan
    <2> QED
      BY <1>1, <1>2, <1>4, <2>2, SizeAssumption DEF Gap, Position, Filled, Empty
  <1>5. CASE A = 0 /\ B > 0
    <2>1. Grant(n) = [first |-> SpanAt(0, B), second |-> NoSpan, cursor |-> B]
      BY <1>1, <1>5 DEF Grant, A, B
    <2>2. /\ Grant(n).cursor = B
          /\ Words(Grant(n).first) = 0 .. 0 + B - 1
          /\ Words(Grant(n).second) = 0 .. 0 - 1
      BY <1>1, <2>1, WordsAt, SizeAssumption DEF Position, SpanAt, NoSpan
    <2> QED
      BY <1>1, <1>2, <1>5, <2>2, SizeAssumption DEF Gap, Position, Filled, Empty
  <1> QED
    BY <1>1, <1>2, <1>3, <1>4, <1>5

-----------------------------------------------------------------------------
LEMMA LayoutInit == Init => LayoutInv
  <1> SUFFICES ASSUME Init PROVE LayoutInv
    OBVIOUS
  <1>1. FifoInv
    BY FifoInit
  <1>2. \A b \in Buf : life[b] = "unborn" /\ next[b] = NoBuf
    BY DEF Init
  <1>3. OlderOrder /\ LinksOlder /\ OvertakenDying
    BY <1>2, BufAssumption DEF Init, OlderOrder, LinksOlder, OvertakenDying, Exists
  <1>4. Positions
    BY <1>2, SizeAssumption DEF Init, Positions, Position, Exists
  <1>5. WithinFilled /\ InOrder
    BY <1>2 DEF WithinFilled, InOrder, Pending, Unfreed
  <1>6. YoungestAtEnd /\ FailedNotEmpty
    BY DEF Init, YoungestAtEnd, FailedNotEmpty, Empty
  <1> QED
    BY <1>1, <1>3, <1>4, <1>5, <1>6 DEF LayoutInv

(* The words of a Buffer lie in the ring.                                  *)
LEMMA RegionInRing ==
    ASSUME TypeOK, NEW b \in Buf
    PROVE  \A w \in Region(b) : w + 1 \in Position
  <1>1. place[b] \in Place
    BY DEF TypeOK
  <1> QED
    BY <1>1, SizeAssumption DEF Region, Words, Place, Span, Index, Position

(* A Buffer that exists is unfreed or leaving.                             *)
LEMMA StagesOf ==
    ASSUME TypeOK, NEW b \in Buf
    PROVE  /\ Exists(b) <=> Unfreed(b) \/ life[b] = "leaving"
           /\ Exists(b) <=> Alive(b) \/ Dying(b)
  <1>1. life[b] \in {"unborn", "alive", "expired", "freeing", "leaving"}
    BY DEF TypeOK, Stage
  <1> QED
    BY <1>1 DEF Exists, Unfreed, Alive, Dying

(* Steps that change neither the ring nor the places of Buffers keep the   *)
(* layout, if no Buffer comes or goes and the youngest is still to be      *)
(* freed.                                                                  *)
LEMMA LayoutOfOthers ==
    ASSUME LayoutInv, FifoInv', LinksOlder',
           UNCHANGED <<i0, i1, hasSpace, place, older, overtaken, late>>,
           ~late => (failedAlloc' => ~Empty),
           \A b \in Buf : /\ Exists(b)' <=> Exists(b)
                          /\ Unfreed(b)' => Unfreed(b)
                          /\ Dying(b) => Dying(b)'
                          /\ IsYoungest(b) => Unfreed(b)'
    PROVE  LayoutInv'
  <1>1. OlderOrder' /\ OvertakenDying'
    <2>1. OlderOrder'
      BY DEF LayoutInv, OlderOrder
    <2>2. \A b \in overtaken : b \in Buf
      BY DEF LayoutInv, FifoInv, TypeOK
    <2> QED
      BY <2>1, <2>2 DEF LayoutInv, OvertakenDying
  <1>2. Positions'
    BY DEF LayoutInv, Positions
  <1>3. Filled' = Filled /\ (Empty' <=> Empty)
    BY DEF Filled, Empty
  <1>4. \A b \in Buf : /\ Pending(b)' => Pending(b)
                       /\ EndOf(b)' = EndOf(b)
                       /\ Region(b)' = Region(b)
    BY DEF Pending, EndOf, Region
  <1>5. \A w : Gap(i1, w)' = Gap(i1, w)
    BY DEF Gap
  <1>6. \A y \in Buf : IsYoungest(y) => IsYoungest(y)'
    BY DEF IsYoungest
  <1>7. ASSUME ~late
        PROVE  WithinFilled' /\ InOrder' /\ YoungestAtEnd' /\ FailedNotEmpty'
    <2>1. WithinFilled /\ InOrder /\ YoungestAtEnd
      BY <1>7 DEF LayoutInv
    <2>2. WithinFilled'
      BY <2>1, <1>3, <1>4 DEF WithinFilled
    <2>3. InOrder'
      BY <2>1, <1>4 DEF InOrder
    <2>4. YoungestAtEnd'
      BY <2>1, <1>3, <1>6 DEF YoungestAtEnd
    <2>5. FailedNotEmpty'
      BY <1>3, <1>7 DEF FailedNotEmpty
    <2> QED
      BY <2>2, <2>3, <2>4, <2>5
  <1> QED
    BY <1>1, <1>2, <1>7 DEF LayoutInv

-----------------------------------------------------------------------------
(* alloc                                                                   *)
LEMMA LayoutAllocBegin ==
    ASSUME LayoutInv, FifoInv', NEW n \in Requests, NEW b \in Buf, AllocBegin(b, n)
    PROVE  LayoutInv'
  <1>1. /\ TypeOK /\ OlderExist /\ life[b] = "unborn" /\ CanGrant(n)
        /\ i0 \in Position /\ i1 \in Position /\ (Size <= 4 => i0 >= 3)
    BY DEF LayoutInv, FifoInv, Positions, AllocBegin
  <1> DEFINE g == Grant(n)
  <1>2. /\ i0' = g.cursor /\ i1' = i1 /\ failedAlloc' = failedAlloc
        /\ hasSpace' = (g.cursor # i1)
        /\ place'[b] = g
        /\ \A a \in Buf : a # b => place'[a] = place[a]
        /\ next' = next /\ overtaken' = overtaken /\ late' = late
    BY <1>1 DEF AllocBegin, TypeOK
  <1>3. /\ \A a \in Buf : life'[a] = IF a = b THEN "alive" ELSE life[a]
        /\ \A a, c \in Buf : <<a, c>> \in older' <=>
              <<a, c>> \in older \/ (c = b /\ Exists(a))
    BY <1>1 DEF AllocBegin, TypeOK, Exists
  <1>4. /\ g.cursor \in Position
        /\ Size <= 4 => g.cursor >= 3
        /\ Filled < Gap(i1, g.cursor)
        /\ \A w \in Words(g.first) \cup Words(g.second) :
              /\ w + 1 \in Position
              /\ Filled < Gap(i1, w + 1)
              /\ Gap(i1, w + 1) <= Gap(i1, g.cursor)
    BY <1>1, GrantLayout
  <1> HIDE DEF g
  <1>5. \A a \in Buf : <<a, b>> \notin older /\ <<b, a>> \notin older
    BY <1>1 DEF OlderExist
  <1>6. OlderOrder'
    BY <1>1, <1>3, <1>5 DEF LayoutInv, OlderOrder, Exists
  <1>7. LinksOlder'
    BY <1>2, <1>3 DEF LayoutInv, LinksOlder
  <1>8. OvertakenDying'
    BY <1>1, <1>2, <1>3 DEF LayoutInv, OvertakenDying, Dying, TypeOK
  <1>9. Positions'
    BY <1>1, <1>2, <1>3, <1>4 DEF LayoutInv, Positions, Exists
  <1>10. b \notin overtaken
    BY <1>1 DEF LayoutInv, OvertakenDying, Dying
  <1>11. ~Empty' /\ Filled' = Gap(i1, g.cursor)
    BY <1>2 DEF Empty, Filled
  <1>12. /\ EndOf(b)' = Gap(i1, g.cursor)
         /\ Region(b)' = Words(g.first) \cup Words(g.second)
         /\ \A a \in Buf : a # b => /\ EndOf(a)' = EndOf(a)
                                    /\ Region(a)' = Region(a)
                                    /\ Pending(a)' <=> Pending(a)
    BY <1>2, <1>3 DEF EndOf, Region, Pending, Unfreed
  <1>13. /\ Filled \in Int /\ Gap(i1, g.cursor) \in Int
         /\ \A a \in Buf : a # b /\ Pending(a) => EndOf(a) \in Int
    <2>1. \A a \in Buf : Pending(a) => place[a].cursor \in Position
      BY DEF LayoutInv, Positions, Pending, Unfreed, Exists
    <2> QED
      BY <1>1, <1>4, <2>1, GapBounds DEF Filled, EndOf
  <1>14. ASSUME ~late
         PROVE  WithinFilled' /\ InOrder' /\ YoungestAtEnd' /\ FailedNotEmpty'
    <2>1. WithinFilled /\ InOrder
      BY <1>14 DEF LayoutInv
    <2>2. WithinFilled'
      <3> SUFFICES ASSUME NEW a \in Buf, Pending(a)'
                   PROVE  /\ EndOf(a)' <= Filled'
                          /\ \A w \in Region(a)' : Gap(i1, w + 1) <= EndOf(a)'
        BY <1>2 DEF WithinFilled
      <3>1. CASE a = b
        BY <1>4, <1>11, <1>12, <1>13, <3>1
      <3>2. CASE a # b
        BY <1>4, <1>11, <1>12, <1>13, <2>1, <3>2 DEF WithinFilled
      <3> QED
        BY <3>1, <3>2
    <2>3. InOrder'
      <3> SUFFICES ASSUME NEW a \in Buf, NEW c \in Buf,
                          Pending(a)', Pending(c)', <<a, c>> \in older'
                   PROVE  /\ EndOf(a)' < EndOf(c)'
                          /\ \A w \in Region(c)' : EndOf(a)' < Gap(i1, w + 1)
        BY <1>2 DEF InOrder
      <3>1. CASE c = b
        <4>1. a # b
          BY <1>1, <1>3, <1>5, <3>1 DEF Exists
        <4>2. EndOf(a) <= Filled
          BY <1>12, <2>1, <4>1 DEF WithinFilled
        <4>3. \A w \in Region(c)' : Filled < Gap(i1, w + 1) /\ Gap(i1, w + 1) \in Int
          BY <1>1, <1>4, <1>12, <3>1, GapBounds
        <4> QED
          BY <1>4, <1>12, <1>13, <3>1, <4>1, <4>2, <4>3
      <3>2. CASE c # b
        <4>1. a # b /\ <<a, c>> \in older
          BY <1>3, <1>5, <3>2
        <4> QED
          BY <1>12, <2>1, <3>2, <4>1 DEF InOrder
      <3> QED
        BY <3>1, <3>2
    <2>4. IsYoungest(b)'
      BY <1>2, <1>3 DEF IsYoungest, Unfreed, Exists
    <2> QED
      BY <1>11, <2>2, <2>3, <2>4 DEF YoungestAtEnd, FailedNotEmpty
  <1> QED
    BY <1>2, <1>6, <1>7, <1>8, <1>9, <1>14 DEF LayoutInv

(* An empty ring grants every request.                                     *)
LEMMA EmptyGrants ==
    ASSUME LayoutInv, Empty, NEW n \in Requests
    PROVE  CanGrant(n)
  <1>1. n \in Nat /\ n >= 3 /\ n % 2 = 1
    BY RequestsAssumption
  <1>2. /\ i0 \in Nat /\ i0 = i1 /\ hasSpace /\ 1 <= i0 /\ i0 <= Size
        /\ Size \in Nat /\ (Size <= 4 => i0 >= 3)
    BY SizeAssumption DEF LayoutInv, Positions, Position, Empty
  <1>3. /\ AheadLen(n) = PartLen(n, Size - i0)
        /\ BehindLen(n) = PartLen(n - AheadLen(n), i1)
    BY <1>2 DEF AheadLen, BehindLen
  <1>4. Size - i0 \in Nat /\ AheadLen(n) \in Nat
    BY <1>1, <1>2, <1>3, PartLenBounds
  <1>5. CASE Size - i0 >= 3
    BY <1>1, <1>2, <1>3, <1>4, <1>5, PartLenParts DEF CanGrant
  <1>6. CASE i0 >= 3
    <2>1. ASSUME ~(AheadLen(n) > 0) PROVE BehindLen(n) > 0
      <3>1. n - AheadLen(n) = n
        BY <1>1, <1>4, <2>1
      <3> QED
        BY <1>1, <1>2, <1>3, <1>6, <3>1, PartLenParts
    <2> QED
      BY <1>2, <2>1 DEF CanGrant
  <1>7. Size - i0 >= 3 \/ i0 >= 3
    BY <1>2
  <1> QED
    BY <1>5, <1>6, <1>7

LEMMA LayoutAllocFails ==
    ASSUME LayoutInv, FifoInv', NEW n \in Requests, AllocFails(n)
    PROVE  LayoutInv'
  <1>1. ~Empty
    BY EmptyGrants DEF AllocFails
  <1>2. LinksOlder'
    BY DEF LayoutInv, LinksOlder, AllocFails, chain, ghost
  <1>3. UNCHANGED <<i0, i1, hasSpace, life, place, older, overtaken, late>>
    BY DEF AllocFails, chain, ghost
  <1> QED
    BY <1>1, <1>2, <1>3, LayoutOfOthers DEF Exists, Unfreed, Dying, IsYoungest

LEMMA LayoutAllocEnd ==
    ASSUME LayoutInv, FifoInv', AllocEnd
    PROVE  LayoutInv'
  <1>1. FifoInv /\ TypeOK
    BY DEF LayoutInv, FifoInv
  <1>2. UNCHANGED <<i0, i1, hasSpace, failedAlloc, place, older, overtaken, late>>
    BY DEF AllocEnd, ring, ghost
  <1>3. LinksOlder'
    <2>1. CASE pinned = NoBuf
      BY <1>2, <2>1 DEF LayoutInv, LinksOlder, AllocEnd
    <2>2. CASE pinned # NoBuf
      <3>1. pinned \in Buf /\ newest \in Buf /\ Alive(pinned) /\ pinned # newest
        BY <1>1, <2>2 DEF FifoInv, TypeOK, PinnedSound, NewestSound
      <3>2. <<pinned, newest>> \in older
        BY <1>1, <3>1 DEF FifoInv, NewestSound, Alive, AllocEnd
      <3>3. \A a \in Buf : next'[a] = IF a = pinned THEN newest ELSE next[a]
        BY <1>1, <2>2, <3>1 DEF AllocEnd, TypeOK
      <3> QED
        BY <1>2, <3>2, <3>3 DEF LayoutInv, LinksOlder
    <2> QED
      BY <2>1, <2>2
  <1>4. \A b \in Buf : \/ life'[b] = life[b]
                       \/ life[b] = "alive" /\ life'[b] = "expired"
    BY <1>1 DEF FifoInv, TypeOK, PinnedSound, Alive, AllocEnd
  <1>5. \A b \in Buf : /\ Exists(b)' <=> Exists(b)
                       /\ Unfreed(b)' => Unfreed(b)
                       /\ Dying(b) => Dying(b)'
                       /\ IsYoungest(b) => Unfreed(b)'
    BY <1>4 DEF Exists, Unfreed, Dying, IsYoungest
  <1> QED
    BY <1>2, <1>3, <1>5, LayoutOfOthers DEF LayoutInv, FailedNotEmpty

(***************************************************************************)
(* Release and ~Buffer                                                     *)
(***************************************************************************)
LEMMA LayoutRelease ==
    ASSUME LayoutInv, FifoInv', NEW b \in Buf, Release(b)
    PROVE  LayoutInv'
  <1>1. TypeOK /\ UsedAlive
    BY DEF LayoutInv, FifoInv
  <1>2. UNCHANGED <<i0, i1, hasSpace, failedAlloc, next, place, older, overtaken, late>>
    BY DEF Release, ring, ghost
  <1>3. \A a \in Buf : \/ life'[a] = life[a]
                       \/ life[a] = "alive" /\ life'[a] = "expired"
    BY <1>1 DEF TypeOK, UsedAlive, Alive, Release
  <1>4. \A a \in Buf : /\ Exists(a)' <=> Exists(a)
                       /\ Unfreed(a)' => Unfreed(a)
                       /\ Dying(a) => Dying(a)'
                       /\ IsYoungest(a) => Unfreed(a)'
    BY <1>3 DEF Exists, Unfreed, Dying, IsYoungest
  <1>5. LinksOlder'
    BY <1>2 DEF LayoutInv, LinksOlder
  <1> QED
    BY <1>2, <1>4, <1>5, LayoutOfOthers DEF LayoutInv, FailedNotEmpty

(* The youngest Buffer has no successor, so that its destructor frees.     *)
LEMMA YoungestFrees ==
    ASSUME LayoutInv, NEW y \in Buf, IsYoungest(y)
    PROVE  LooksLast(y)
  <1> SUFFICES ASSUME next[y] # NoBuf PROVE FALSE
    BY DEF LooksLast
  <1> DEFINE b == next[y]
  <1>1. b \in Buf /\ <<y, b>> \in older
    BY DEF LayoutInv, FifoInv, TypeOK, LinksOlder
  <1>2. b # y /\ Exists(b) /\ Exists(y)
    BY <1>1 DEF LayoutInv, FifoInv, OlderExist, Exists
  <1>3. <<b, y>> \in older
    BY <1>1, <1>2 DEF IsYoungest
  <1> QED
    BY <1>1, <1>2, <1>3 DEF LayoutInv, OlderOrder

LEMMA LayoutDecideFree ==
    ASSUME LayoutInv, FifoInv', NEW b \in Buf, DecideFree(b)
    PROVE  LayoutInv'
  <1>1. TypeOK
    BY DEF LayoutInv, FifoInv
  <1>2. UNCHANGED <<i0, i1, hasSpace, failedAlloc, next, place, older, overtaken, late>>
    BY DEF DecideFree, ring, ghost
  <1>3. /\ life[b] = "expired"
        /\ \A a \in Buf : life'[a] = IF a = b
                                     THEN IF LooksLast(b) THEN "freeing" ELSE "leaving"
                                     ELSE life[a]
    BY <1>1 DEF TypeOK, DecideFree
  <1>4. \A a \in Buf : /\ Exists(a)' <=> Exists(a)
                       /\ Unfreed(a)' => Unfreed(a)
                       /\ Dying(a) => Dying(a)'
    BY <1>3 DEF Exists, Unfreed, Dying
  <1>5. \A y \in Buf : IsYoungest(y) => Unfreed(y)'
    <2>1. IsYoungest(b) => Unfreed(b)'
      BY <1>3, YoungestFrees DEF Unfreed
    <2>2. \A y \in Buf : y # b /\ IsYoungest(y) => Unfreed(y)'
      BY <1>3 DEF IsYoungest, Unfreed
    <2> QED
      BY <2>1, <2>2
  <1>6. LinksOlder'
    BY <1>2 DEF LayoutInv, LinksOlder
  <1> QED
    BY <1>2, <1>4, <1>5, <1>6, LayoutOfOthers DEF LayoutInv, FailedNotEmpty

(* The distances behind i1 all shrink by the end of the freed Buffer.      *)
LEMMA LayoutFree ==
    ASSUME LayoutInv, FifoInv', NEW b \in Buf, Free(b)
    PROVE  LayoutInv'
  <1>1. TypeOK /\ OlderExist /\ OlderDieFirst /\ life[b] = "freeing"
    BY DEF LayoutInv, FifoInv, Free
  <1> DEFINE c == place[b].cursor
  <1>2. /\ i0' = i0 /\ i1' = c /\ failedAlloc' = FALSE
        /\ hasSpace' = (hasSpace \/ i0 = c)
        /\ UNCHANGED <<next, place, older>>
        /\ late' = (late \/ b \in overtaken)
        /\ \A a \in Buf : a \in overtaken' <=>
              a \in overtaken \/ (<<a, b>> \in older /\ life[a] \in {"expired", "freeing"})
    BY DEF Free, OlderThan
  <1>3. \A a \in Buf : life'[a] = IF a = b THEN "leaving" ELSE life[a]
    BY <1>1 DEF TypeOK, Free
  <1>4. /\ i0 \in Position /\ i1 \in Position /\ c \in Position
        /\ \A a \in Buf : Exists(a) => place[a].cursor \in Position
    BY <1>1 DEF LayoutInv, Positions, Exists
  <1> HIDE DEF c
  <1>5. \A a \in Buf : Exists(a)' <=> Exists(a)
    BY <1>1, <1>3 DEF Exists
  <1>6. OlderOrder' /\ LinksOlder'
    BY <1>2, <1>5 DEF LayoutInv, OlderOrder, LinksOlder
  <1>7. OvertakenDying'
    <2>1. overtaken' \subseteq Buf
      BY DEF FifoInv, TypeOK
    <2> QED
      BY <1>2, <1>3, <2>1 DEF LayoutInv, OvertakenDying, Dying
  <1>8. Positions'
    BY <1>2, <1>4, <1>5 DEF LayoutInv, Positions
  <1>9. ASSUME ~late'
        PROVE  WithinFilled' /\ InOrder' /\ YoungestAtEnd' /\ FailedNotEmpty'
    <2>1. /\ WithinFilled /\ InOrder /\ YoungestAtEnd
          /\ Pending(b)
      BY <1>1, <1>2, <1>9 DEF LayoutInv, Pending, Unfreed
    <2>2. EndOf(b) = Gap(i1, c) /\ EndOf(b) \in 1 .. Size /\ EndOf(b) <= Filled
      BY <1>4, <2>1, GapBounds DEF EndOf, c, WithinFilled
    <2>3. ~Empty /\ Filled = Gap(i1, i0) /\ Filled \in 1 .. Size
      BY <1>4, <2>2, GapBounds DEF Filled
    <2>4. ASSUME NEW a \in Buf, Pending(a)'
          PROVE  Pending(a) /\ Exists(a) /\ a # b /\ <<b, a>> \in older
      <3>1. a # b /\ Unfreed(a) /\ a \notin overtaken
        BY <1>2, <1>3, <2>4 DEF Pending, Unfreed
      <3>2. <<a, b>> \notin older
        <4> SUFFICES ASSUME <<a, b>> \in older PROVE FALSE
          OBVIOUS
        <4>1. ~Alive(a)
          BY <1>1 DEF OlderDieFirst, Dying
        <4>2. life[a] \in {"expired", "freeing"}
          BY <3>1, <4>1 DEF Unfreed, Alive
        <4>3. a \in overtaken'
          BY <1>2, <4>2
        <4> QED
          BY <2>4, <4>3 DEF Pending
      <3>3. Exists(a) /\ Exists(b)
        BY <1>1, <3>1 DEF Exists, Unfreed
      <3> QED
        BY <3>1, <3>2, <3>3 DEF LayoutInv, OlderOrder, Pending
    <2>5. ASSUME NEW a \in Buf, Pending(a)'
          PROVE  /\ EndOf(b) < EndOf(a)
                 /\ EndOf(a) \in 1 .. Size
                 /\ EndOf(a)' = EndOf(a) - EndOf(b)
                 /\ \A w \in Region(a) : Gap(c, w + 1) = Gap(i1, w + 1) - EndOf(b)
      <3>1. Pending(a) /\ <<b, a>> \in older /\ place[a].cursor \in Position
        BY <1>4, <2>4, <2>5
      <3>2. EndOf(b) < EndOf(a) /\ \A w \in Region(a) : EndOf(b) < Gap(i1, w + 1)
        BY <2>1, <3>1 DEF InOrder
      <3>3. EndOf(a) \in 1 .. Size
        BY <1>4, <3>1, GapBounds DEF EndOf
      <3>4. EndOf(a) = Gap(i1, place[a].cursor) /\ EndOf(a)' = Gap(c, place[a].cursor)
        BY <1>2 DEF EndOf
      <3>5. EndOf(a)' = EndOf(a) - EndOf(b)
        BY <1>4, <2>2, <3>1, <3>2, <3>4, GapShift
      <3>6. \A w \in Region(a) : Gap(c, w + 1) = Gap(i1, w + 1) - EndOf(b)
        BY <1>1, <1>4, <2>2, <3>2, RegionInRing, GapShift
      <3> QED
        BY <3>2, <3>3, <3>5, <3>6
    <2>6. ASSUME NEW a \in Buf, Pending(a)'
          PROVE  Filled' = Filled - EndOf(b)
      <3>1. EndOf(b) < Filled
        <4>1. EndOf(a) <= Filled
          BY <2>1, <2>4, <2>6 DEF WithinFilled
        <4> QED
          BY <2>2, <2>3, <2>5, <2>6, <4>1
      <3>2. i0 # c
        BY <2>2, <2>3, <3>1
      <3>3. Gap(c, i0) = Filled - EndOf(b)
        BY <1>4, <2>2, <2>3, <3>1, GapShift
      <3>4. Filled' = Gap(c, i0)
        BY <1>2, <3>2 DEF Filled, Empty
      <3> QED
        BY <3>3, <3>4
    <2>7. \A a \in Buf : Region(a)' = Region(a)
      BY <1>2 DEF Region
    <2>8. \A a \in Buf : \A w \in Region(a) : Gap(i1, w + 1) \in 1 .. Size
      BY <1>1, <1>4, RegionInRing, GapBounds
    <2>9. WithinFilled'
      <3> SUFFICES ASSUME NEW a \in Buf, Pending(a)'
                   PROVE  /\ EndOf(a)' <= Filled'
                          /\ \A w \in Region(a) : Gap(c, w + 1) <= EndOf(a)'
        BY <1>2, <2>7 DEF WithinFilled
      <3>1. /\ EndOf(a) <= Filled
            /\ \A w \in Region(a) : Gap(i1, w + 1) <= EndOf(a)
        BY <2>1, <2>4 DEF WithinFilled
      <3>2. EndOf(a)' <= Filled'
        BY <2>2, <2>3, <2>5, <2>6, <3>1
      <3>3. ASSUME NEW w \in Region(a) PROVE Gap(c, w + 1) <= EndOf(a)'
        BY <2>2, <2>5, <2>8, <3>1
      <3> QED
        BY <3>2, <3>3
    <2>10. InOrder'
      <3> SUFFICES ASSUME NEW a \in Buf, NEW d \in Buf,
                          Pending(a)', Pending(d)', <<a, d>> \in older
                   PROVE  /\ EndOf(a)' < EndOf(d)'
                          /\ \A w \in Region(d) : EndOf(a)' < Gap(c, w + 1)
        BY <1>2, <2>7 DEF InOrder
      <3>1. /\ EndOf(a) < EndOf(d)
            /\ \A w \in Region(d) : EndOf(a) < Gap(i1, w + 1)
        BY <2>1, <2>4 DEF InOrder
      <3>2. EndOf(a)' < EndOf(d)'
        BY <2>2, <2>5, <3>1
      <3>3. ASSUME NEW w \in Region(d) PROVE EndOf(a)' < Gap(c, w + 1)
        BY <2>2, <2>5, <2>8, <3>1
      <3> QED
        BY <3>2, <3>3
    <2>11. YoungestAtEnd'
      <3> SUFFICES ASSUME ~Empty' PROVE \E y \in Buf : IsYoungest(y)'
        BY DEF YoungestAtEnd
      <3>1. i0 # c
        BY <1>2 DEF Empty
      <3>2. PICK y \in Buf : IsYoungest(y)
        BY <2>1, <2>3 DEF YoungestAtEnd
      <3>3. y # b
        BY <3>1, <3>2 DEF IsYoungest, c
      <3>4. IsYoungest(y)'
        BY <1>2, <1>3, <1>5, <3>2, <3>3 DEF IsYoungest, Unfreed
      <3> QED
        BY <3>4
    <2>12. FailedNotEmpty'
      BY <1>2 DEF FailedNotEmpty
    <2> QED
      BY <2>9, <2>10, <2>11, <2>12
  <1> QED
    BY <1>6, <1>7, <1>8, <1>9 DEF LayoutInv

LEMMA LayoutLeave ==
    ASSUME LayoutInv, FifoInv', NEW b \in Buf, Leave(b)
    PROVE  LayoutInv'
  <1>1. TypeOK /\ LinksSound /\ life[b] = "leaving"
    BY DEF LayoutInv, FifoInv, Leave
  <1>2. /\ UNCHANGED <<i0, i1, hasSpace, failedAlloc, late>>
        /\ \A a \in Buf : a # b => place'[a] = place[a]
        /\ \A a \in Buf : next'[a] = IF a = b THEN NoBuf ELSE next[a]
        /\ \A a, d \in Buf : <<a, d>> \in older' <=> <<a, d>> \in older /\ a # b /\ d # b
        /\ overtaken' = overtaken \ {b}
    BY <1>1 DEF Leave, ring, TypeOK
  <1>3. /\ life'[b] = "unborn"
        /\ \A a \in Buf : a # b => \/ life'[a] = life[a]
                                   \/ life[a] = "alive" /\ life'[a] = "expired"
    BY <1>1 DEF Leave, TypeOK, LinksSound, Alive
  <1>4. \A a \in Buf : /\ Exists(a)' <=> Exists(a) /\ a # b
                       /\ Unfreed(a)' <=> Unfreed(a) /\ a # b
                       /\ Dying(a) /\ a # b => Dying(a)'
    BY <1>1, <1>3 DEF Exists, Unfreed, Dying
  <1>5. OlderOrder'
    BY <1>2, <1>4 DEF LayoutInv, OlderOrder
  <1>6. LinksOlder'
    <2> SUFFICES ASSUME NEW a \in Buf, NEW d \in Buf, next'[a] = d
                 PROVE  <<a, d>> \in older'
      BY DEF LinksOlder
    <2>1. a # b /\ next[a] = d
      BY <1>2, BufAssumption
    <2>2. d # b
      BY <1>1, <2>1 DEF LinksSound, Alive
    <2> QED
      BY <1>2, <2>1, <2>2 DEF LayoutInv, LinksOlder
  <1>7. OvertakenDying'
    BY <1>1, <1>2, <1>4 DEF LayoutInv, OvertakenDying, TypeOK
  <1>8. Positions'
    BY <1>2, <1>4 DEF LayoutInv, Positions
  <1>9. Filled' = Filled /\ (Empty' <=> Empty) /\ \A w : Gap(i1, w)' = Gap(i1, w)
    BY <1>2 DEF Filled, Empty, Gap
  <1>10. \A a \in Buf : Pending(a)' => /\ Pending(a) /\ a # b
                                       /\ EndOf(a)' = EndOf(a)
                                       /\ Region(a)' = Region(a)
    BY <1>2, <1>4 DEF Pending, EndOf, Region
  <1>11. \A y \in Buf : IsYoungest(y) => IsYoungest(y)'
    BY <1>1, <1>2, <1>4 DEF IsYoungest, Unfreed
  <1>12. ASSUME ~late
         PROVE  WithinFilled' /\ InOrder' /\ YoungestAtEnd' /\ FailedNotEmpty'
    <2>1. WithinFilled /\ InOrder /\ YoungestAtEnd /\ FailedNotEmpty
      BY <1>12 DEF LayoutInv
    <2>2. WithinFilled'
      BY <2>1, <1>9, <1>10 DEF WithinFilled
    <2>3. InOrder'
      BY <2>1, <1>2, <1>9, <1>10 DEF InOrder
    <2>4. YoungestAtEnd' /\ FailedNotEmpty'
      BY <2>1, <1>2, <1>9, <1>11 DEF YoungestAtEnd, FailedNotEmpty
    <2> QED
      BY <2>2, <2>3, <2>4
  <1> QED
    BY <1>2, <1>5, <1>6, <1>7, <1>8, <1>12 DEF LayoutInv

LEMMA LayoutNext == LayoutInv /\ [Next]_vars => LayoutInv'
  <1> SUFFICES ASSUME LayoutInv, [Next]_vars
               PROVE  LayoutInv'
    OBVIOUS
  <1>1. FifoInv'
    BY FifoStep DEF LayoutInv
  <1>2. CASE UNCHANGED vars
    <2>1. LinksOlder'
      BY <1>2 DEF LayoutInv, LinksOlder, vars, chain, ghost
    <2>2. UNCHANGED <<i0, i1, hasSpace, failedAlloc, life, place, older, overtaken, late>>
      BY <1>2 DEF vars, ring, chain, ghost
    <2>3. ~late => (failedAlloc' => ~Empty)
      BY <2>2 DEF LayoutInv, FailedNotEmpty
    <2> QED
      BY <1>1, <2>1, <2>2, <2>3, LayoutOfOthers DEF Exists, Unfreed, Dying, IsYoungest
  <1> QED
    BY <1>1, <1>2, LayoutAllocBegin, LayoutAllocFails, LayoutAllocEnd, LayoutRelease,
       LayoutDecideFree, LayoutFree, LayoutLeave DEF Next, Alloc, Destroy

LEMMA LayoutHolds == Spec => []LayoutInv
  BY LayoutInit, LayoutNext, PTL DEF Spec

-----------------------------------------------------------------------------
(* Of any two Buffers in use, the older one ends where the words of the    *)
(* younger one begin, or before.                                           *)
LEMMA LayoutDisjoint == LayoutInv => UsedDisjoint
  <1> SUFFICES ASSUME LayoutInv, ~late, NEW a \in used, NEW b \in used, a # b
               PROVE  Region(a) \cap Region(b) = {}
    BY DEF UsedDisjoint
  <1>1. TypeOK /\ UsedAlive /\ OlderOrder /\ OvertakenDying /\ WithinFilled /\ InOrder
    BY DEF LayoutInv, FifoInv
  <1>2. a \in Buf /\ b \in Buf /\ Alive(a) /\ Alive(b)
    BY <1>1 DEF TypeOK, UsedAlive
  <1>3. /\ Pending(a) /\ Pending(b) /\ Exists(a) /\ Exists(b)
    BY <1>1, <1>2 DEF OvertakenDying, Pending, Unfreed, Exists, Alive, Dying
  <1>4. ASSUME NEW x \in Buf, NEW y \in Buf, Pending(x), Pending(y), <<x, y>> \in older
        PROVE  Region(x) \cap Region(y) = {}
    <2>1. \A w \in Region(x) : Gap(i1, w + 1) <= EndOf(x)
      BY <1>1, <1>4 DEF WithinFilled
    <2>2. \A w \in Region(y) : EndOf(x) < Gap(i1, w + 1)
      BY <1>1, <1>4 DEF InOrder
    <2>3. Exists(x)
      BY <1>4 DEF Pending, Unfreed, Exists
    <2>4. EndOf(x) \in Int /\ \A w \in Region(x) : Gap(i1, w + 1) \in Int
      BY <1>1, <2>3, RegionInRing, GapBounds DEF LayoutInv, Positions, EndOf
    <2> QED
      BY <2>1, <2>2, <2>4
  <1>5. <<a, b>> \in older \/ <<b, a>> \in older
    BY <1>1, <1>2, <1>3 DEF OlderOrder
  <1> QED
    BY <1>2, <1>3, <1>4, <1>5

(* No two Buffers in use share a word of the ring (alloc, ~Buffer, free),  *)
(* as long as no destructor that was overtaken has written i1.             *)
THEOREM UsedDisjointHolds == Spec => []UsedDisjoint
  BY LayoutHolds, LayoutDisjoint, PTL

(* When the last Buffer is gone, the whole ring is free and the flag says  *)
(* so, in whatever order they were dropped and although destructors leave  *)
(* freeing to their successors: the youngest never does.                   *)
THEOREM DrainedIsEmptyHolds == Spec => []DrainedIsEmpty
  <1>1. LayoutInv => DrainedIsEmpty
    BY DEF LayoutInv, YoungestAtEnd, IsYoungest, Unfreed, Empty, DrainedIsEmpty
  <1> QED
    BY LayoutHolds, <1>1, PTL

(* A failed allocation is called back: it fails only in a ring that is not *)
(* empty, whose youngest Buffer is still to be freed.                      *)
THEOREM FailureHasAFreeToComeHolds == Spec => []FailureHasAFreeToCome
  <1>1. LayoutInv => FailureHasAFreeToCome
    BY DEF LayoutInv, FailedNotEmpty, YoungestAtEnd, IsYoungest, Unfreed,
           FailureHasAFreeToCome
  <1> QED
    BY LayoutHolds, <1>1, PTL
===============================================================================
