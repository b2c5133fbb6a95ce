---------------------------- MODULE CyclicQueue ----------------------------
(***************************************************************************)
(* The ring of 32-bit words into which every GPU kernel writes its         *)
(* results and from which the CPU workers read them                        *)
(* (src/src/miner/cyclic_queue.hpp).                                       *)
(*                                                                         *)
(* KernelRunner::try_start takes the Allocator (the ring's mutex), looks   *)
(* at available() and calls alloc.  What it gets is a reference-counted    *)
(* Buffer, which travels with the mined values through the coordinator's   *)
(* events and the job queue to the workers.  Its last user drops it in any *)
(* thread and without a lock; the space is given back by ~Buffer.  Buffers *)
(* are chained: each owns its successor (next), the ring remembers the     *)
(* newest one weakly (prev).                                               *)
(*                                                                         *)
(* The steps of different threads are kept apart where the code gives up   *)
(* atomicity: between prev.lock() and l->next = res in alloc, between the  *)
(* count reaching zero and the read of next.use_count() in ~Buffer,        *)
(* between that read and free(), and between free() and the destruction of *)
(* the member next.                                                        *)
(***************************************************************************)
EXTENDS Integers

CONSTANTS
    Size,       \* number of words of the ring (entries)
    Buf,        \* identities of Buffer objects, reused after destruction
    NoBuf,      \* the null pointer
    Requests    \* the values of nElements that alloc is called with

(* The constructor asserts entries >= 3, and allocateElements asks for an  *)
(* odd number of words, one for the counter and two for each result.       *)
ASSUME SizeAssumption == Size \in Nat /\ Size >= 3
ASSUME BufAssumption == NoBuf \notin Buf
ASSUME RequestsAssumption ==
    Requests \subseteq {n \in Nat : n >= 3 /\ n % 2 = 1}

VARIABLES
    i0,          \* where the next allocation begins
    i1,          \* where the space still in use begins
    hasSpace,    \* tells an empty ring from a full one when i0 = i1
    failedAlloc, \* an allocation failed and the callback is owed
    prev,        \* the newest Buffer, a weak pointer
    pinned,      \* the Buffer alloc holds between prev.lock() and the link
    newest,      \* the Buffer whose alloc has not returned yet
    life,        \* the stage of every Buffer object
    used,        \* the Buffers some user still holds
    next,        \* the successor a Buffer owns
    place,       \* the spans and the destructCursor of a Buffer
    older,       \* history: pairs of existing Buffers, the older one first
    overtaken,   \* history: dying Buffers that a younger one's free overtook
    late         \* history: an overtaken Buffer has written i1

ring  == <<i0, i1, hasSpace, failedAlloc>>
chain == <<prev, pinned, newest, life, used, next, place>>
ghost == <<older, overtaken, late>>
vars  == <<ring, chain, ghost>>

(***************************************************************************)
(* Types                                                                   *)
(***************************************************************************)
Word  == 0 .. Size - 1
Index == 0 .. Size
Span  == [from : Index, to : Index]      \* the words from .. to - 1
Place == [first : Span, second : Span, cursor : Index]

(* Stages of a Buffer.  "expired": the count is zero and ~Buffer has       *)
(* begun; "freeing": ~Buffer decided to call free; "leaving": only the     *)
(* member next is left to be destroyed.                                    *)
Stage == {"unborn", "alive", "expired", "freeing", "leaving"}

TypeOK ==
    /\ i0 \in Index /\ i1 \in Index
    /\ hasSpace \in BOOLEAN /\ failedAlloc \in BOOLEAN
    /\ prev \in Buf \cup {NoBuf}
    /\ pinned \in Buf \cup {NoBuf}
    /\ newest \in Buf \cup {NoBuf}
    /\ life \in [Buf -> Stage]
    /\ used \in SUBSET Buf
    /\ next \in [Buf -> Buf \cup {NoBuf}]
    /\ place \in [Buf -> Place]
    /\ older \in SUBSET (Buf \X Buf)
    /\ overtaken \in SUBSET Buf
    /\ late \in BOOLEAN

NoSpan == [from |-> 0, to |-> 0]
NoPlace == [first |-> NoSpan, second |-> NoSpan, cursor |-> 0]

Init ==
    /\ i0 = Size /\ i1 = Size
    /\ hasSpace = TRUE /\ failedAlloc = FALSE
    /\ prev = NoBuf /\ pinned = NoBuf /\ newest = NoBuf
    /\ life = [b \in Buf |-> "unborn"]
    /\ used = {}
    /\ next = [b \in Buf |-> NoBuf]
    /\ place = [b \in Buf |-> NoPlace]
    /\ older = {} /\ overtaken = {} /\ late = FALSE

(***************************************************************************)
(* How much alloc can hand out                                             *)
(***************************************************************************)
(* Both round an odd number of words down to an even one.                  *)
OddAvailable(n)  == IF n < 3 THEN 0 ELSE n - (n % 2)
EvenAvailable(n) == IF n < 2 THEN 0 ELSE n - (n % 2)

Available ==
    CASE i0 < i1 -> OddAvailable(i1 - i0)
      [] i0 = i1 -> IF hasSpace THEN OddAvailable(Size) ELSE 0
      [] i0 > i1 -> IF OddAvailable(Size - i0) = 0
                    THEN OddAvailable(i1)
                    ELSE OddAvailable(Size - i0) + EvenAvailable(i1)

(* Faulty: the request is not cut to the space there is.                    *)
PartLenUnbounded(n, maxlen) == n

(* Faulty: the parity of the request is not kept.                          *)
PartLenAnyParity(n, maxlen) ==
    LET m == IF n > maxlen THEN maxlen ELSE n IN IF m < 2 THEN 0 ELSE m

(* alloc_part: at most maxlen words, of the parity of n, and none rather   *)
(* than fewer than two.                                                    *)
PartLen(n, maxlen) ==
    LET m   == IF n > maxlen THEN maxlen ELSE n
        len == IF m % 2 # n % 2 THEN m - 1 ELSE m
    IN  IF len < 2 THEN 0 ELSE len

SpanAt(j, len) == [from |-> j, to |-> j + len]

(* Faulty: the part at i0 may reach beyond i1.                             *)
AheadLenToEnd(n) == PartLen(n, Size - i0)

(* The part of a grant at i0, and the part at the beginning of the ring.   *)
AheadLen(n) == PartLen(n, IF i0 < i1 THEN i1 - i0 ELSE Size - i0)
BehindLen(n) ==
    IF i0 < i1 THEN 0 ELSE PartLen(n - AheadLen(n), i1)

(* alloc returns null when the flag says the ring is full (only looked at  *)
(* when i0 >= i1) or when neither part has room.                           *)
CanGrant(n) ==
    /\ i0 < i1 \/ hasSpace
    /\ AheadLen(n) > 0 \/ BehindLen(n) > 0

Grant(n) ==
    CASE AheadLen(n) > 0 /\ BehindLen(n) > 0 ->
            [first  |-> SpanAt(i0, AheadLen(n)),
             second |-> SpanAt(0, BehindLen(n)),
             cursor |-> BehindLen(n)]
      [] AheadLen(n) > 0 /\ BehindLen(n) = 0 ->
            [first  |-> SpanAt(i0, AheadLen(n)),
             second |-> NoSpan,
             cursor |-> i0 + AheadLen(n)]
      [] OTHER ->
            [first  |-> SpanAt(0, BehindLen(n)),
             second |-> NoSpan,
             cursor |-> BehindLen(n)]

(***************************************************************************)
(* alloc                                                                   *)
(***************************************************************************)
RingUnlocked == newest = NoBuf

(* try_start got available() > 0 and alloc finds room: the spans are taken *)
(* and prev.lock() pins the newest Buffer if it has not expired yet.       *)
AllocBegin(b, n) ==
    /\ RingUnlocked
    /\ Available > 0 /\ CanGrant(n)
    /\ life[b] = "unborn"
    /\ i0' = Grant(n).cursor
    /\ hasSpace' = (Grant(n).cursor # i1)
    /\ place' = [place EXCEPT ![b] = Grant(n)]
    /\ life' = [life EXCEPT ![b] = "alive"]
    /\ used' = used \cup {b}
    /\ newest' = b
    /\ pinned' = IF prev # NoBuf /\ life[prev] = "alive" THEN prev ELSE NoBuf
    /\ older' = older \cup ({a \in Buf : life[a] # "unborn"} \X {b})
    /\ UNCHANGED <<i1, failedAlloc, prev, next, overtaken, late>>

(* available() > 0 and yet alloc returns null.                             *)
AllocFails(n) ==
    /\ RingUnlocked
    /\ Available > 0 /\ ~CanGrant(n)
    /\ failedAlloc' = TRUE
    /\ UNCHANGED <<i0, i1, hasSpace, chain, ghost>>

(* A Buffer stays alive as long as a user, its predecessor or alloc holds  *)
(* it.                                                                     *)
Owned(b) == \E a \in Buf : life[a] # "unborn" /\ next[a] = b

(* Faulty: the new Buffer is not linked to its predecessor.                *)
AllocEndUnlinked ==
    /\ newest # NoBuf
    /\ prev' = newest /\ newest' = NoBuf /\ pinned' = NoBuf
    /\ UNCHANGED <<ring, life, used, next, place, ghost>>

(* l->next = res; prev = res; the temporary reference is dropped, and with *)
(* it the pinned Buffer if its users are gone; the ring is unlocked.       *)
AllocEnd ==
    /\ newest # NoBuf
    /\ prev' = newest
    /\ next' = IF pinned # NoBuf THEN [next EXCEPT ![pinned] = newest] ELSE next
    /\ life' = IF pinned # NoBuf /\ pinned \notin used /\ ~Owned(pinned)
               THEN [life EXCEPT ![pinned] = "expired"]
               ELSE life
    /\ newest' = NoBuf /\ pinned' = NoBuf
    /\ UNCHANGED <<ring, used, place, ghost>>

(***************************************************************************)
(* Release and ~Buffer                                                     *)
(***************************************************************************)
(* The last user of b lets go of it.                                       *)
Release(b) ==
    /\ b \in used /\ b # newest
    /\ used' = used \ {b}
    /\ life' = IF Owned(b) \/ pinned = b THEN life
               ELSE [life EXCEPT ![b] = "expired"]
    /\ UNCHANGED <<ring, prev, pinned, newest, next, place, ghost>>

(* Faulty: only a destructor that has a successor frees.                   *)
LooksLastLinked(b) ==
    next[b] # NoBuf /\ next[b] \notin used /\ next[b] # pinned

(* next.use_count() <= 1: there is no successor, or ~Buffer holds the only *)
(* reference to it.                                                        *)
LooksLast(b) ==
    \/ next[b] = NoBuf
    \/ next[b] \notin used /\ next[b] # pinned

DecideFree(b) ==
    /\ life[b] = "expired"
    /\ life' = [life EXCEPT ![b] = IF LooksLast(b) THEN "freeing" ELSE "leaving"]
    /\ UNCHANGED <<ring, prev, pinned, newest, used, next, place, ghost>>

OlderThan(b) == {a \in Buf : <<a, b>> \in older}

(* Faulty: the debt of a callback is not settled.                          *)
FreeSilently(b) ==
    /\ RingUnlocked
    /\ life[b] = "freeing"
    /\ i1' = place[b].cursor
    /\ hasSpace' = (hasSpace \/ i0 = place[b].cursor)
    /\ life' = [life EXCEPT ![b] = "leaving"]
    /\ UNCHANGED <<i0, failedAlloc, prev, pinned, newest, used, next, place, ghost>>

(* free(destructCursor), which also calls freeCallback if an allocation    *)
(* had failed.  The callback tries to start kernels, which is AllocBegin   *)
(* or AllocFails again.                                                    *)
Free(b) ==
    /\ RingUnlocked
    /\ life[b] = "freeing"
    /\ i1' = place[b].cursor
    /\ hasSpace' = (hasSpace \/ i0 = place[b].cursor)
    /\ failedAlloc' = FALSE
    /\ life' = [life EXCEPT ![b] = "leaving"]
    /\ overtaken' = overtaken \cup
                    {a \in OlderThan(b) : life[a] \in {"expired", "freeing"}}
    /\ late' = (late \/ b \in overtaken)
    /\ UNCHANGED <<i0, prev, pinned, newest, used, next, place, older>>

(* The member next is destroyed and the object is gone; the successor      *)
(* expires if nobody else holds it.                                        *)
Leave(b) ==
    /\ life[b] = "leaving"
    /\ LET s == next[b]
           orphan == s # NoBuf /\ s \notin used /\ s # pinned
       IN  life' = [a \in Buf |-> CASE a = b -> "unborn"
                                    [] a = s /\ orphan -> "expired"
                                    [] OTHER -> life[a]]
    /\ next' = [next EXCEPT ![b] = NoBuf]
    /\ prev' = IF prev = b THEN NoBuf ELSE prev
    /\ older' = older \cap ((Buf \ {b}) \X (Buf \ {b}))
    /\ place' = [place EXCEPT ![b] = NoPlace]
    /\ overtaken' = overtaken \ {b}
    /\ UNCHANGED <<ring, pinned, newest, used, late>>

Alloc == (\E b \in Buf, n \in Requests : AllocBegin(b, n))
         \/ (\E n \in Requests : AllocFails(n))

Destroy(b) == DecideFree(b) \/ Free(b) \/ Leave(b)

Next ==
    \/ Alloc
    \/ AllocEnd
    \/ \E b \in Buf : Release(b) \/ Destroy(b)

Spec == Init /\ [][Next]_vars

(* alloc returns, every user of a Buffer is done with it after a while     *)
(* (kernels complete, workers pop and mine), and destructors run to their  *)
(* end.  Nothing obliges a device to allocate.                             *)
Fairness ==
    /\ WF_vars(AllocEnd)
    /\ \A b \in Buf : WF_vars(Release(b)) /\ WF_vars(Destroy(b))

FairSpec == Spec /\ Fairness

(***************************************************************************)
(* Properties                                                              *)
(***************************************************************************)
Words(s)  == s.from .. s.to - 1
Region(b) == Words(place[b].first) \cup Words(place[b].second)

(* Two kernels never write to, and no two users ever read from, the same   *)
(* word: as long as no overtaken ~Buffer has written its cursor into i1,   *)
(* the Buffers somebody holds lie in disjoint parts of the ring.  It rests *)
(* on alloc_part's bounds, on FIFO destruction and on the decision in      *)
(* ~Buffer.                                                                *)
UsedDisjoint ==
    ~late => \A a, b \in used : a # b => Region(a) \cap Region(b) = {}

(* No space leaks: when all Buffers are gone, the whole ring is free again *)
(* and the flag knows it, whatever the order in which they were dropped    *)
(* and however many of the destructors skipped free.                       *)
DrainedIsEmpty ==
    (~late /\ \A b \in Buf : life[b] = "unborn") => (i0 = i1 /\ hasSpace)

(* alloc can only fail on a ring that available() reports as usable in one *)
(* way: the ring was filled to the last word, the oldest Buffer, which     *)
(* wrapped around the end, has been freed alone, and hasSpace is still     *)
(* FALSE although i0 > i1.  Younger Buffers then exist, so that a free,    *)
(* and with it the callback, is still to come.                             *)
FailureHasAFreeToCome ==
    (~late /\ failedAlloc) => \E b \in Buf : life[b] # "unborn"

(* A failed allocation is made up for: the callback that restarts the      *)
(* devices runs once the Buffers in use have been released.                *)
CallbackComes == (failedAlloc /\ ~late) ~> (~failedAlloc \/ late)

(* Buffers are destroyed in the order of allocation, unless ~Buffer of a   *)
(* predecessor had begun before the successor was allocated: the cursor    *)
(* written into i1 never moves behind the data of a Buffer still in use.   *)
FifoDestruction ==
    \A b \in Buf : life[b] \in {"expired", "freeing"} =>
        \A a \in OlderThan(b) : life[a] \in {"expired", "freeing", "leaving"}
=============================================================================
