----------------------------- MODULE BlockBody ------------------------------
(***************************************************************************)
(* How a job of a node gets its merkle root: MineJob::set_random_seed      *)
(* (mine_job.cpp) writes a seed into the first bytes of the block's body,  *)
(* looks at the body's sections (BodyView, shared/src/block/body/view.cpp) *)
(* and hashes their entries level by level.                                *)
(*                                                                         *)
(* The body comes from the node and may have any length and any counts in  *)
(* it.  Bytes are reduced to lengths and counts; a hash is reduced to what *)
(* it binds: the entries, in order, and whether the first bytes of the     *)
(* body, where the seed is, went into it.                                  *)
(***************************************************************************)
EXTENDS Integers, Sequences

CONSTANTS
    AddressSize, RewardSize, TransferSize,  \* 20, 16 and 99 bytes
    MaxBlockSize,   \* MAXBLOCKSIZE
    MaxBodySize,    \* bound: bytes of a body
    MaxCount        \* bound: counts read from a body

ASSUME BodyAssumption ==
    /\ AddressSize \in Nat \ {0} /\ RewardSize \in Nat \ {0}
    /\ TransferSize \in Nat \ {0}
    /\ MaxBlockSize \in Nat /\ MaxBodySize \in Nat /\ MaxCount \in Nat

VARIABLES
    body,   \* block.body, or NoBody before there is one
    view,   \* the BodyView, or its outcome "malformed" or "invalid"
    level,  \* the hashes of one level of the tree
    rounds  \* how often merkleRoot has gone through its loop

bodyVars == <<body, view, level, rounds>>

NoBody == [size |-> 0]
(* Lengths and the counts that the bytes hold; v2 is the newer structure.  *)
(* Four bytes have been overwritten before anything is looked at.          *)
Body == [size : 4 .. MaxBodySize, v2 : BOOLEAN,
         nAddresses : 0 .. MaxCount, nRewards : 0 .. MaxCount,
         nTransfers : 0 .. MaxCount]

(***************************************************************************)
(* BodyView::BodyView                                                      *)
(***************************************************************************)
Rejected(why) == [outcome |-> why]

(* The seed, and in the newer structure six more bytes.                    *)
SeedSize(b)    == IF b.v2 THEN 10 ELSE 4
AddressesAt(b) == SeedSize(b) + (IF b.v2 THEN 2 ELSE 4)
RewardsAt(b)   == AddressesAt(b) + b.nAddresses * AddressSize
                                 + (IF b.v2 THEN 0 ELSE 2)

Sections(b, nRewards, nTransfers, transfersAt) ==
    [outcome |-> "valid",
     nAddresses |-> b.nAddresses, nRewards |-> nRewards, nTransfers |-> nTransfers,
     addresses |-> AddressesAt(b), rewards |-> RewardsAt(b),
     transfers |-> transfersAt]

(* Faulty: the length of the transfers is only a lower bound.              *)
ViewV2AtLeast(b) ==
    LET paid == RewardsAt(b) + RewardSize
    IN  CASE b.size < AddressesAt(b) -> Rejected("malformed")
          [] b.size >= AddressesAt(b) /\ b.size < paid -> Rejected("invalid")
          [] b.size = paid -> Sections(b, 1, 0, paid)
          [] b.size \in paid + 1 .. paid + 3 -> Rejected("malformed")
          [] OTHER -> IF b.size - (paid + 4) < TransferSize * b.nTransfers
                      THEN Rejected("invalid")
                      ELSE Sections(b, 1, b.nTransfers, paid + 4)

(* The newer structure: one reward, and the transfers, which may be left   *)
(* out together with their count.  Reader throws ("malformed") where the   *)
(* constructor did not look whether there is enough left.                  *)
ViewV2(b) ==
    LET paid == RewardsAt(b) + RewardSize
    IN  CASE b.size < AddressesAt(b) -> Rejected("malformed")
          [] b.size >= AddressesAt(b) /\ b.size < paid -> Rejected("invalid")
          [] b.size = paid -> Sections(b, 1, 0, paid)
          [] b.size \in paid + 1 .. paid + 3 -> Rejected("malformed")
          [] OTHER -> IF b.size - (paid + 4) # TransferSize * b.nTransfers
                      THEN Rejected("invalid")
                      ELSE Sections(b, 1, b.nTransfers, paid + 4)

(* The older structure: counts of all three sections.                      *)
ViewV1(b) ==
    LET paid == RewardsAt(b) + b.nRewards * RewardSize
    IN  IF \/ b.size < 8
           \/ b.size < RewardsAt(b) + 2
           \/ b.size < paid + 4
           \/ b.size - (paid + 4) # TransferSize * b.nTransfers
        THEN Rejected("invalid")
        ELSE Sections(b, b.nRewards, b.nTransfers, paid + 4)

ViewOf(b) ==
    IF b.size > MaxBlockSize THEN Rejected("invalid")
    ELSE IF b.v2 THEN ViewV2(b) ELSE ViewV1(b)

(* generate_job copies the block, and its first bytes get a new seed.      *)
GenerateJob ==
    /\ body = NoBody
    /\ \E b \in Body : body' = b /\ view' = ViewOf(b)
    /\ level' = <<>> /\ rounds' = 0

(***************************************************************************)
(* BodyView::merkleRoot                                                    *)
(***************************************************************************)
Binds(entries, seeded) == [entries |-> entries, seeded |-> seeded]
Leaves(n) == [i \in 1 .. n |-> Binds(<<i>>, FALSE)]
Entries == view.nAddresses + view.nRewards + view.nTransfers

(* assert(isValid); a body of the older structure without any entry makes  *)
(* merkleRoot read the front of an empty vector, and is left out here.     *)
HashEntries ==
    /\ body # NoBody /\ view.outcome = "valid" /\ level = <<>>
    /\ Entries > 0
    /\ level' = Leaves(Entries)
    /\ UNCHANGED <<body, view, rounds>>

(* Faulty: the first bytes are hashed with a single leaf, not with the     *)
(* root (the size of the level below is looked at).                        *)
UpperSeedsLeaf(l) ==
    [i \in 1 .. (Len(l) + 1) \div 2 |->
        Binds(IF 2 * i <= Len(l) THEN l[2*i - 1].entries \o l[2*i].entries
                                 ELSE l[2*i - 1].entries, Len(l) = 1)]

(* Each hash binds two of the level below, a last one without a partner    *)
(* only that one, and the topmost the first bytes of the body too.         *)
Upper(l) ==
    LET n == (Len(l) + 1) \div 2
    IN  [i \in 1 .. n |->
            Binds(IF 2 * i <= Len(l) THEN l[2*i - 1].entries \o l[2*i].entries
                                     ELSE l[2*i - 1].entries, n = 1)]

(* The loop tests its condition at the end: a single leaf is hashed again. *)
HasRoot == rounds > 0 /\ Len(level) = 1
HashLevel ==
    /\ level # <<>> /\ ~HasRoot
    /\ level' = Upper(level) /\ rounds' = rounds + 1
    /\ UNCHANGED <<body, view>>

InitBody == body = NoBody /\ view = Rejected("none") /\ level = <<>> /\ rounds = 0
NextBody == GenerateJob \/ HashEntries \/ HashLevel

SpecBody == InitBody /\ [][NextBody]_bodyVars

(***************************************************************************)
(* Properties                                                              *)
(***************************************************************************)
(* Whatever counts a body holds, if BodyView takes it to be valid then its *)
(* sections follow each other without overlap and the last of them ends    *)
(* with the body: no entry lies beyond it, and nothing is left over behind *)
(* them.  (Between sections, where the counts are, only the order is said.)*)
BodySections ==
    view.outcome = "valid" =>
        /\ AddressesAt(body) = view.addresses
        /\ view.addresses + AddressSize * view.nAddresses <= view.rewards
        /\ view.rewards + RewardSize * view.nRewards <= view.transfers
        /\ view.transfers + TransferSize * view.nTransfers = body.size
        /\ body.size <= MaxBlockSize

(* The root binds every entry once and in order, and the seed, which no    *)
(* other hash does: jobs that differ in their seed differ in their root.   *)
RootBindsBody ==
    /\ HasRoot => level[1] = Binds([i \in 1 .. Entries |-> i], TRUE)
    /\ ~HasRoot => \A i \in DOMAIN level : ~level[i].seeded
=============================================================================
