---------------------------- MODULE ResultWords ----------------------------
(***************************************************************************)
(* The words in the ring: the GPU's read-back writes a whole Buffer when   *)
(* its kernel ends (enqueueReadBuffer in KernelRunner::try_start), and a   *)
(* worker reads the results of the Buffers it holds (JanusMinerOpt).  The  *)
(* ring itself is CyclicQueue; here every word has a value, reduced to     *)
(* whether it is zero.                                                     *)
(***************************************************************************)
EXTENDS CyclicQueue

VARIABLES
    word,     \* the value of each word of data, 0 or 1 (any non-zero value)
    results   \* the Buffers whose results MinedValues has counted (not none)

wordVars == <<word, results>>

InitWords ==
    /\ Init
    /\ word = [w \in Word |-> 0]
    /\ results = {}

(* result_spans: a worker finds the hashes in the second word of every     *)
(* pair, where the pairs of the first span begin after the counter and     *)
(* those of the second span at its beginning.                              *)
HashWords(b) ==
    LET f == place[b].first
        s == place[b].second
    IN  {w \in Words(f) : w >= f.from + 2 /\ (w - f.from) % 2 = 0}
        \cup {w \in Words(s) : (w - s.from) % 2 = 1}

(* The word of the device's result buffer that is copied to w: the first   *)
(* span receives its beginning, the second what follows.                   *)
DeviceIndex(b, w) ==
    LET f == place[b].first
        s == place[b].second
    IN  IF w \in Words(f) THEN w - f.from ELSE (f.to - f.from) + (w - s.from)

(* The kernel has ended; its counter and its pairs (nonce, hash) are       *)
(* copied, and MinedValues takes the spans of the results if there are     *)
(* any.  A counter may be zero and so may a nonce, but the kernel only     *)
(* selects hashes of at least C_CONSTANT.                                  *)
WriteBack(b) ==
    /\ b \in used /\ b \notin results
    /\ \E count, nonce \in {0, 1} :
        /\ word' = [w \in Word |->
                      IF w \notin Region(b) THEN word[w]
                      ELSE IF DeviceIndex(b, w) = 0 THEN count
                      ELSE IF DeviceIndex(b, w) % 2 = 1 THEN nonce ELSE 1]
        /\ results' = IF count = 0 THEN results ELSE results \cup {b}
    /\ UNCHANGED vars

NextWords ==
    \/ \E b \in Buf : WriteBack(b)
    \/ /\ Next
       /\ word' = word
       /\ results' = results \cap used'

SpecWords == InitWords /\ [][NextWords]_<<vars, wordVars>>

(***************************************************************************)
(* Properties                                                              *)
(***************************************************************************)
(* What a worker reads as hashStart is never zero: mine_job asserts it     *)
(* (assert(hashStart != 0)) for every result it looks at.                  *)
HashStartNonzero ==
    \A b \in results \cap used : \A w \in HashWords(b) : word[w] # 0

(* It is indeed a hash of the worker's own Buffer, whichever way the       *)
(* Buffer is split at the end of the ring and whatever other kernels write *)
(* meanwhile, as long as no overtaken ~Buffer has written i1.              *)
HashStartNonzeroInOrder == ~late => HashStartNonzero
=============================================================================
