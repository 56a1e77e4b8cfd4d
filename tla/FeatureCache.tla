---------------------------- MODULE FeatureCache ----------------------------
(***************************************************************************)
(* The features of the nodes (or of the edges) of a block.                 *)
(*                                                                         *)
(* gen_part_stream in feat_buffer.py goes through the stream and writes    *)
(* for each block only the rows that are neither in the block before nor   *)
(* in the bucket cache, which holds the rows of the items most used in a   *)
(* period of the stream.  During training Pre_fetch.pre_fetch puts a block *)
(* together again: rows of the file, rows of the cache, rows of negative   *)
(* samples from the store; Feat_buffer.prefetch_after fills in the rows    *)
(* that are still on the GPU.                                              *)
(*                                                                         *)
(* A feature is the item it belongs to.  Items are row numbers of the      *)
(* feature file.  Nodes and edges go through the same code, one of them is *)
(* modelled at a time (kind).                                              *)
(***************************************************************************)
EXTENDS Naturals, FiniteSets, SequencesExt

CONSTANTS
  NItems,    \* rows of the feature file
  NEdges,    \* edges of the stream
  BlockSize, \* edges of a block
  Threshold, \* threshold: edges of a period
  Budget,    \* rows of the bucket cache
  Window,    \* window_size: rows stream_extract reads at a time
  ItemSize,  \* bytes of a number in the feature file
  HisLimit,  \* his_mem_threshold, in rows
  HasEdges,  \* the dataset has edge features
  Contents,  \* items of each block
  Negatives, \* items the negative samples of a block add
  Zeros, Junk

Items   == 0 .. NItems - 1
NBlocks == (NEdges + BlockSize - 1) \div BlockSize
Blocks  == 0 .. NBlocks - 1

ASSUME FeatureAssumption ==
  /\ NItems \in Nat \ {0} /\ NEdges \in Nat \ {0} /\ BlockSize \in Nat \ {0}
  /\ Threshold \in Nat /\ Threshold > BlockSize
  /\ Budget \in 1 .. NItems
  /\ Window \in Nat \ {0} /\ ItemSize \in Nat \ {0} /\ HisLimit \in Nat \ {0}
  /\ HasEdges \in BOOLEAN
  /\ Contents \subseteq [Blocks -> (SUBSET Items) \ {{}}]
  /\ Negatives \subseteq SUBSET Items
  /\ Zeros \notin Items /\ Junk \notin Items

VARIABLES
  content,     \* nid_uni, eid_uni of each block: constant
  kind,        \* "node" or "edge": constant
  dataIncre,   \* data_incre: constant
  nextBlock,   \* batch_num
  periods,     \* preThresholdNum
  bucketStart, \* bucket_cache_start[-1]: the first block in bucket_his
  idx,         \* pre_bucket_nid_idx: the item in each slot of the cache
  info,        \* what is saved of each block: pos_in_cache, pos_in_pre, pos_cache_indices
  mask,        \* cache_nid_incre_mask of each period, by its first block
  his,         \* node_his: the rows to extract
  paths,       \* node_save_paths: where to
  files,       \* the files written
  curBlock,    \* the block on the GPU
  gpu,         \* part_node_map and part_node_feats
  bucketFeat,  \* bucket_cache_node_feat of the worker
  share        \* share_part_node_map, share_part_node_feats, share_node_d_ind

planVars  == <<nextBlock, periods, bucketStart, idx, info, mask, his, paths, files>>
trainVars == <<curBlock, gpu, bucketFeat, share>>
vars == <<content, kind, dataIncre, planVars, trainVars>>

None == [at |-> "none"]
NotStarted == NBlocks      \* curBlock before block 0
Planned == NBlocks + 1     \* nextBlock after gen_part_stream

Init ==
  /\ content \in Contents /\ dataIncre \in BOOLEAN
  /\ kind \in IF HasEdges THEN {"node", "edge"} ELSE {"node"}
  /\ nextBlock = 0 /\ periods = 0 /\ bucketStart = 0 /\ idx = <<>>
  /\ info = <<>> /\ mask = <<>> /\ his = <<>> /\ paths = <<>> /\ files = <<>>
  /\ curBlock = NotStarted /\ gpu = <<>> /\ bucketFeat = <<>> /\ share = None

\* The place of x among the numbers of S, the numbers in order, and s[S]: what s has
\* at the places S, in order, as a mask selects it.
NthOf(S, x)  == Cardinality({ y \in S : y <= x })
Sorted(S)    == [k \in 1 .. Cardinality(S) |-> CHOOSE x \in S : NthOf(S, x) = k]
Masked(s, S) == [k \in 1 .. Cardinality(S) |-> s[Sorted(S)[k]]]

----------------------------------------------------------------------------
(* gen_part_stream *)

Right(b) == IF (b + 1) * BlockSize < NEdges THEN (b + 1) * BlockSize ELSE NEdges
BucketHis == bucketStart .. nextBlock - 1

\* bucket_nid_count.  The counter of the edges is never raised.
Count(i) == IF kind = "node" THEN Cardinality({ b \in BucketHis : i \in content[b] }) ELSE 0

\* The first Budget items of a sort by Count, in any order of equal ones.
Hottest ==
  { c \in [1 .. Budget -> Items] :
      /\ \A s, t \in 1 .. Budget : s < t => c[s] # c[t] /\ Count(c[s]) >= Count(c[t])
      /\ \A i \in Items \ ToSet(c) : Count(i) <= Count(c[Budget]) }

\* Slots whose items leave (pre_notin_cur), and the items that come (cur_notin_pre).
Gone(cache) == { s \in DOMAIN idx : idx[s] \notin ToSet(cache) }
IncreAll(cache) == cache \* Mutant of Incre: all items of the cache come.
Incre(cache) == Masked(cache, { k \in DOMAIN cache : cache[k] \notin ToSet(idx) })

\* Mutant of Merge: the cache is taken over as sorted.
MergeSorted(cache) == cache

\* Items that come take the slots of those that leave.
Merge(cache) ==
  IF idx = <<>> THEN cache
  ELSE [s \in DOMAIN idx |->
          IF s \in Gone(cache)
          THEN Incre(cache)[NthOf(Gone(cache), s)]
          ELSE idx[s]]

\* Mutant of InPre: rows of two blocks ago are left out as well.
InPreTwo(b) == { i \in content[b] : \E d \in 1 .. 2 : b >= d /\ i \in content[b - d] }

\* posinpre and posincache; the first block has neither.
InPre(b) == IF b = 0 THEN {} ELSE content[b] \cap content[b - 1]
InCache(b, index) == IF b = 0 THEN {} ELSE content[b] \cap ToSet(index)
ToSave(b, index) == Sorted(content[b] \ (InPre(b) \cup InCache(b, index)))

BlockPath(b, incre) == [of |-> "block", at |-> b, incre |-> incre]
CachePath(b) == [of |-> "cache", at |-> b, incre |-> FALSE]

\* Row i of the data read for the window that begins at start.  np.fromfile takes
\* its offset in bytes, and start * feat_len counts numbers: the data begin at row
\* start / ItemSize, or within a row.
RowRead(start, i) ==
  CASE start = 0 -> i
    [] start > 0 /\ start % ItemSize = 0 -> start \div ItemSize + (i - start)
    [] OTHER -> Junk

\* stream_extract for one tensor: window after window, in the order of the tensor.
Windows == (NItems + Window - 1) \div Window
InWindow(rows, start) ==
  Masked(rows, { k \in DOMAIN rows : start <= rows[k] /\ rows[k] < start + Window })
OfWindow(rows, start) ==
  [j \in DOMAIN InWindow(rows, start) |-> RowRead(start, InWindow(rows, start)[j])]
Extracted(rows) ==
  LET upTo[w \in 0 .. Windows] ==
        IF w = 0 THEN <<>> ELSE upTo[w - 1] \o OfWindow(rows, (w - 1) * Window)
  IN  upTo[Windows]

\* stream_extract: the first file keeps its name, the blocks' others are increments.
StreamExtract(hs, ps) ==
  LET target(k) == IF ps[k].of = "block" /\ k > 1 THEN BlockPath(ps[k].at, TRUE) ELSE ps[k]
      targets == { target(k) : k \in DOMAIN hs }
  IN  [p \in DOMAIN files \cup targets |->
         IF p \in targets
         THEN Extracted(hs[CHOOSE k \in DOMAIN hs : target(k) = p]) ELSE files[p]]

\* The rows that wait for stream_extract after the end of a period.
ClosedHis(cache) ==
  his \o [k \in 1 .. nextBlock - bucketStart |-> ToSave(bucketStart + k - 1, Merge(cache))]
      \o << Incre(cache) >>
ClosedPaths ==
  paths \o [k \in 1 .. nextBlock - bucketStart |-> BlockPath(bucketStart + k - 1, FALSE)]
        \o << CachePath(bucketStart) >>

\* The end of a period: the cache of its blocks, and what each block takes from where.
ClosePeriod(cache) ==
  LET index == Merge(cache) IN
  /\ idx' = index
  /\ mask' = [b \in DOMAIN mask \cup {bucketStart} |->
                IF b = bucketStart THEN Gone(cache) ELSE mask[b]]
  /\ info' = [b \in DOMAIN info \cup BucketHis |->
                IF b \in BucketHis
                THEN [pre |-> InPre(b), cached |-> InCache(b, index),
                      slot |-> [i \in InCache(b, index) |-> CHOOSE s \in DOMAIN index : index[s] = i]]
                ELSE info[b]]
  /\ paths' = ClosedPaths

\* his_mem_byte, in rows.
Waiting(rows) == Cardinality(UNION { {k} \X DOMAIN rows[k] : k \in DOMAIN rows })

Closes == Right(nextBlock) \div Threshold > periods

\* A block within a period.
PlanBlock ==
  /\ nextBlock < NBlocks /\ ~Closes
  /\ nextBlock' = nextBlock + 1
  /\ UNCHANGED <<content, kind, dataIncre, periods, bucketStart, idx, info, mask, his, paths, files, trainVars>>

\* A block that begins a period.  With too many rows waiting they are extracted;
\* the list of paths is not cleared.
PlanPeriod ==
  /\ nextBlock < NBlocks /\ Closes
  /\ \E cache \in Hottest :
       /\ ClosePeriod(cache)
       /\ LET rows == ClosedHis(cache)
          IN  IF Waiting(rows) >= HisLimit
              THEN his' = <<>> /\ files' = StreamExtract(rows, ClosedPaths)
              ELSE his' = rows /\ files' = files
  /\ periods' = periods + 1 /\ bucketStart' = nextBlock /\ nextBlock' = nextBlock + 1
  /\ UNCHANGED <<content, kind, dataIncre, trainVars>>

\* The last period, and the files.
PlanEnd ==
  /\ nextBlock = NBlocks
  /\ \E cache \in Hottest :
       /\ ClosePeriod(cache)
       /\ his' = ClosedHis(cache) /\ files' = StreamExtract(his', ClosedPaths)
  /\ nextBlock' = Planned /\ bucketStart' = NEdges \div BlockSize
  /\ UNCHANGED <<content, kind, dataIncre, periods, trainVars>>

----------------------------------------------------------------------------
(* Training *)

\* load_part and analyze: rows and negatives are put one after the other, and
\* sorted like their items.  init_bucket_cache gives the worker the first cache.
LoadPart(neg) ==
  LET items == Sorted(content[0]) \o Sorted(neg \ content[0])
      feats == files[BlockPath(0, FALSE)] \o Sorted(neg \ content[0])
  IN  /\ nextBlock = Planned /\ curBlock = NotStarted
      /\ Len(feats) >= Len(items)
      /\ gpu' = [i \in ToSet(items) |-> feats[CHOOSE k \in DOMAIN items : items[k] = i]]
      /\ bucketFeat' = files[CachePath(0)]
      /\ curBlock' = 0
      /\ UNCHANGED <<content, kind, dataIncre, planVars, share>>

\* Mutant of Advance: the rows of the cache are replaced from the first slot on.
AdvanceFront(b) ==
  LET rows == files[CachePath(b)]
  IN  IF HasEdges /\ CachePath(b) \in DOMAIN files
      THEN [s \in DOMAIN bucketFeat |-> IF s \in DOMAIN rows THEN rows[s] ELSE bucketFeat[s]]
      ELSE bucketFeat

\* The cache of the period that begins with block b.  The caches of nodes and edges
\* are both replaced when the file of the edges exists.
Advance(b) ==
  LET rows == files[CachePath(b)]
  IN  IF HasEdges /\ CachePath(b) \in DOMAIN files
      THEN [s \in DOMAIN bucketFeat |->
              IF s \in mask[b] THEN rows[NthOf(mask[b], s)] ELSE bucketFeat[s]]
      ELSE bucketFeat

\* Negatives that are not in the block; those read from the store (dd_neg_nodes).
DisNeg(b, neg) == neg \ content[b]
DDNeg(b, neg)  == IF dataIncre THEN DisNeg(b, neg) \ DOMAIN gpu ELSE DisNeg(b, neg)

\* Pre_fetch.pre_fetch of the next block.  Without its file it raises.
PreFetch(neg) ==
  LET b     == curBlock + 1
      saved == info[b]
      ofFile == content[b] \ (saved.pre \cup saved.cached)
      rows  == files[BlockPath(b, TRUE)]
      cache == Advance(b)
  IN  /\ curBlock # NotStarted /\ b < NBlocks /\ share = None
      /\ BlockPath(b, TRUE) \in DOMAIN files /\ Len(rows) = Cardinality(ofFile)
      /\ bucketFeat' = cache
      /\ share' = [at |-> b,
                   feats |-> [i \in content[b] \cup neg |->
                                CASE i \in saved.cached  -> cache[saved.slot[i]]
                                  [] i \in ofFile        -> rows[NthOf(ofFile, i)]
                                  [] i \in DDNeg(b, neg) -> i
                                  [] OTHER               -> Zeros],
                   dInd |-> saved.pre \cup (DisNeg(b, neg) \ DDNeg(b, neg))]
      /\ UNCHANGED <<content, kind, dataIncre, planVars, curBlock, gpu>>

\* get_n_feat: an item that is not there has index -1, the last row.
LastRow == CHOOSE l \in DOMAIN gpu : \A j \in DOMAIN gpu : j <= l
GetFeat(i) == IF i \in DOMAIN gpu THEN gpu[i] ELSE gpu[LastRow]

\* Feat_buffer.prefetch_after: rows that are on the GPU are copied there.
PrefetchAfter ==
  /\ share # None
  /\ gpu' = [i \in DOMAIN share.feats |-> IF i \in share.dInd THEN GetFeat(i) ELSE share.feats[i]]
  /\ curBlock' = share.at /\ share' = None
  /\ UNCHANGED <<content, kind, dataIncre, planVars, bucketFeat>>

Terminated == curBlock = NBlocks - 1 /\ UNCHANGED vars

Next ==
  \/ PlanBlock \/ PlanPeriod \/ PlanEnd
  \/ \E neg \in Negatives : LoadPart(neg) \/ PreFetch(neg)
  \/ PrefetchAfter \/ Terminated

Spec == Init /\ [][Next]_vars

----------------------------------------------------------------------------
(* What must hold *)

Feature == Items \cup {Zeros, Junk}

\* The types of the state: a plan that never names a slot, a block or an item
\* that is not there.
FeatureTypeOK ==
  /\ content \in Contents /\ kind \in {"node", "edge"} /\ dataIncre \in BOOLEAN
  /\ nextBlock \in 0 .. Planned /\ bucketStart \in 0 .. NBlocks /\ periods \in 0 .. NEdges
  /\ idx = <<>> \/ (DOMAIN idx = 1 .. Budget /\ Cardinality(ToSet(idx)) = Budget)
  /\ ToSet(idx) \subseteq Items
  /\ DOMAIN info = 0 .. (IF nextBlock = Planned THEN NBlocks ELSE bucketStart) - 1
  /\ \A b \in DOMAIN info : ToSet(info[b].slot) \subseteq 1 .. Budget
  /\ \A b \in DOMAIN mask : mask[b] \subseteq 1 .. Budget
  /\ \A k \in DOMAIN his : ToSet(his[k]) \subseteq Items
  /\ \A p \in DOMAIN files : ToSet(files[p]) \subseteq Feature
  /\ curBlock \in 0 .. NotStarted
  /\ DOMAIN gpu \subseteq Items /\ ToSet(bucketFeat) \subseteq Feature

\* Every item of the block that is trained, and every negative sample added to it,
\* has its own feature on the GPU (err_detection in get_n_feat), though its row
\* came from one of four places planned long before.
FeaturesRight == \A i \in DOMAIN gpu : gpu[i] = i

\* The same for nodes, whose rows get_n_feat compares with the feature file.
NodeFeaturesRight == kind = "node" => FeaturesRight

\* The worker's cache is the one the plan of the block it has prepared was made for:
\* every row the block takes from the cache is in the slot the plan names.
CacheFollowsPlan ==
  LET b == IF share = None THEN curBlock ELSE share.at
  IN  b \in DOMAIN info /\ curBlock # NotStarted =>
        \A i \in info[b].cached : bucketFeat[info[b].slot[i]] = i

\* An item that stays in the cache over the end of a period keeps its slot: only the
\* items that come are read from the disk.
ItemsKeepSlots ==
  [][\A s \in DOMAIN idx : idx[s] \in ToSet(idx') => idx'[s] = idx[s]]_vars
=============================================================================
