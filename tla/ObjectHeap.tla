----------------------------- MODULE ObjectHeap -----------------------------
(***************************************************************************)
(* The object heaps (object_heap.c) in which the driver keeps its configs, *)
(* contexts, surfaces, buffers and images.  Objects live in buckets of     *)
(* heap_increment objects; free ones are linked through their next_free    *)
(* fields, which say ALLOCATED for the others.                             *)
(*                                                                         *)
(* Every operation holds the heap's mutex from beginning to end, except    *)
(* the iteration of vaTerminate over a heap (object_heap_first and         *)
(* object_heap_next, with a free after each) and object_heap_destroy,      *)
(* which run when the client has stopped calling.  Objects are named by    *)
(* their index; their id is id_offset more.                                *)
(***************************************************************************)
EXTENDS Integers, Sequences, FiniteSets

CONSTANTS
  heap_increment,   \* objects per bucket (16 in the code)
  BucketStep,       \* by how much the array of buckets grows (8 in the code)
  id_offset,
  Sweeps,           \* vaTerminate frees what is left before it destroys
  MaxHeapSize       \* bound: the heap does not grow past this

ASSUME ObjectHeapAssumption ==
  /\ heap_increment \in Nat \ {0}
  /\ BucketStep \in Nat \ {0}
  /\ id_offset \in Nat
  /\ Sweeps \in BOOLEAN
  /\ MaxHeapSize \in Nat

LAST_FREE == -1
ALLOCATED == -2

VARIABLES
  heap_size,
  next_free,     \* the head of the free list
  link,          \* link[i], the next_free field of object i
  num_buckets,   \* the length of the array of buckets
  bucket,        \* the buckets that were allocated
  phase,         \* "open", "sweeping", "swept" or "destroyed"
  iter,          \* the iterator of the sweep
  free_list      \* history variable: the free objects, first to be reused
                 \* first

vars == <<heap_size, next_free, link, num_buckets, bucket, phase, iter, free_list>>

Objects == 0 .. heap_size - 1
Allocated == {i \in Objects : link[i] = ALLOCATED}
-----------------------------------------------------------------------------
(***************************************************************************)
(* object_heap_expand: one more bucket, whose objects are put in order in  *)
(* front of the free list.  The array of buckets is enlarged first if the  *)
(* bucket does not fit.                                                    *)
(***************************************************************************)
BucketIndex(size) == size \div heap_increment - 1

(* Mutant: the array is enlarged one bucket too late.                      *)
GrownBucketsLate(size) ==
  IF BucketIndex(size) > num_buckets THEN num_buckets + BucketStep ELSE num_buckets

GrownBuckets(size) ==
  IF BucketIndex(size) >= num_buckets THEN num_buckets + BucketStep ELSE num_buckets

(* Mutants: the last object of the bucket is linked past the end; it is    *)
(* not put in the list.                                                    *)
ExpandedLinkPastEnd(size) ==
  [i \in 0 .. size - 1 |-> IF i < heap_size THEN link[i] ELSE i + 1]

ExpandedLinkShort(size) ==
  [i \in 0 .. size - 1 |-> IF i < heap_size THEN link[i]
                           ELSE IF i = size - 1 THEN ALLOCATED ELSE i + 1]

ExpandedLink(size) ==
  [i \in 0 .. size - 1 |-> IF i < heap_size THEN link[i]
                           ELSE IF i = size - 1 THEN next_free ELSE i + 1]

(* object_heap_allocate takes the head of the free list.                   *)
Allocate ==
  /\ phase = "open"
  /\ next_free # LAST_FREE
  /\ next_free' = link[next_free]
  /\ link' = [link EXCEPT ![next_free] = ALLOCATED]
  /\ free_list' = Tail(free_list)
  /\ UNCHANGED <<heap_size, num_buckets, bucket, phase, iter>>

(* It expands the heap first when the list is empty.                       *)
AllocateExpanding ==
  /\ phase = "open"
  /\ next_free = LAST_FREE
  /\ LET size == heap_size + heap_increment
         expanded == ExpandedLink(size)
     IN  /\ size <= MaxHeapSize
         /\ heap_size' = size
         /\ num_buckets' = GrownBuckets(size)
         /\ bucket' = bucket \cup {BucketIndex(size)}
         /\ next_free' = expanded[heap_size]
         /\ link' = [expanded EXCEPT ![heap_size] = ALLOCATED]
         /\ free_list' = [k \in 1 .. heap_increment - 1 |-> heap_size + k]
  /\ UNCHANGED <<phase, iter>>

(* The expansion fails, in malloc after a realloc that succeeded or in the *)
(* realloc (which changes nothing).                                        *)
AllocateNoMemory ==
  /\ phase = "open"
  /\ next_free = LAST_FREE
  /\ num_buckets' = GrownBuckets(heap_size + heap_increment)
  /\ UNCHANGED <<heap_size, next_free, link, bucket, phase, iter, free_list>>

(* Mutant: the object becomes the whole of the free list.                  *)
PutBackAlone(i) ==
  /\ link[i] = ALLOCATED
  /\ link' = [link EXCEPT ![i] = LAST_FREE]
  /\ next_free' = i
  /\ free_list' = <<i>> \o free_list

(* object_heap_free puts the object in front of the free list.             *)
PutBack(i) ==
  /\ link[i] = ALLOCATED
  /\ link' = [link EXCEPT ![i] = next_free]
  /\ next_free' = i
  /\ free_list' = <<i>> \o free_list

Free(i) ==
  /\ phase = "open"
  /\ PutBack(i)
  /\ UNCHANGED <<heap_size, num_buckets, bucket, phase, iter>>
-----------------------------------------------------------------------------
(***************************************************************************)
(* vaTerminate: object_heap_first, then an object_heap_free of the object  *)
(* found and object_heap_next, until no allocated object is found.  The    *)
(* iterator stops at heap_size.                                            *)
(***************************************************************************)
(* Mutant: the search starts one object too far.                           *)
IsNextAllocatedSkipping(links, from, n) ==
  /\ n > from + 1 \/ n = heap_size
  /\ \A i \in from + 2 .. n - 1 : links[i] # ALLOCATED
  /\ n < heap_size => links[n] = ALLOCATED

IsNextAllocated(links, from, n) ==
  /\ \A i \in from + 1 .. n - 1 : links[i] # ALLOCATED
  /\ n < heap_size => links[n] = ALLOCATED

SweepFirst ==
  /\ phase = "open"
  /\ Sweeps
  /\ phase' = "sweeping"
  /\ \E n \in 0 .. heap_size : IsNextAllocated(link, -1, n) /\ iter' = n
  /\ UNCHANGED <<heap_size, next_free, link, num_buckets, bucket, free_list>>

(* Mutant: the iterator stays on the object that was freed.                *)
SweepFreeInPlace ==
  /\ phase = "sweeping"
  /\ iter < heap_size
  /\ PutBack(iter)
  /\ UNCHANGED <<heap_size, num_buckets, bucket, phase, iter>>

SweepFree ==
  /\ phase = "sweeping"
  /\ iter < heap_size
  /\ PutBack(iter)
  /\ \E n \in iter + 1 .. heap_size : IsNextAllocated(link', iter, n) /\ iter' = n
  /\ UNCHANGED <<heap_size, num_buckets, bucket, phase>>

SweepEnds ==
  /\ phase = "sweeping"
  /\ iter >= heap_size
  /\ phase' = "swept"
  /\ UNCHANGED <<heap_size, next_free, link, num_buckets, bucket, iter, free_list>>

(* object_heap_destroy asserts that nothing is allocated: a heap that is   *)
(* not swept can only be destroyed empty.  It frees the buckets below      *)
(* heap_size.                                                              *)
Destroy ==
  /\ phase = IF Sweeps THEN "swept" ELSE "open"
  /\ Allocated = {}
  /\ bucket' = bucket \ (0 .. heap_size \div heap_increment - 1)
  /\ heap_size' = 0
  /\ next_free' = LAST_FREE
  /\ link' = <<>>
  /\ phase' = "destroyed"
  /\ free_list' = <<>>
  /\ UNCHANGED <<num_buckets, iter>>
-----------------------------------------------------------------------------
(* object_heap_init expands the empty heap once; the driver asserts that   *)
(* it could.                                                               *)
Init ==
  /\ heap_size = heap_increment
  /\ next_free = 0
  /\ link = [i \in 0 .. heap_increment - 1 |->
               IF i = heap_increment - 1 THEN LAST_FREE ELSE i + 1]
  /\ num_buckets = BucketStep
  /\ bucket = {0}
  /\ phase = "open"
  /\ iter = -1
  /\ free_list = [k \in 1 .. heap_increment |-> k - 1]

Next ==
  \/ Allocate
  \/ AllocateExpanding
  \/ AllocateNoMemory
  \/ \E i \in Objects : Free(i)
  \/ SweepFirst
  \/ SweepFree
  \/ SweepEnds
  \/ Destroy

Spec == Init /\ [][Next]_vars

FairSpec == Spec /\ WF_vars(SweepFree) /\ WF_vars(SweepEnds)
-----------------------------------------------------------------------------
(***************************************************************************)
(* object_heap_lookup, by id.  Past the last bucket there is no object to  *)
(* read: what the lookup returns is then anything.                         *)
(***************************************************************************)
NULL == "NULL"
Anything == "anything"

Lookup(id) ==
  IF id < id_offset \/ id > heap_size + id_offset
    THEN NULL
    ELSE LET i == id - id_offset
         IN  IF i \div heap_increment \notin bucket THEN Anything
             ELSE IF link[i] # ALLOCATED THEN NULL
             ELSE i
-----------------------------------------------------------------------------
TypeOK ==
  /\ heap_size \in Nat
  /\ next_free \in Objects \cup {LAST_FREE}
  /\ link \in [Objects -> Objects \cup {LAST_FREE, ALLOCATED}]
  /\ num_buckets \in Nat
  /\ bucket \in SUBSET Nat
  /\ phase \in {"open", "sweeping", "swept", "destroyed"}
  /\ iter \in Nat \cup {-1}
  /\ free_list \in Seq(Objects)

(***************************************************************************)
(* The links, followed from head to LAST_FREE, spell the sequence q, which *)
(* has no repetition.                                                      *)
(***************************************************************************)
Spells(q, head, links) ==
  /\ head = IF q = <<>> THEN LAST_FREE ELSE q[1]
  /\ \A k \in 1 .. Len(q) : links[q[k]] = IF k = Len(q) THEN LAST_FREE ELSE q[k + 1]
  /\ \A j, k \in 1 .. Len(q) : j # k => q[j] # q[k]

(***************************************************************************)
(* The free list, from next_free to LAST_FREE, holds each object that is   *)
(* not allocated exactly once, in the order in which the objects are to be *)
(* reused: no object is handed out twice, none is lost, and the list has   *)
(* no cycle.                                                               *)
(***************************************************************************)
FreeListExact ==
  /\ Spells(free_list, next_free, link)
  /\ {free_list[k] : k \in 1 .. Len(free_list)} = Objects \ Allocated

(***************************************************************************)
(* Every object lies in a bucket that was allocated and has its place in   *)
(* the array, also after an expansion that failed half way, and a          *)
(* destroyed heap leaves no bucket behind.                                 *)
(***************************************************************************)
BucketsMatchHeap ==
  /\ bucket = {i \div heap_increment : i \in Objects}
  /\ phase # "destroyed" => \A b \in bucket : b < num_buckets

(***************************************************************************)
(* The sweep of vaTerminate, which frees the objects it iterates over,     *)
(* leaves none allocated: the assertions of object_heap_destroy hold.      *)
(***************************************************************************)
SweepLeavesNothing == phase = "swept" => Allocated = {}

(***************************************************************************)
(* The sweep ends.                                                         *)
(***************************************************************************)
SweepEventuallyEnds == phase = "sweeping" ~> phase = "swept"

(***************************************************************************)
(* A lookup finds an allocated object or returns NULL.                     *)
(***************************************************************************)
LookupSound ==
  \A id \in 0 .. id_offset + heap_size + heap_increment :
    Lookup(id) \in Allocated \cup {NULL}

(***************************************************************************)
(* The heap implements a pool of indices.                                  *)
(***************************************************************************)
Pool == INSTANCE IdPool WITH Increment <- heap_increment,
                             capacity <- heap_size, taken <- Allocated
PoolSpec == Pool!Spec
=============================================================================
