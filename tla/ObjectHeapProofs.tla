-------------------------- MODULE ObjectHeapProofs --------------------------
(***************************************************************************)
(* Proofs about ObjectHeap, for every size of bucket and however large the *)
(* heap grows.                                                             *)
(***************************************************************************)
EXTENDS ObjectHeap, SequenceTheorems, Division

Elements(q) == {q[k] : k \in 1 .. Len(q)}

(***************************************************************************)
(* Taking the head off a free list, and putting an object that is not in   *)
(* it in front, leave a free list.                                         *)
(***************************************************************************)
LEMMA RestSpells ==
  ASSUME NEW S, NEW q \in Seq(S), NEW head, NEW T, NEW links \in [S -> T],
         q # <<>>, Spells(q, head, links),
         NEW p \in Seq(S), Len(p) = Len(q) - 1,
         \A k \in 1 .. Len(q) - 1 : p[k] = q[k + 1]
  PROVE  /\ head = q[1] /\ head \in S
         /\ Spells(p, links[head], [links EXCEPT ![head] = ALLOCATED])
         /\ Elements(p) = Elements(q) \ {head}
<1>1. /\ Len(q) \in Nat \ {0} /\ head = q[1] /\ 1 \in 1 .. Len(q)
      /\ \A k \in 1 .. Len(q) : q[k] \in S
  BY EmptySeq, ElementOfSeq DEF Spells
<1>2. p = <<>> <=> Len(q) = 1
  <2>1. Len(p) = 0 <=> Len(q) = 1
    BY <1>1
  <2>2. p = <<>> <=> Len(p) = 0
    BY EmptySeq
  <2> QED
    BY <2>1, <2>2
<1>3. \A k \in 1 .. Len(q) : links[q[k]] = IF k = Len(q) THEN LAST_FREE ELSE q[k + 1]
  BY DEF Spells
<1>4. links[head] = IF p = <<>> THEN LAST_FREE ELSE p[1]
  <2>1. links[q[1]] = IF 1 = Len(q) THEN LAST_FREE ELSE q[1 + 1]
    BY <1>1, <1>3
  <2>2. Len(q) # 1 => p[1] = q[1 + 1]
    BY <1>1
  <2> QED
    BY <2>1, <2>2, <1>1, <1>2
<1> DEFINE after == [links EXCEPT ![head] = ALLOCATED]
<1>5. \A j, k \in 1 .. Len(q) : j # k => q[j] # q[k]
  BY DEF Spells
<1>6. ASSUME NEW k \in 1 .. Len(q) - 1
      PROVE  /\ k + 1 \in 1 .. Len(q) /\ p[k] = q[k + 1]
             /\ q[k + 1] # head /\ q[k + 1] \in S
  <2>1. k + 1 \in 1 .. Len(q) /\ k + 1 # 1
    BY <1>1
  <2> QED
    BY <2>1, <1>1, <1>5
<1>7. ASSUME NEW k \in 1 .. Len(q) - 1
      PROVE  after[p[k]] = IF k = Len(q) - 1 THEN LAST_FREE ELSE p[k + 1]
  <2>1. after[p[k]] = links[q[k + 1]]
    BY <1>6
  <2>2. links[q[k + 1]] = IF k + 1 = Len(q) THEN LAST_FREE ELSE q[k + 1 + 1]
    BY <1>3, <1>6
  <2>3. CASE k = Len(q) - 1
    BY <2>1, <2>2, <2>3, <1>1
  <2>4. CASE k # Len(q) - 1
    <3>1. k + 1 \in 1 .. Len(q) - 1 /\ k + 1 # Len(q)
      BY <2>4, <1>1
    <3> QED
      BY <2>1, <2>2, <2>4, <3>1
  <2> QED
    BY <2>3, <2>4
<1>8. ASSUME NEW j \in 1 .. Len(q) - 1, NEW k \in 1 .. Len(q) - 1, j # k
      PROVE  p[j] # p[k]
  <2>1. j + 1 # k + 1
    BY <1>1, <1>8
  <2> QED
    BY <2>1, <1>5, <1>6
<1>9. Elements(p) = Elements(q) \ {head}
  <2>1. ASSUME NEW x \in Elements(p)
        PROVE  x \in Elements(q) \ {head}
    <3>1. PICK k \in 1 .. Len(q) - 1 : x = p[k]
      BY DEF Elements
    <3> QED
      BY <3>1, <1>6 DEF Elements
  <2>2. ASSUME NEW x \in Elements(q) \ {head}
        PROVE  x \in Elements(p)
    <3>1. PICK k \in 1 .. Len(q) : x = q[k]
      BY DEF Elements
    <3>2. k # 1
      BY <3>1, <1>1
    <3>3. k - 1 \in 1 .. Len(q) - 1 /\ k - 1 + 1 = k
      BY <3>2, <1>1
    <3>4. x = p[k - 1]
      BY <3>1, <3>3
    <3> QED
      BY <3>3, <3>4 DEF Elements
  <2> QED
    BY <2>1, <2>2
<1> QED
  BY <1>1, <1>4, <1>7, <1>8, <1>9 DEF Spells

LEMMA PopSpells ==
  ASSUME NEW S, NEW q \in Seq(S), NEW head, NEW T, NEW links \in [S -> T],
         q # <<>>, Spells(q, head, links)
  PROVE  /\ head \in S
         /\ Tail(q) \in Seq(S)
         /\ Spells(Tail(q), links[head], [links EXCEPT ![head] = ALLOCATED])
         /\ Elements(Tail(q)) = Elements(q) \ {head}
<1>1. /\ Tail(q) \in Seq(S) /\ Len(Tail(q)) = Len(q) - 1
      /\ \A k \in 1 .. Len(q) - 1 : Tail(q)[k] = q[k + 1]
  BY HeadTailProperties
<1> QED
  BY <1>1, RestSpells

(* p is q with i in front.                                                 *)
Pushed(p, i, q) ==
  /\ Len(p) = Len(q) + 1 /\ p[1] = i
  /\ \A k \in 2 .. Len(q) + 1 : p[k] = q[k - 1]

LEMMA PushSpells ==
  ASSUME NEW S, NEW T, NEW q, NEW head, NEW links, NEW i, NEW p,
         q \in Seq(S), links \in [S -> T], Spells(q, head, links),
         i \in S, i \notin Elements(q), p \in Seq(S), Pushed(p, i, q)
  PROVE  /\ Spells(p, i, [links EXCEPT ![i] = head])
         /\ \A x : x \in Elements(p) <=> x \in Elements(q) \/ x = i
<1> DEFINE after == [links EXCEPT ![i] = head]
<1>1. /\ Len(q) \in Nat
      /\ \A k \in 1 .. Len(q) : q[k] \in S /\ q[k] # i
      /\ q = <<>> <=> Len(q) = 0
  BY EmptySeq, LenProperties, ElementOfSeq DEF Elements
<1>2. /\ p \in Seq(S) /\ Len(p) = Len(q) + 1 /\ p[1] = i
      /\ \A k \in 2 .. Len(q) + 1 : p[k] = q[k - 1]
  BY DEF Pushed
<1>3. p # <<>>
  BY <1>1, <1>2, EmptySeq
<1>4. ASSUME NEW k \in 1 .. Len(q) + 1
      PROVE  after[p[k]] = IF k = Len(q) + 1 THEN LAST_FREE ELSE p[k + 1]
  <2>1. CASE k = 1
    <3>1. after[p[k]] = head
      BY <2>1, <1>2
    <3>2. head = IF Len(q) = 0 THEN LAST_FREE ELSE q[1]
      BY <1>1 DEF Spells
    <3>3. Len(q) # 0 => p[2] = q[1]
      BY <1>1, <1>2
    <3> QED
      BY <2>1, <3>1, <3>2, <3>3, <1>1
  <2>2. CASE k # 1
    <3>1. k \in 2 .. Len(q) + 1 /\ k - 1 \in 1 .. Len(q)
      BY <2>2, <1>1
    <3>2. p[k] = q[k - 1] /\ p[k] \in S /\ p[k] # i
      BY <3>1, <1>1, <1>2
    <3>3. after[p[k]] = links[q[k - 1]]
      BY <3>2
    <3>4. links[q[k - 1]] = IF k - 1 = Len(q) THEN LAST_FREE ELSE q[k - 1 + 1]
      BY <3>1 DEF Spells
    <3>5. k # Len(q) + 1 => k + 1 \in 2 .. Len(q) + 1 /\ p[k + 1] = q[k]
      BY <3>1, <1>1, <1>2
    <3> QED
      BY <3>1, <3>3, <3>4, <3>5, <1>1
  <2> QED
    BY <2>1, <2>2
<1>5. ASSUME NEW j \in 1 .. Len(q) + 1, NEW k \in 1 .. Len(q) + 1, j < k
      PROVE  p[j] # p[k]
  <2>1. k \in 2 .. Len(q) + 1 /\ k - 1 \in 1 .. Len(q) /\ p[k] = q[k - 1]
    BY <1>1, <1>2, <1>5
  <2>2. CASE j = 1
    BY <2>1, <2>2, <1>1, <1>2
  <2>3. CASE j # 1
    <3>1. j - 1 \in 1 .. Len(q) /\ p[j] = q[j - 1] /\ j - 1 # k - 1
      BY <2>3, <1>1, <1>2, <1>5
    <3> QED
      BY <2>1, <3>1 DEF Spells
  <2> QED
    BY <2>2, <2>3
<1>6. ASSUME NEW j \in 1 .. Len(q) + 1, NEW k \in 1 .. Len(q) + 1, j # k
      PROVE  p[j] # p[k]
  <2>1. j < k \/ k < j
    BY <1>1, <1>6
  <2> QED
    BY <2>1, <1>5
<1>7. Elements(p) = Elements(q) \cup {i}
  <2>1. ASSUME NEW x \in Elements(p)
        PROVE  x \in Elements(q) \cup {i}
    <3>1. PICK k \in 1 .. Len(q) + 1 : x = p[k]
      BY <1>2 DEF Elements
    <3>2. k = 1 \/ (k - 1 \in 1 .. Len(q) /\ x = q[k - 1])
      BY <3>1, <1>1, <1>2
    <3> QED
      BY <3>1, <3>2, <1>2 DEF Elements
  <2>2. i \in Elements(p)
    BY <1>1, <1>2 DEF Elements
  <2>3. ASSUME NEW x \in Elements(q)
        PROVE  x \in Elements(p)
    <3>1. PICK k \in 1 .. Len(q) : x = q[k]
      BY DEF Elements
    <3>2. k + 1 \in 2 .. Len(q) + 1 /\ k + 1 \in 1 .. Len(q) + 1 /\ x = p[k + 1]
      BY <3>1, <1>1, <1>2
    <3> QED
      BY <3>2, <1>2 DEF Elements
  <2> QED
    BY <2>1, <2>2, <2>3
<1> QED
  BY <1>2, <1>3, <1>4, <1>6, <1>7 DEF Spells

(***************************************************************************)
(* The inductive invariant.  A heap that is not destroyed has objects, and *)
(* the sweep has passed every object below its iterator, which stands on   *)
(* an allocated one or at the end.                                         *)
(***************************************************************************)
SweepInv ==
  /\ phase = "sweeping" => /\ iter \in 0 .. heap_size
                           /\ \A i \in 0 .. iter - 1 : link[i] # ALLOCATED
                           /\ iter < heap_size => link[iter] = ALLOCATED
  /\ phase = "swept" => Allocated = {}

HeapInv ==
  /\ TypeOK
  /\ phase # "destroyed" => heap_size > 0
  /\ Spells(free_list, next_free, link)
  /\ Elements(free_list) = Objects \ Allocated
  /\ SweepInv

LEMMA InitHeapInv == Init => HeapInv
<1> SUFFICES ASSUME Init
             PROVE  HeapInv
  OBVIOUS
<1>1. /\ heap_increment \in Nat \ {0} /\ BucketStep \in Nat
      /\ heap_size = heap_increment /\ next_free = 0
      /\ Objects = 0 .. heap_increment - 1
  BY ObjectHeapAssumption DEF Init, Objects
<1>2. \A i \in Objects : link[i] = IF i = heap_increment - 1 THEN LAST_FREE ELSE i + 1
  BY <1>1 DEF Init
<1>3. /\ free_list \in Seq(Objects) /\ Len(free_list) = heap_increment
      /\ \A k \in 1 .. heap_increment : free_list[k] = k - 1
  BY <1>1 DEF Init
<1>4. free_list # <<>>
  BY <1>1, <1>3, EmptySeq
<1>5. TypeOK
  BY <1>1, <1>2, <1>3 DEF Init, TypeOK, LAST_FREE
<1>6. Allocated = {}
  BY <1>1, <1>2 DEF Allocated, ALLOCATED, LAST_FREE
<1>7. Elements(free_list) = Objects
  <2>1. ASSUME NEW i \in Objects
        PROVE  i \in Elements(free_list)
    <3>1. i + 1 \in 1 .. heap_increment /\ i = i + 1 - 1
      BY <1>1
    <3>2. free_list[i + 1] = i + 1 - 1
      BY <3>1, <1>1, <1>3
    <3> QED
      BY <3>1, <3>2, <1>3 DEF Elements
  <2>2. ASSUME NEW i \in Elements(free_list)
        PROVE  i \in Objects
    <3>1. PICK k \in 1 .. heap_increment : i = free_list[k]
      BY <1>3 DEF Elements
    <3> QED
      BY <3>1, <1>1, <1>3
  <2> QED
    BY <2>1, <2>2
<1>8. Spells(free_list, next_free, link)
  BY <1>1, <1>2, <1>3, <1>4 DEF Spells
<1> QED
  BY <1>1, <1>5, <1>6, <1>7, <1>8 DEF HeapInv, SweepInv, Init

LEMMA EmptyListMeansFull ==
  ASSUME HeapInv, next_free = LAST_FREE
  PROVE  free_list = <<>> /\ Allocated = Objects
<1>1. free_list = <<>>
  <2>1. SUFFICES ASSUME free_list # <<>>
                 PROVE  FALSE
    OBVIOUS
  <2>2. 1 \in 1 .. Len(free_list) /\ next_free = free_list[1]
    BY <2>1, EmptySeq DEF HeapInv, TypeOK, Spells
  <2>3. next_free \in Objects
    BY <2>2, ElementOfSeq DEF HeapInv, TypeOK
  <2> QED
    BY <2>3 DEF HeapInv, TypeOK, Objects, LAST_FREE
<1>2. Elements(free_list) = {}
  BY <1>1, EmptySeq DEF Elements
<1> QED
  BY <1>1, <1>2 DEF HeapInv, Allocated

LEMMA AllocateHeapInv ==
  ASSUME HeapInv, Allocate
  PROVE  HeapInv' /\ next_free \notin Allocated /\ Allocated' = Allocated \cup {next_free}
<1> DEFINE T == Objects \cup {LAST_FREE, ALLOCATED}
<1>1. /\ free_list \in Seq(Objects) /\ link \in [Objects -> T]
      /\ Spells(free_list, next_free, link)
      /\ Elements(free_list) = Objects \ Allocated
  BY DEF HeapInv, TypeOK
<1> HIDE DEF T
<1>2. free_list # <<>>
  BY <1>1 DEF Allocate, Spells
<1>3. /\ next_free \in Objects
      /\ Tail(free_list) \in Seq(Objects)
      /\ Spells(Tail(free_list), link[next_free], [link EXCEPT ![next_free] = ALLOCATED])
      /\ Elements(Tail(free_list)) = Elements(free_list) \ {next_free}
  BY <1>1, <1>2, PopSpells
<1>4. next_free \in Elements(free_list)
  BY <1>1, <1>2, EmptySeq DEF Spells, Elements
<1>5. next_free \notin Allocated
  BY <1>1, <1>4
<1>6. Objects' = Objects /\ Allocated' = Allocated \cup {next_free}
  BY <1>1, <1>3 DEF Allocate, Objects, Allocated
<1>7. link[next_free] \in Objects \cup {LAST_FREE}
  BY <1>1, <1>3, <1>5 DEF Allocated, T
<1>8. TypeOK'
  BY <1>3, <1>6, <1>7 DEF HeapInv, TypeOK, Allocate
<1> QED
  BY <1>1, <1>3, <1>5, <1>6, <1>8 DEF HeapInv, SweepInv, Allocate

LEMMA PutBackSpells ==
  ASSUME HeapInv, NEW i \in Objects, PutBack(i), heap_size' = heap_size
  PROVE  /\ i \in Allocated /\ Objects' = Objects /\ Allocated' = Allocated \ {i}
         /\ next_free' \in Objects' \cup {LAST_FREE}
         /\ link' \in [Objects' -> Objects' \cup {LAST_FREE, ALLOCATED}]
         /\ free_list' \in Seq(Objects')
         /\ Spells(free_list', next_free', link')
         /\ Elements(free_list') = Objects' \ Allocated'
         /\ \A j \in Objects : j # i => link'[j] = link[j]
         /\ link'[i] # ALLOCATED
<1> DEFINE T == Objects \cup {LAST_FREE, ALLOCATED}
<1>1. /\ free_list \in Seq(Objects) /\ link \in [Objects -> T]
      /\ Spells(free_list, next_free, link)
      /\ Elements(free_list) = Objects \ Allocated
      /\ next_free \in Objects \cup {LAST_FREE}
      /\ heap_size \in Nat
  BY DEF HeapInv, TypeOK
<1> HIDE DEF T
<1>2. i \in Allocated /\ i \notin Elements(free_list)
  BY <1>1 DEF PutBack, Allocated
<1>3. PICK p : p = free_list'
  OBVIOUS
<1>4. p \in Seq(Objects) /\ Pushed(p, i, free_list)
  <2>1. p = <<i>> \o free_list
    BY <1>3 DEF PutBack
  <2>2. <<i>> \in Seq(Objects) /\ Len(<<i>>) = 1 /\ <<i>>[1] = i
    OBVIOUS
  <2> QED
    BY <2>1, <2>2, <1>1, ConcatProperties DEF Pushed
<1>5. /\ Spells(p, i, [link EXCEPT ![i] = next_free])
      /\ \A x : x \in Elements(p) <=> x \in Elements(free_list) \/ x = i
  BY <1>1, <1>2, <1>4, PushSpells
<1>6. next_free # ALLOCATED /\ next_free \in T
  BY <1>1 DEF T, Objects, ALLOCATED, LAST_FREE
<1>7. /\ \A j \in Objects : j # i => link'[j] = link[j]
      /\ link'[i] # ALLOCATED
      /\ link' \in [Objects -> T]
  BY <1>1, <1>6 DEF PutBack
<1>8. Objects' = Objects /\ Allocated' = Allocated \ {i}
  BY <1>7 DEF Objects, Allocated
<1> QED
  BY <1>1, <1>2, <1>3, <1>4, <1>5, <1>7, <1>8 DEF PutBack, T

LEMMA FreeHeapInv ==
  ASSUME HeapInv, NEW i \in Objects, Free(i)
  PROVE  HeapInv' /\ i \in Allocated /\ Allocated' = Allocated \ {i}
<1>1. PutBack(i) /\ heap_size' = heap_size
  BY DEF Free
<1>2. TypeOK'
  BY <1>1, PutBackSpells DEF HeapInv, TypeOK, Free
<1> QED
  BY <1>1, <1>2, PutBackSpells DEF HeapInv, SweepInv, Free

(* A heap that is not empty has a first bucket.                            *)
LEMMA BucketNat ==
  ASSUME NEW n \in Nat
  PROVE  BucketIndex(n + heap_increment) \in Nat
<1>1. heap_increment \in Nat \ {0}
  BY ObjectHeapAssumption
<1>2. (n + heap_increment) \div heap_increment \in Nat
  BY <1>1
<1>3. (n + heap_increment) \div heap_increment >= 1
  BY <1>1
<1> QED
  BY <1>2, <1>3 DEF BucketIndex

(***************************************************************************)
(* A heap that expands hands out the first object of the new bucket and    *)
(* the free list is the rest of it.                                        *)
(***************************************************************************)
LEMMA ExpandingHeapInv ==
  ASSUME HeapInv, AllocateExpanding
  PROVE  /\ HeapInv'
         /\ Allocated = Objects /\ Allocated' = Allocated \cup {heap_size}
         /\ heap_size' = heap_size + heap_increment
<1> DEFINE size == heap_size + heap_increment
<1>1. /\ heap_size \in Nat /\ heap_increment \in Nat \ {0} /\ BucketStep \in Nat
      /\ heap_size > 0 /\ size \in Nat /\ num_buckets \in Nat
  BY ObjectHeapAssumption DEF HeapInv, TypeOK, AllocateExpanding
<1>2. /\ \A i \in Objects : link[i] = ALLOCATED
      /\ next_free = LAST_FREE
  BY EmptyListMeansFull DEF AllocateExpanding, Allocated
<1>3. Objects' = 0 .. size - 1 /\ heap_size \in Objects' /\ heap_size' = size
  BY <1>1 DEF AllocateExpanding, Objects
<1>4. \A i \in Objects' : link'[i] = IF i <= heap_size THEN ALLOCATED
                                     ELSE IF i = size - 1 THEN LAST_FREE ELSE i + 1
  BY <1>1, <1>2, <1>3 DEF AllocateExpanding, ExpandedLink, Objects
<1>5. next_free' = IF heap_increment = 1 THEN LAST_FREE ELSE heap_size + 1
  BY <1>1, <1>2, <1>3 DEF AllocateExpanding, ExpandedLink
<1>6. /\ free_list' \in Seq(Objects') /\ Len(free_list') = heap_increment - 1
      /\ \A k \in 1 .. heap_increment - 1 : free_list'[k] = heap_size + k
  <2>1. free_list' = [k \in 1 .. heap_increment - 1 |-> heap_size + k]
    BY DEF AllocateExpanding
  <2>2. \A k \in 1 .. heap_increment - 1 : heap_size + k \in Objects'
    BY <1>1, <1>3
  <2>3. heap_increment - 1 \in Nat
    BY <1>1
  <2> QED
    BY <2>1, <2>2, <2>3
<1>7. Allocated' = 0 .. heap_size
  BY <1>1, <1>3, <1>4 DEF Allocated, ALLOCATED, LAST_FREE
<1>8. TypeOK'
  <2>1. link' \in [Objects' -> Objects' \cup {LAST_FREE, ALLOCATED}]
    <3>1. \A i \in Objects' : link'[i] \in Objects' \cup {LAST_FREE, ALLOCATED}
      BY <1>1, <1>3, <1>4
    <3>2. link' = [i \in Objects' |-> link'[i]]
      BY <1>3 DEF AllocateExpanding, ExpandedLink
    <3> QED
      BY <3>1, <3>2
  <2>2. num_buckets' \in Nat
    BY <1>1 DEF AllocateExpanding, GrownBuckets
  <2>3. bucket' \in SUBSET Nat
    BY <1>1, BucketNat DEF HeapInv, TypeOK, AllocateExpanding
  <2>4. next_free' \in Objects' \cup {LAST_FREE}
    BY <1>1, <1>3, <1>5
  <2> QED
    BY <2>1, <2>2, <2>3, <2>4, <1>1, <1>3, <1>6 DEF HeapInv, TypeOK, AllocateExpanding
<1>9. Elements(free_list') = Objects' \ Allocated'
  <2>1. ASSUME NEW i \in Elements(free_list')
        PROVE  i \in Objects' \ Allocated'
    <3>1. PICK k \in 1 .. heap_increment - 1 : i = free_list'[k]
      BY <2>1, <1>6 DEF Elements
    <3> QED
      BY <3>1, <1>1, <1>3, <1>6, <1>7
  <2>2. ASSUME NEW i \in Objects' \ Allocated'
        PROVE  i \in Elements(free_list')
    <3>1. i - heap_size \in 1 .. heap_increment - 1 /\ heap_size + (i - heap_size) = i
      BY <1>1, <1>3, <1>7
    <3>2. i = free_list'[i - heap_size]
      BY <3>1, <1>1, <1>6
    <3> QED
      BY <3>1, <3>2, <1>6 DEF Elements
  <2> QED
    BY <2>1, <2>2
<1>10. Spells(free_list', next_free', link')
  <2>1. free_list' = <<>> <=> heap_increment = 1
    BY <1>1, <1>6, EmptySeq
  <2>2. next_free' = IF free_list' = <<>> THEN LAST_FREE ELSE free_list'[1]
    BY <2>1, <1>1, <1>5, <1>6
  <2>3. ASSUME NEW k \in 1 .. Len(free_list')
        PROVE  link'[free_list'[k]] =
                 IF k = Len(free_list') THEN LAST_FREE ELSE free_list'[k + 1]
    <3>1. /\ k \in 1 .. heap_increment - 1 /\ free_list'[k] = heap_size + k
          /\ heap_size + k \in Objects' /\ ~(heap_size + k <= heap_size)
          /\ heap_size + k = size - 1 <=> k = heap_increment - 1
      BY <1>1, <1>3, <1>6
    <3>2. link'[heap_size + k] = IF heap_size + k = size - 1 THEN LAST_FREE
                                 ELSE heap_size + k + 1
      BY <3>1, <1>4
    <3>3. k # heap_increment - 1 => free_list'[k + 1] = heap_size + k + 1
      BY <3>1, <1>1, <1>6
    <3> QED
      BY <3>1, <3>2, <3>3, <1>6
  <2>4. \A j, k \in 1 .. Len(free_list') : j # k => free_list'[j] # free_list'[k]
    BY <1>1, <1>6
  <2> QED
    BY <2>2, <2>3, <2>4 DEF Spells
<1>11. Allocated = Objects /\ Allocated' = Allocated \cup {heap_size}
  BY <1>1, <1>2, <1>7 DEF Allocated, Objects
<1> QED
  BY <1>1, <1>3, <1>8, <1>9, <1>10, <1>11 DEF HeapInv, SweepInv, AllocateExpanding

LEMMA NoMemoryHeapInv ==
  ASSUME HeapInv, AllocateNoMemory
  PROVE  HeapInv' /\ Allocated' = Allocated /\ heap_size' = heap_size
<1>1. BucketStep \in Nat /\ num_buckets' \in Nat
  BY ObjectHeapAssumption DEF HeapInv, TypeOK, AllocateNoMemory, GrownBuckets
<1> QED
  BY <1>1 DEF HeapInv, TypeOK, SweepInv, AllocateNoMemory, Objects, Allocated, Spells, Elements

(***************************************************************************)
(* The sweep, and the destruction of the heap.                             *)
(***************************************************************************)
LEMMA SweepFirstHeapInv ==
  ASSUME HeapInv, SweepFirst
  PROVE  HeapInv' /\ Allocated' = Allocated /\ heap_size' = heap_size
<1>1. heap_size \in Nat
  BY DEF HeapInv, TypeOK
<1>2. PICK n \in 0 .. heap_size : IsNextAllocated(link, -1, n) /\ iter' = n
  BY DEF SweepFirst
<1>3. \A i \in 0 .. n - 1 : link[i] # ALLOCATED
  BY <1>1, <1>2 DEF IsNextAllocated
<1>4. n < heap_size => link[n] = ALLOCATED
  BY <1>2 DEF IsNextAllocated
<1>5. SweepInv'
  BY <1>1, <1>2, <1>3, <1>4 DEF SweepFirst, SweepInv
<1> QED
  BY <1>1, <1>2, <1>5
  DEF HeapInv, TypeOK, SweepFirst, Objects, Allocated, Spells, Elements

LEMMA SweepFreeHeapInv ==
  ASSUME HeapInv, SweepFree
  PROVE  /\ HeapInv'
         /\ iter \in Allocated /\ Allocated' = Allocated \ {iter}
         /\ heap_size' = heap_size
<1>1. heap_size \in Nat /\ iter \in Objects /\ PutBack(iter) /\ heap_size' = heap_size
  BY DEF HeapInv, TypeOK, SweepInv, SweepFree, Objects
<1>2. PICK n \in iter + 1 .. heap_size : IsNextAllocated(link', iter, n) /\ iter' = n
  BY DEF SweepFree
<1>3. ASSUME NEW i \in 0 .. n - 1
      PROVE  link'[i] # ALLOCATED
  <2>1. i \in Objects
    BY <1>1, <1>2 DEF Objects
  <2>2. CASE i < iter
    <3>1. i \in 0 .. iter - 1
      BY <2>2, <1>1 DEF Objects
    <3> QED
      BY <3>1, <2>1, <2>2, <1>1, PutBackSpells DEF HeapInv, SweepInv, SweepFree, Objects
  <2>3. CASE i = iter
    BY <2>3, <1>1, PutBackSpells
  <2>4. CASE i > iter
    <3>1. i \in iter + 1 .. n - 1
      BY <2>4, <1>1, <1>2 DEF Objects
    <3> QED
      BY <3>1, <1>2 DEF IsNextAllocated
  <2> QED
    BY <2>2, <2>3, <2>4, <1>1 DEF Objects
<1>4. n \in 0 .. heap_size /\ n \in Nat
  BY <1>1, <1>2 DEF Objects
<1>5. n < heap_size => link'[n] = ALLOCATED
  BY <1>2 DEF IsNextAllocated
<1>6. SweepInv'
  BY <1>1, <1>2, <1>3, <1>4, <1>5 DEF SweepInv, SweepFree
<1>7. TypeOK'
  BY <1>1, <1>2, <1>4, PutBackSpells DEF HeapInv, TypeOK, SweepFree
<1> QED
  BY <1>1, <1>6, <1>7, PutBackSpells DEF HeapInv, SweepFree

LEMMA SweepEndsHeapInv ==
  ASSUME HeapInv, SweepEnds
  PROVE  HeapInv' /\ Allocated' = Allocated /\ heap_size' = heap_size
<1>1. heap_size \in Nat /\ iter = heap_size
  BY DEF HeapInv, TypeOK, SweepInv, SweepEnds
<1>2. Allocated = {}
  BY <1>1 DEF HeapInv, SweepInv, SweepEnds, Allocated, Objects
<1>3. SweepInv'
  BY <1>2 DEF SweepInv, SweepEnds, Allocated, Objects
<1> QED
  BY <1>3 DEF HeapInv, TypeOK, SweepEnds, Objects, Allocated, Spells, Elements

LEMMA DestroyHeapInv ==
  ASSUME HeapInv, Destroy
  PROVE  HeapInv' /\ Allocated = {} /\ Allocated' = {} /\ heap_size' = 0
<1>1. Objects' = {} /\ Allocated' = {} /\ heap_size' = 0
  BY DEF Destroy, Objects, Allocated
<1>2. free_list' \in Seq(Objects') /\ free_list' = <<>> /\ Len(free_list') = 0
  BY EmptySeq DEF Destroy
<1>3. link' \in [Objects' -> Objects' \cup {LAST_FREE, ALLOCATED}]
  BY <1>1 DEF Destroy
<1>4. TypeOK'
  <2>1. bucket' \in SUBSET Nat
    BY DEF HeapInv, TypeOK, Destroy
  <2>2. num_buckets' \in Nat /\ iter' \in Nat \cup {-1} /\ phase' = "destroyed"
    BY DEF HeapInv, TypeOK, Destroy
  <2>3. next_free' \in Objects' \cup {LAST_FREE}
    BY DEF Destroy
  <2> QED
    BY <1>1, <1>2, <1>3, <2>1, <2>2, <2>3 DEF TypeOK
<1>5. Elements(free_list') = {}
  BY <1>2 DEF Elements
<1>6. Spells(free_list', next_free', link')
  BY <1>2 DEF Spells, Destroy
<1> QED
  BY <1>1, <1>4, <1>5, <1>6 DEF HeapInv, SweepInv, Destroy

LEMMA StutterHeapInv ==
  ASSUME HeapInv, UNCHANGED vars
  PROVE  HeapInv' /\ Allocated' = Allocated /\ heap_size' = heap_size
BY DEF HeapInv, TypeOK, SweepInv, vars, Objects, Allocated, Spells, Elements

LEMMA NextHeapInv ==
  ASSUME HeapInv, [Next]_vars
  PROVE  HeapInv'
<1>1. CASE Allocate
  BY <1>1, AllocateHeapInv
<1>2. CASE AllocateExpanding
  BY <1>2, ExpandingHeapInv
<1>3. CASE AllocateNoMemory
  BY <1>3, NoMemoryHeapInv
<1>4. ASSUME NEW i \in Objects, Free(i)
      PROVE  HeapInv'
  BY <1>4, FreeHeapInv
<1>5. CASE SweepFirst
  BY <1>5, SweepFirstHeapInv
<1>6. CASE SweepFree
  BY <1>6, SweepFreeHeapInv
<1>7. CASE SweepEnds
  BY <1>7, SweepEndsHeapInv
<1>8. CASE Destroy
  BY <1>8, DestroyHeapInv
<1>9. CASE UNCHANGED vars
  BY <1>9, StutterHeapInv
<1> QED
  BY <1>1, <1>2, <1>3, <1>4, <1>5, <1>6, <1>7, <1>8, <1>9 DEF Next
-----------------------------------------------------------------------------
(***************************************************************************)
(* The inductive invariant holds of every heap, whatever the size of its   *)
(* buckets (object_heap_init, object_heap_allocate, object_heap_free).     *)
(***************************************************************************)
THEOREM HeapInvHolds == Spec => []HeapInv
<1>1. Init => HeapInv
  BY InitHeapInv
<1>2. HeapInv /\ [Next]_vars => HeapInv'
  BY NextHeapInv
<1> QED
  BY <1>1, <1>2, PTL DEF Spec

(***************************************************************************)
(* The free list of object_heap.c holds each free object exactly once.     *)
(***************************************************************************)
THEOREM FreeListExactHolds == Spec => []FreeListExact
<1>1. HeapInv => FreeListExact
  BY DEF HeapInv, FreeListExact, Elements
<1> QED
  BY <1>1, HeapInvHolds, PTL

(***************************************************************************)
(* When vaTerminate has iterated over a heap, freeing the objects it       *)
(* found, the assertions of object_heap_destroy hold.                      *)
(***************************************************************************)
THEOREM SweepLeavesNothingHolds == Spec => []SweepLeavesNothing
<1>1. HeapInv => SweepLeavesNothing
  BY DEF HeapInv, SweepInv, SweepLeavesNothing
<1> QED
  BY <1>1, HeapInvHolds, PTL

(***************************************************************************)
(* Type correctness: a heap of any size links objects of its own only.     *)
(***************************************************************************)
THEOREM TypeCorrect == Spec => []TypeOK
<1>1. HeapInv => TypeOK
  BY DEF HeapInv
<1> QED
  BY <1>1, HeapInvHolds, PTL

-----------------------------------------------------------------------------
(***************************************************************************)
(* The heap is a number of whole buckets, which lie one after the other in *)
(* the array.                                                              *)
(***************************************************************************)
Buckets == heap_size \div heap_increment

BucketInv ==
  /\ heap_size = heap_increment * Buckets
  /\ bucket = 0 .. Buckets - 1
  /\ phase # "destroyed" => Buckets <= num_buckets

(* It is enough to give the number of buckets.                             *)
LEMMA BucketInvFrom ==
  ASSUME NEW n \in Nat, heap_size = heap_increment * n, bucket = 0 .. n - 1,
         phase # "destroyed" => n <= num_buckets
  PROVE  BucketInv /\ Buckets = n
<1>1. heap_increment \in Nat \ {0}
  BY ObjectHeapAssumption
<1>2. /\ heap_size \in Nat /\ n \in Int /\ heap_size = heap_increment * n + 0
      /\ 0 \in 0 .. heap_increment - 1
  BY <1>1
<1>3. heap_size \div heap_increment = n
  BY <1>1, <1>2, DivUnique
<1> QED
  BY <1>3 DEF BucketInv, Buckets

(* One bucket to begin with; an expansion adds the next, or fails and adds *)
(* none.                                                                   *)
LEMMA InitBucketInv == Init => BucketInv
<1> SUFFICES ASSUME Init
             PROVE  BucketInv
  OBVIOUS
<1>1. /\ heap_size = heap_increment * 1 /\ bucket = 0 .. 1 - 1 /\ 1 <= num_buckets
      /\ 1 \in Nat
  BY ObjectHeapAssumption DEF Init
<1> QED
  BY <1>1, BucketInvFrom

LEMMA NextBucketInv == HeapInv /\ BucketInv /\ [Next]_vars => BucketInv'
<1> SUFFICES ASSUME HeapInv, BucketInv, [Next]_vars
             PROVE  BucketInv'
  OBVIOUS
<1>1. /\ heap_increment \in Nat \ {0} /\ BucketStep \in Nat \ {0}
      /\ heap_size \in Nat /\ num_buckets \in Nat /\ Buckets \in Nat
  BY ObjectHeapAssumption DEF HeapInv, TypeOK, Buckets
<1>2. /\ heap_size = heap_increment * Buckets /\ bucket = 0 .. Buckets - 1
      /\ phase # "destroyed" => Buckets <= num_buckets
  BY DEF BucketInv
<1>3. BucketIndex(heap_size + heap_increment) = Buckets
  <2>1. /\ heap_size + heap_increment = heap_increment * (Buckets + 1) + 0
        /\ heap_size + heap_increment \in Nat /\ Buckets + 1 \in Int
        /\ 0 \in 0 .. heap_increment - 1
    BY <1>1, <1>2
  <2>2. (heap_size + heap_increment) \div heap_increment = Buckets + 1
    BY <1>1, <2>1, DivUnique
  <2> QED
    BY <1>1, <2>2 DEF BucketIndex
<1>4. CASE AllocateExpanding
  <2>1. /\ heap_size' = heap_increment * (Buckets + 1)
        /\ bucket' = bucket \cup {Buckets}
        /\ num_buckets' = GrownBuckets(heap_size + heap_increment)
        /\ phase' = phase /\ phase = "open"
    BY <1>1, <1>2, <1>3, <1>4 DEF AllocateExpanding
  <2>2. bucket' = 0 .. (Buckets + 1) - 1
    BY <1>1, <1>2, <2>1
  <2>3. Buckets + 1 <= num_buckets' /\ Buckets + 1 \in Nat
    BY <1>1, <1>2, <1>3, <2>1 DEF GrownBuckets
  <2> DEFINE n == Buckets + 1
  <2> HIDE DEF n
  <2>4. /\ n \in Nat /\ heap_size' = heap_increment * n /\ bucket' = 0 .. n - 1
        /\ phase' # "destroyed" => n <= num_buckets'
    BY <2>1, <2>2, <2>3 DEF n
  <2>5. heap_size' \div heap_increment = n
    <3>1. heap_size' \in Nat /\ heap_size' = heap_increment * n + 0 /\ 0 \in 0 .. heap_increment - 1
      BY <1>1, <2>4
    <3> QED
      BY <1>1, <2>4, <3>1, DivUnique
  <2> QED
    BY <2>4, <2>5 DEF BucketInv, Buckets
<1>5. CASE AllocateNoMemory
  <2>1. num_buckets' \in Nat /\ num_buckets <= num_buckets'
    BY <1>1, <1>5 DEF AllocateNoMemory, GrownBuckets
  <2>2. UNCHANGED <<heap_size, bucket, phase>>
    BY <1>5 DEF AllocateNoMemory
  <2> QED
    BY <1>1, <1>2, <2>1, <2>2 DEF BucketInv, Buckets
<1>6. CASE Destroy
  <2>1. heap_size' = 0 /\ bucket' = {} /\ phase' = "destroyed"
    BY <1>2, <1>6 DEF Destroy, Buckets
  <2>2. 0 \div heap_increment = 0
    BY <1>1
  <2> QED
    BY <1>1, <2>1, <2>2 DEF BucketInv, Buckets
<1>7. CASE UNCHANGED <<heap_size, num_buckets, bucket>> /\ phase' # "destroyed"
           /\ phase # "destroyed"
  BY <1>2, <1>7 DEF BucketInv, Buckets
<1>8. CASE UNCHANGED vars
  BY <1>2, <1>8 DEF BucketInv, Buckets, vars
<1>9. Allocate \/ (\E i \in Objects : Free(i)) \/ SweepFirst \/ SweepFree \/ SweepEnds
        => /\ UNCHANGED <<heap_size, num_buckets, bucket>> /\ phase' # "destroyed"
           /\ phase # "destroyed"
  BY DEF Allocate, Free, SweepFirst, SweepFree, SweepEnds
<1> QED
  BY <1>4, <1>5, <1>6, <1>7, <1>8, <1>9 DEF Next

(***************************************************************************)
(* Every object of a heap lies in a bucket that was allocated and has its  *)
(* place in the array (object_heap_expand), whatever expansions failed,    *)
(* and a destroyed heap has no bucket left.                                *)
(***************************************************************************)
THEOREM BucketsMatchHeapHolds == Spec => []BucketsMatchHeap
<1>1. HeapInv /\ BucketInv => BucketsMatchHeap
  <2> SUFFICES ASSUME HeapInv, BucketInv
               PROVE  BucketsMatchHeap
    OBVIOUS
  <2>1. /\ heap_increment \in Nat \ {0} /\ heap_size \in Nat /\ num_buckets \in Nat
        /\ Buckets \in Nat
    BY ObjectHeapAssumption DEF HeapInv, TypeOK, Buckets
  <2>2. /\ heap_size = heap_increment * Buckets /\ bucket = 0 .. Buckets - 1
        /\ phase # "destroyed" => Buckets <= num_buckets
    BY DEF BucketInv
  <2>3. ASSUME NEW i \in Objects
        PROVE  i \div heap_increment \in bucket
    BY <2>1, <2>2, DivRange DEF Objects
  <2>4. ASSUME NEW b \in bucket
        PROVE  \E i \in Objects : b = i \div heap_increment
    <3>1. /\ heap_increment * b \in 0 .. heap_increment * Buckets - 1
          /\ (heap_increment * b) \div heap_increment = b
      BY <2>1, <2>2, MultipleRange
    <3> QED
      BY <2>2, <3>1 DEF Objects
  <2>5. phase # "destroyed" => \A b \in bucket : b < num_buckets
    BY <2>1, <2>2
  <2> QED
    BY <2>3, <2>4, <2>5 DEF BucketsMatchHeap
<1> QED
  BY <1>1, InitBucketInv, NextBucketInv, HeapInvHolds, PTL DEF Spec

(***************************************************************************)
(* The heap implements the pool: it hands out an object that nobody holds, *)
(* and grows only when all are held.                                       *)
(***************************************************************************)
THEOREM HeapImplementsPool == Spec => PoolSpec
<1>1. Init => Pool!Init
  <2>1. Init => heap_size = heap_increment
    BY DEF Init
  <2>2. Init => Allocated = {}
    BY ObjectHeapAssumption DEF Init, Allocated, Objects, ALLOCATED, LAST_FREE
  <2> QED
    BY <2>1, <2>2 DEF Pool!Init
<1>2. HeapInv /\ [Next]_vars => [Pool!Next]_(Pool!vars)
  <2> SUFFICES ASSUME HeapInv, [Next]_vars
               PROVE  [Pool!Next]_(Pool!vars)
    OBVIOUS
  <2> USE DEF Pool!Next, Pool!vars, Pool!Indices
  <2>1. CASE Allocate
    <3>1. next_free \in Objects \ Allocated
      BY <2>1, AllocateHeapInv DEF HeapInv, TypeOK, Allocate
    <3>2. Pool!Take(next_free)
      BY <2>1, <3>1, AllocateHeapInv DEF Pool!Take, Allocate, Objects
    <3> QED
      BY <3>1, <3>2 DEF Objects
  <2>2. CASE AllocateExpanding
    <3>1. heap_size > 0
      BY <2>2 DEF AllocateExpanding, HeapInv
    <3>2. Pool!GrowAndTake
      BY <2>2, <3>1, ExpandingHeapInv DEF Pool!GrowAndTake, Objects
    <3> QED
      BY <3>2
  <2>3. CASE AllocateNoMemory
    BY <2>3, NoMemoryHeapInv
  <2>4. ASSUME NEW i \in Objects, Free(i)
        PROVE  [Pool!Next]_(Pool!vars)
    <3>1. Pool!Release(i)
      BY <2>4, FreeHeapInv DEF Pool!Release, Free
    <3> QED
      BY <3>1 DEF Objects
  <2>5. CASE SweepFirst
    BY <2>5, SweepFirstHeapInv
  <2>6. CASE SweepFree
    <3>1. Pool!Release(iter)
      BY <2>6, SweepFreeHeapInv DEF Pool!Release
    <3>2. iter \in Objects
      BY <2>6, SweepFreeHeapInv DEF Allocated
    <3> QED
      BY <3>1, <3>2 DEF Objects
  <2>7. CASE SweepEnds
    BY <2>7, SweepEndsHeapInv
  <2>8. CASE Destroy
    <3>1. Pool!Close
      BY <2>8, DestroyHeapInv DEF Pool!Close
    <3> QED
      BY <3>1
  <2>9. CASE UNCHANGED vars
    BY <2>9, StutterHeapInv
  <2> QED
    BY <2>1, <2>2, <2>3, <2>4, <2>5, <2>6, <2>7, <2>8, <2>9 DEF Next
<1> QED
  BY <1>1, <1>2, HeapInvHolds, PTL DEF Spec, PoolSpec, Pool!Spec
=============================================================================
