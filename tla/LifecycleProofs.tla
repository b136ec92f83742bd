-------------------------- MODULE LifecycleProofs ---------------------------
(***************************************************************************)
(* Proofs about Lifecycle, for heaps of any size, any number of device     *)
(* buffers and every sequence of calls.                                    *)
(***************************************************************************)
EXTENDS Lifecycle, SequenceTheorems, TLAPS

-----------------------------------------------------------------------------
(* What an allocation and a free do to a heap.                             *)
LEMMA WithObjects ==
  \A heap, new :
    /\ DOMAIN With(heap, new) = DOMAIN heap \cup DOMAIN new
    /\ \A id \in DOMAIN new : With(heap, new)[id] = new[id]
    /\ \A id \in DOMAIN heap : id \notin DOMAIN new => With(heap, new)[id] = heap[id]
BY DEF With

LEMMA WithoutObjects ==
  \A heap, ids :
    /\ DOMAIN Without(heap, ids) = DOMAIN heap \ ids
    /\ \A id \in DOMAIN heap \ ids : Without(heap, ids)[id] = heap[id]
BY DEF Without, Restrict

LEMMA WithOne ==
  \A heap, id, object :
    /\ DOMAIN With(heap, One(id, object)) = DOMAIN heap \cup {id}
    /\ With(heap, One(id, object))[id] = object
    /\ \A x \in DOMAIN heap : x # id => With(heap, One(id, object))[x] = heap[x]
BY DEF With, One

LEMMA HeapsWith ==
  \A ids, objects :
    \A heap \in Heaps(ids, objects), S \in SUBSET ids :
      \A new \in [S -> objects] : With(heap, new) \in Heaps(ids, objects)
<1> TAKE ids, objects
<1> TAKE heap \in Heaps(ids, objects), S \in SUBSET ids
<1> TAKE new \in [S -> objects]
<1>1. PICK T \in SUBSET ids : heap \in [T -> objects]
  BY DEF Heaps
<1>2. With(heap, new) \in [T \cup S -> objects]
  BY <1>1 DEF With
<1> QED
  BY <1>2 DEF Heaps

LEMMA HeapsWithOne ==
  \A ids, objects :
    \A heap \in Heaps(ids, objects), id \in ids, object \in objects :
      With(heap, One(id, object)) \in Heaps(ids, objects)
<1> TAKE ids, objects
<1> TAKE heap \in Heaps(ids, objects), id \in ids, object \in objects
<1>1. One(id, object) \in [{id} -> objects] /\ {id} \in SUBSET ids
  BY DEF One
<1> QED
  BY <1>1, HeapsWith

LEMMA HeapsWithout ==
  \A ids, objects, freed :
    \A heap \in Heaps(ids, objects) : Without(heap, freed) \in Heaps(ids, objects)
<1> TAKE ids, objects, freed
<1> TAKE heap \in Heaps(ids, objects)
<1>1. PICK T \in SUBSET ids : heap \in [T -> objects]
  BY DEF Heaps
<1>2. Without(heap, freed) \in [T \ freed -> objects]
  BY <1>1 DEF Without, Restrict
<1> QED
  BY <1>2 DEF Heaps

LEMMA HeapsEmpty ==
  \A ids, objects : EmptyHeap \in Heaps(ids, objects) /\ DOMAIN EmptyHeap = {}
<1> TAKE ids, objects
<1>1. EmptyHeap \in [{} -> objects] /\ {} \in SUBSET ids
  BY DEF EmptyHeap
<1> QED
  BY <1>1 DEF Heaps, EmptyHeap

(* VIDIOC_CREATE_BUFS never makes more buffers than were asked for, nor    *)
(* more than there may be.                                                 *)
LEMMA GrantedFit ==
  ASSUME NEW count \in Nat, NEW present \in 0 .. VIDEO_MAX_FRAME,
         NEW got \in Granted(count, present)
  PROVE  /\ got \in Nat \ {0}
         /\ got <= count
         /\ present + got \in 0 .. VIDEO_MAX_FRAME
BY LifecycleAssumption DEF Granted, Smaller

-----------------------------------------------------------------------------
HeldType ==
  held \in [config : SUBSET ConfigIds, context : SUBSET ContextIds,
            surface : SUBSET (SurfaceIds \cup {Uninitialised}),
            buffer : SUBSET BufferIds, image : SUBSET ImageIds]

LEMMA InitTypeOK == Init => TypeOK
BY HeapsEmpty, LifecycleAssumption DEF Init, TypeOK, ConfigType

LEMMA NewConfigType ==
  \A id \in ConfigIds, new \in Seq(AttribTypes) :
    /\ ConfigType
    /\ Len(new) <= MAX_CONFIG_ATTRIBUTES
    /\ config' = With(config, One(id, new))
    => ConfigType'
<1> TAKE id \in ConfigIds, new \in Seq(AttribTypes)
<1> HAVE /\ ConfigType
         /\ Len(new) <= MAX_CONFIG_ATTRIBUTES
         /\ config' = With(config, One(id, new))
<1>1. DOMAIN config' = DOMAIN config \cup {id}
  BY WithOne
<1>2. config'[id] = new
  BY WithOne
<1>3. \A c \in DOMAIN config : c # id => config'[c] = config[c]
  BY WithOne
<1> QED
  BY <1>1, <1>2, <1>3 DEF ConfigType

LEMMA ConfigCallsTypeOK == TypeOK /\ ConfigCalls => TypeOK'
<1> SUFFICES ASSUME TypeOK, ConfigCalls PROVE TypeOK'
  OBVIOUS
<1>1. ASSUME NEW l \in AttribLists, CreateConfig(l)
      PROVE  TypeOK'
  <2>1. PICK id \in ConfigIds :
          /\ config' = With(config, One(id, Attributes(l)))
          /\ Give("config", {id})
    BY <1>1 DEF CreateConfig, Unused
  <2>2. Attributes(l) \in Seq(AttribTypes)
    <3>1. \/ l = <<>>
          \/ l \in [1 .. 1 -> AttribTypes]
          \/ l \in [1 .. 2 -> AttribTypes]
      BY DEF AttribLists
    <3>2. <<>> \in Seq(AttribTypes)
      OBVIOUS
    <3>3. \A n \in Nat : [1 .. n -> AttribTypes] \subseteq Seq(AttribTypes)
      BY SeqDef
    <3>4. l \in Seq(AttribTypes)
      BY <3>1, <3>2, <3>3, 1 \in Nat, 2 \in Nat, Zenon
    <3>5. <<"RTFormat">> \in Seq(AttribTypes)
      BY DEF AttribTypes
    <3> QED
      BY <3>4, <3>5 DEF Attributes
  <2>3. ConfigType'
    <3>1. Len(Attributes(l)) <= MAX_CONFIG_ATTRIBUTES
      BY <1>1 DEF CreateConfig, FitsConfig
    <3> QED
      BY <2>1, <2>2, <3>1, NewConfigType DEF TypeOK
  <2>4. HeldType'
    BY <2>1 DEF Give, TypeOK, HeldType
  <2> QED
    BY <1>1, <2>3, <2>4 DEF TypeOK, HeldType, CreateConfig, deviceVars
<1>2. ASSUME NEW c \in held.config, DestroyConfig(c)
      PROVE  TypeOK'
  <2>1. ConfigType'
    <3>1. DOMAIN config' = DOMAIN config \ {c}
      BY <1>2, WithoutObjects DEF DestroyConfig
    <3>2. \A d \in DOMAIN config \ {c} : config'[d] = config[d]
      BY <1>2, WithoutObjects DEF DestroyConfig
    <3> QED
      BY <3>1, <3>2 DEF TypeOK, ConfigType
  <2>2. HeldType'
    BY <1>2 DEF TakeBack, TypeOK, HeldType, DestroyConfig
  <2> QED
    BY <1>2, <2>1, <2>2 DEF TypeOK, HeldType, DestroyConfig, deviceVars
<1> QED
  BY <1>1, <1>2 DEF ConfigCalls

LEMMA MaxRequestNat == 1 .. MaxRequest \subseteq Nat
BY LifecycleAssumption

LEMMA SurfaceCallsTypeOK == TypeOK /\ SurfaceCalls => TypeOK'
<1> SUFFICES ASSUME TypeOK, SurfaceCalls PROVE TypeOK'
  OBVIOUS
<1> DEFINE Indices == 0 .. VIDEO_MAX_FRAME - 1
<1>1. ASSUME NEW n \in 1 .. MaxRequest, CreateSurfaces(n)
      PROVE  TypeOK'
  <2>1. PICK got \in Granted(n, frames), ids \in SUBSET SurfaceIds :
          /\ \E new \in [ids -> OutputBufIndices(got)] : surface' = With(surface, new)
          /\ frames' = frames + got
          /\ mapped' = mapped \cup OutputBufIndices(got)
          /\ \/ Give("surface", ids \cup {Uninitialised}) /\ RunsShort("CreateSurfaces")
             \/ Give("surface", ids) /\ UNCHANGED failed
    BY <1>1 DEF CreateSurfaces, Unused
  <2>2. /\ got \in Nat /\ frames \in Nat
        /\ frames + got \in 0 .. VIDEO_MAX_FRAME
    BY GrantedFit, MaxRequestNat DEF TypeOK
  <2>3. OutputBufIndices(got) \subseteq Indices
    BY <2>2, LifecycleAssumption DEF OutputBufIndices
  <2>4. surface' \in Heaps(SurfaceIds, Indices)
    <3>1. PICK new \in [ids -> OutputBufIndices(got)] : surface' = With(surface, new)
      BY <2>1
    <3>2. new \in [ids -> Indices]
      BY <2>3, <3>1
    <3> QED
      BY <3>1, <3>2, HeapsWith DEF TypeOK
  <2>5. HeldType' /\ failed' \subseteq {"CreateSurfaces", "CreateContext", "CreateBuffer"}
    <3>1. CASE Give("surface", ids \cup {Uninitialised}) /\ RunsShort("CreateSurfaces")
      BY <3>1 DEF Give, RunsShort, TypeOK, HeldType
    <3>2. CASE Give("surface", ids) /\ UNCHANGED failed
      BY <3>2 DEF Give, TypeOK, HeldType
    <3> QED
      BY <2>1, <3>1, <3>2
  <2>6. mapped' \subseteq Indices /\ frames' \in 0 .. VIDEO_MAX_FRAME
    BY <2>1, <2>2, <2>3 DEF TypeOK
  <2> QED
    BY <1>1, <2>4, <2>5, <2>6 DEF TypeOK, ConfigType, HeldType, CreateSurfaces
<1>2. ASSUME NEW n \in 1 .. MaxRequest, CreateSurfacesFails(n)
      PROVE  TypeOK'
  <2>0. PICK got \in Granted(n, frames) :
          /\ \E k \in 0 .. got - 1 : mapped' = mapped \cup OutputBufIndices(k)
          /\ frames' = frames + got
    BY <1>2 DEF CreateSurfacesFails
  <2>1. PICK k \in 0 .. got - 1 : mapped' = mapped \cup OutputBufIndices(k)
    BY <2>0
  <2>2. /\ got \in Nat /\ frames \in Nat
        /\ frames + got \in 0 .. VIDEO_MAX_FRAME
    BY GrantedFit, MaxRequestNat DEF TypeOK
  <2>3. OutputBufIndices(k) \subseteq Indices
    BY <2>1, <2>2, LifecycleAssumption DEF OutputBufIndices
  <2>4. mapped' \subseteq Indices /\ frames' \in 0 .. VIDEO_MAX_FRAME
    BY <2>0, <2>1, <2>2, <2>3 DEF TypeOK
  <2> QED
    BY <1>2, <2>4 DEF TypeOK, ConfigType, CreateSurfacesFails, heapVars
<1>3. CASE CreateSurfacesAborts
  BY <1>3 DEF CreateSurfacesAborts, Aborts, TypeOK, ConfigType, heapVars, deviceVars
<1>4. ASSUME NEW ids, DestroySurfaces(ids)
      PROVE  TypeOK'
  <2>1. surface' \in Heaps(SurfaceIds, Indices)
    BY <1>4, HeapsWithout DEF DestroySurfaces, TypeOK
  <2>2. HeldType'
    BY <1>4 DEF TakeBack, TypeOK, HeldType, DestroySurfaces
  <2> QED
    BY <1>4, <2>1, <2>2 DEF TypeOK, ConfigType, HeldType, DestroySurfaces, deviceVars
<1>5. ASSUME NEW ids, DestroySurfacesAborts(ids)
      PROVE  TypeOK'
  BY <1>5 DEF DestroySurfacesAborts, Aborts, TypeOK, ConfigType, heapVars, deviceVars
<1> QED
  BY <1>1, <1>2, <1>3, <1>4, <1>5 DEF SurfaceCalls

LEMMA SetInputType ==
  ASSUME TypeOK, SetInput
  PROVE  inputs' \in 0 .. VIDEO_MAX_FRAME /\ UNCHANGED <<frames, mapped>>
BY GrantedFit, LifecycleAssumption DEF SetInput, TypeOK

LEMMA ContextCallsTypeOK == TypeOK /\ ContextCalls => TypeOK'
<1> SUFFICES ASSUME TypeOK, ContextCalls PROVE TypeOK'
  OBVIOUS
<1>1. ASSUME NEW c, NEW targets, CreateContext(c, targets)
      PROVE  TypeOK'
  <2>1. PICK id \in ContextIds : context' = context \cup {id} /\ Give("context", {id})
    BY <1>1 DEF CreateContext
  <2>2. HeldType' /\ context' \subseteq ContextIds
    BY <2>1 DEF Give, TypeOK, HeldType
  <2> QED
    BY <1>1, <2>2, SetInputType DEF TypeOK, ConfigType, HeldType, CreateContext
<1>2. ASSUME NEW c, NEW targets, CreateContextInvalidTarget(c, targets)
      PROVE  TypeOK'
  BY <1>2, SetInputType DEF TypeOK, ConfigType, CreateContextInvalidTarget, heapVars
<1>3. ASSUME NEW c, CreateContextFails(c)
      PROVE  TypeOK'
  BY <1>3 DEF TypeOK, ConfigType, CreateContextFails, RunsShort, deviceVars
<1>4. ASSUME NEW c, CreateContextAborts(c)
      PROVE  TypeOK'
  BY <1>4 DEF CreateContextAborts, Aborts, TypeOK, ConfigType, heapVars, deviceVars
<1>5. ASSUME NEW x, DestroyContext(x)
      PROVE  TypeOK'
  <2>1. HeldType' /\ context' \subseteq ContextIds
    BY <1>5 DEF DestroyContext, TakeBack, TypeOK, HeldType
  <2> QED
    BY <1>5, <2>1 DEF TypeOK, ConfigType, HeldType, DestroyContext, deviceVars
<1> QED
  BY <1>1, <1>2, <1>3, <1>4, <1>5 DEF ContextCalls

LEMMA BufferCallsTypeOK == TypeOK /\ BufferCalls => TypeOK'
<1> SUFFICES ASSUME TypeOK, BufferCalls PROVE TypeOK'
  OBVIOUS
<1>1. CASE CreateBuffer
  <2>1. HeldType' /\ buffer' \subseteq BufferIds
    BY <1>1 DEF CreateBuffer, Give, TypeOK, HeldType
  <2> QED
    BY <1>1, <2>1 DEF TypeOK, ConfigType, HeldType, CreateBuffer, deviceVars
<1>2. CASE CreateBufferFails
  BY <1>2 DEF TypeOK, ConfigType, CreateBufferFails, RunsShort, deviceVars
<1>3. ASSUME NEW b, DestroyBuffer(b)
      PROVE  TypeOK'
  <2>1. HeldType' /\ buffer' \subseteq BufferIds
    BY <1>3 DEF DestroyBuffer, TakeBack, TypeOK, HeldType
  <2> QED
    BY <1>3, <2>1 DEF TypeOK, ConfigType, HeldType, DestroyBuffer, deviceVars
<1>4. ASSUME NEW x, CreateSliceDataBufferAborts(x)
      PROVE  TypeOK'
  BY <1>4
     DEF CreateSliceDataBufferAborts, Aborts, TypeOK, ConfigType, heapVars, deviceVars
<1> QED
  BY <1>1, <1>2, <1>3, <1>4 DEF BufferCalls, CreateSliceDataBuffer

LEMMA ImageCallsTypeOK == TypeOK /\ ImageCalls => TypeOK'
<1> SUFFICES ASSUME TypeOK, ImageCalls PROVE TypeOK'
  OBVIOUS
<1>1. CASE CreateImage
  <2>1. PICK id \in ImageIds, b \in BufferIds :
          /\ image' = With(image, One(id, b))
          /\ buffer' = buffer \cup {b}
          /\ Give("image", {id})
    BY <1>1 DEF CreateImage, Unused
  <2>2. image' \in Heaps(ImageIds, BufferIds \cup {NoBuffer})
    BY <2>1, HeapsWithOne DEF TypeOK
  <2>3. HeldType' /\ buffer' \subseteq BufferIds
    BY <2>1 DEF Give, TypeOK, HeldType
  <2> QED
    BY <1>1, <2>2, <2>3 DEF TypeOK, ConfigType, HeldType, CreateImage, deviceVars
<1>2. CASE CreateImageFails
  <2>1. PICK id \in ImageIds : image' = With(image, One(id, NoBuffer))
    BY <1>2 DEF CreateImageFails, Unused
  <2>2. image' \in Heaps(ImageIds, BufferIds \cup {NoBuffer})
    BY <2>1, HeapsWithOne DEF TypeOK
  <2>3. buffer' \subseteq BufferIds
    BY <1>2 DEF CreateImageFails, TypeOK
  <2> QED
    BY <1>2, <2>2, <2>3 DEF TypeOK, ConfigType, CreateImageFails, RunsShort, deviceVars
<1>3. ASSUME NEW i, DestroyImage(i)
      PROVE  TypeOK'
  <2>1. HeldType' /\ buffer' \subseteq BufferIds
    BY <1>3 DEF DestroyImage, TakeBack, TypeOK, HeldType
  <2> QED
    BY <1>3, <2>1 DEF TypeOK, ConfigType, HeldType, DestroyImage, deviceVars
<1>4. ASSUME NEW s, DeriveImageAborts(s)
      PROVE  TypeOK'
  BY <1>4 DEF DeriveImageAborts, Aborts, TypeOK, ConfigType, heapVars, deviceVars
<1> QED
  BY <1>1, <1>2, <1>3, <1>4 DEF ImageCalls, DeriveImage

LEMMA TerminateTypeOK == TypeOK /\ (Terminate \/ TerminateAborts) => TypeOK'
<1> SUFFICES ASSUME TypeOK, Terminate \/ TerminateAborts PROVE TypeOK'
  OBVIOUS
<1>1. CASE Terminate
  BY <1>1, HeapsEmpty DEF Terminate, TypeOK, ConfigType, deviceVars
<1>2. CASE TerminateAborts
  BY <1>2 DEF TerminateAborts, TypeOK, ConfigType, deviceVars
<1> QED
  BY <1>1, <1>2

-----------------------------------------------------------------------------
(***************************************************************************)
(* The handles of the client: what they stand for exists, and the buffer   *)
(* of an image is not one that the client may destroy, nor that of another *)
(* image.  Only with the second fact does vaDestroyImage keep the first.   *)
(***************************************************************************)
HandleInv == TypeOK /\ HandlesValid /\ ImageBufferAlive

LEMMA InitHandleInv == Init => HandleInv
BY InitTypeOK DEF Init, HandleInv, HandlesValid, ImageBufferAlive

LEMMA ConfigCallsHandleInv == HandleInv /\ ConfigCalls => HandleInv'
<1> SUFFICES ASSUME HandleInv, ConfigCalls PROVE HandleInv'
  OBVIOUS
<1>0. TypeOK /\ TypeOK'
  BY ConfigCallsTypeOK DEF HandleInv
<1>1. ASSUME NEW l, CreateConfig(l)
      PROVE  HandlesValid' /\ ImageBufferAlive'
  <2>1. PICK id, new : config' = With(config, One(id, new)) /\ Give("config", {id})
    BY <1>1 DEF CreateConfig
  <2>2. DOMAIN config' = DOMAIN config \cup {id}
    BY <2>1, WithOne
  <2> QED
    BY <1>0, <1>1, <2>1, <2>2
       DEF HandleInv, HandlesValid, ImageBufferAlive, CreateConfig, Give, TypeOK, deviceVars
<1>2. ASSUME NEW c, DestroyConfig(c)
      PROVE  HandlesValid' /\ ImageBufferAlive'
  <2>1. DOMAIN config' = DOMAIN config \ {c}
    BY <1>2, WithoutObjects DEF DestroyConfig
  <2> QED
    BY <1>0, <1>2, <2>1
       DEF HandleInv, HandlesValid, ImageBufferAlive, DestroyConfig, TakeBack, TypeOK, deviceVars
<1> QED
  BY <1>0, <1>1, <1>2 DEF ConfigCalls, HandleInv

LEMMA SurfaceCallsHandleInv == HandleInv /\ SurfaceCalls => HandleInv'
<1> SUFFICES ASSUME HandleInv, SurfaceCalls PROVE HandleInv'
  OBVIOUS
<1>0. TypeOK /\ TypeOK'
  BY SurfaceCallsTypeOK DEF HandleInv
<1>1. ASSUME NEW n \in 1 .. MaxRequest, CreateSurfaces(n)
      PROVE  HandlesValid' /\ ImageBufferAlive'
  <2> DEFINE Unwritten == IF "CreateSurfaces" \in failed THEN {Uninitialised} ELSE {}
  <2>1. PICK ids \in SUBSET SurfaceIds :
          /\ \E new : DOMAIN new = ids /\ surface' = With(surface, new)
          /\ \/ Give("surface", ids \cup {Uninitialised}) /\ RunsShort("CreateSurfaces")
             \/ Give("surface", ids) /\ UNCHANGED failed
    BY <1>1 DEF CreateSurfaces, Unused
  <2>2. DOMAIN surface' = DOMAIN surface \cup ids
    <3>1. PICK new : DOMAIN new = ids /\ surface' = With(surface, new)
      BY <2>1
    <3> QED
      BY <3>1, WithObjects
  <2>3. held.surface \ DOMAIN surface \subseteq Unwritten
    BY <1>1 DEF CreateSurfaces, HandleInv, HandlesValid
  <2>4. held'.surface \ DOMAIN surface' \subseteq Unwritten'
    <3>1. CASE Give("surface", ids \cup {Uninitialised}) /\ RunsShort("CreateSurfaces")
      <4>1. held'.surface = held.surface \cup ids \cup {Uninitialised}
        BY <1>0, <3>1 DEF Give, TypeOK
      <4>2. "CreateSurfaces" \in failed'
        BY <3>1 DEF RunsShort
      <4> QED
        BY <2>2, <2>3, <4>1, <4>2
    <3>2. CASE Give("surface", ids) /\ UNCHANGED failed
      <4>1. held'.surface = held.surface \cup ids
        BY <1>0, <3>2 DEF Give, TypeOK
      <4> QED
        BY <2>2, <2>3, <3>2, <4>1
    <3> QED
      BY <2>1, <3>1, <3>2
  <2>5. held' = [held EXCEPT !.surface = held'.surface]
    BY <1>0, <2>1 DEF Give, TypeOK
  <2> QED
    BY <1>0, <1>1, <2>4, <2>5
       DEF HandleInv, HandlesValid, ImageBufferAlive, CreateSurfaces, TypeOK
<1>2. ASSUME NEW n, CreateSurfacesFails(n)
      PROVE  HandlesValid' /\ ImageBufferAlive'
  BY <1>2 DEF HandleInv, HandlesValid, ImageBufferAlive, CreateSurfacesFails, heapVars
<1>3. ASSUME CreateSurfacesAborts \/ \E ids : DestroySurfacesAborts(ids)
      PROVE  HandlesValid' /\ ImageBufferAlive'
  BY <1>3 DEF CreateSurfacesAborts, DestroySurfacesAborts, Aborts, HandlesValid, ImageBufferAlive
<1>4. ASSUME NEW ids, DestroySurfaces(ids)
      PROVE  HandlesValid' /\ ImageBufferAlive'
  <2>1. DOMAIN surface' = DOMAIN surface \ ids
    BY <1>4, WithoutObjects DEF DestroySurfaces
  <2> QED
    BY <1>0, <1>4, <2>1
       DEF HandleInv, HandlesValid, ImageBufferAlive, DestroySurfaces, TakeBack, TypeOK, deviceVars
<1>5. HandlesValid' /\ ImageBufferAlive'
  BY <1>1, <1>2, <1>3, <1>4 DEF SurfaceCalls
<1> QED
  BY <1>0, <1>5 DEF HandleInv

LEMMA ContextCallsHandleInv == HandleInv /\ ContextCalls => HandleInv'
<1> SUFFICES ASSUME HandleInv, ContextCalls PROVE HandleInv'
  OBVIOUS
<1>0. TypeOK /\ TypeOK'
  BY ContextCallsTypeOK DEF HandleInv
<1>1. ASSUME NEW c, NEW targets, CreateContext(c, targets)
      PROVE  HandlesValid' /\ ImageBufferAlive'
  BY <1>0, <1>1
     DEF HandleInv, HandlesValid, ImageBufferAlive, CreateContext, MayCreateContext,
         SetInput, Give, TypeOK
<1>2. ASSUME NEW c, NEW targets, CreateContextInvalidTarget(c, targets)
      PROVE  HandlesValid' /\ ImageBufferAlive'
  BY <1>2 DEF HandleInv, HandlesValid, ImageBufferAlive, CreateContextInvalidTarget,
              MayCreateContext, SetInput, heapVars
<1>3. ASSUME NEW c, CreateContextFails(c)
      PROVE  HandlesValid' /\ ImageBufferAlive'
  BY <1>3 DEF HandleInv, HandlesValid, ImageBufferAlive, CreateContextFails,
              RunsShort, MayCreateContext, deviceVars
<1>4. ASSUME NEW c, CreateContextAborts(c)
      PROVE  HandlesValid' /\ ImageBufferAlive'
  BY <1>4 DEF CreateContextAborts, Aborts, HandlesValid, ImageBufferAlive
<1>5. ASSUME NEW x, DestroyContext(x)
      PROVE  HandlesValid' /\ ImageBufferAlive'
  BY <1>0, <1>5
     DEF HandleInv, HandlesValid, ImageBufferAlive, DestroyContext, TakeBack, TypeOK, deviceVars
<1>6. HandlesValid' /\ ImageBufferAlive'
  BY <1>1, <1>2, <1>3, <1>4, <1>5 DEF ContextCalls
<1> QED
  BY <1>0, <1>6 DEF HandleInv

LEMMA BufferCallsHandleInv == HandleInv /\ BufferCalls => HandleInv'
<1> SUFFICES ASSUME HandleInv, BufferCalls PROVE HandleInv'
  OBVIOUS
<1>0. TypeOK /\ TypeOK'
  BY BufferCallsTypeOK DEF HandleInv
<1>1. ASSUME CreateBuffer
      PROVE  HandlesValid' /\ ImageBufferAlive'
  BY <1>0, <1>1
     DEF HandleInv, HandlesValid, ImageBufferAlive, CreateBuffer, Give, TypeOK, deviceVars
<1>2. ASSUME CreateBufferFails
      PROVE  HandlesValid' /\ ImageBufferAlive'
  BY <1>2 DEF HandleInv, HandlesValid, ImageBufferAlive, CreateBufferFails,
              RunsShort, deviceVars
<1>3. ASSUME NEW b \in held.buffer, DestroyBuffer(b)
      PROVE  HandlesValid' /\ ImageBufferAlive'
  BY <1>0, <1>3
     DEF HandleInv, HandlesValid, ImageBufferAlive, DestroyBuffer, TakeBack, TypeOK, deviceVars
<1>4. ASSUME NEW x, CreateSliceDataBufferAborts(x)
      PROVE  HandlesValid' /\ ImageBufferAlive'
  BY <1>4 DEF CreateSliceDataBufferAborts, Aborts, HandlesValid, ImageBufferAlive
<1>5. HandlesValid' /\ ImageBufferAlive'
  BY <1>1, <1>2, <1>3, <1>4 DEF BufferCalls, CreateSliceDataBuffer
<1> QED
  BY <1>0, <1>5 DEF HandleInv

LEMMA ImageCallsHandleInv == HandleInv /\ ImageCalls => HandleInv'
<1> SUFFICES ASSUME HandleInv, ImageCalls PROVE HandleInv'
  OBVIOUS
<1>0. TypeOK /\ TypeOK'
  BY ImageCallsTypeOK DEF HandleInv
<1>1. ASSUME CreateImage
      PROVE  HandlesValid' /\ ImageBufferAlive'
  <2>1. PICK id \in Unused(image, ImageIds), b \in BufferIds \ buffer :
          /\ image' = With(image, One(id, b))
          /\ buffer' = buffer \cup {b}
          /\ Give("image", {id})
    BY <1>1 DEF CreateImage
  <2>2. DOMAIN image' = DOMAIN image \cup {id} /\ id \notin DOMAIN image
    BY <2>1, WithOne DEF Unused
  <2>3. image'[id] = b
    BY <2>1, WithOne
  <2>4. \A i \in DOMAIN image : image'[i] = image[i]
    BY <2>1, <2>2, WithOne
  <2>5. held' = [held EXCEPT !.image = held.image \cup {id}]
    BY <1>0, <2>1 DEF Give, TypeOK
  <2>6. ImageBufferAlive'
    <3>1. phase = "open" /\ phase' = "open"
      BY <1>1 DEF CreateImage
    <3>2. held'.image = held.image \cup {id} /\ held'.buffer = held.buffer
      BY <1>0, <2>5 DEF TypeOK
    <3>3. b \notin buffer /\ held.buffer \subseteq buffer
      BY <2>1, <3>1 DEF HandleInv, HandlesValid
    <3> QED
      BY <2>1, <2>2, <2>3, <2>4, <3>1, <3>2, <3>3 DEF HandleInv, ImageBufferAlive
  <2>7. HandlesValid'
    BY <1>0, <1>1, <2>1, <2>5 DEF HandleInv, HandlesValid, CreateImage, TypeOK, deviceVars
  <2> QED
    BY <2>6, <2>7
<1>2. ASSUME CreateImageFails
      PROVE  HandlesValid' /\ ImageBufferAlive'
  <2>1. PICK id \in Unused(image, ImageIds) : image' = With(image, One(id, NoBuffer))
    BY <1>2 DEF CreateImageFails
  <2>2. DOMAIN image' = DOMAIN image \cup {id} /\ id \notin DOMAIN image
    BY <2>1, WithOne DEF Unused
  <2>3. \A i \in DOMAIN image : image'[i] = image[i]
    BY <2>1, <2>2, WithOne
  <2>4. buffer \subseteq buffer'
    BY <1>2 DEF CreateImageFails
  <2> QED
    BY <1>2, <2>2, <2>3, <2>4
       DEF HandleInv, HandlesValid, ImageBufferAlive, CreateImageFails, RunsShort, deviceVars
<1>3. ASSUME NEW i \in held.image, DestroyImage(i)
      PROVE  HandlesValid' /\ ImageBufferAlive'
  <2>1. held' = [held EXCEPT !.image = held.image \ {i}]
    BY <1>0, <1>3 DEF DestroyImage, TakeBack, TypeOK
  <2>2. image[i] \notin held.buffer /\ \A j \in held.image \ {i} : image[i] # image[j]
    BY <1>3 DEF DestroyImage, HandleInv, ImageBufferAlive
  <2> QED
    BY <1>0, <1>3, <2>1, <2>2
       DEF HandleInv, HandlesValid, ImageBufferAlive, DestroyImage, TypeOK, deviceVars
<1>4. ASSUME NEW s, DeriveImageAborts(s)
      PROVE  HandlesValid' /\ ImageBufferAlive'
  BY <1>4 DEF DeriveImageAborts, Aborts, HandlesValid, ImageBufferAlive
<1>5. HandlesValid' /\ ImageBufferAlive'
  BY <1>1, <1>2, <1>3, <1>4 DEF ImageCalls, DeriveImage
<1> QED
  BY <1>0, <1>5 DEF HandleInv

LEMMA NextHandleInv == HandleInv /\ [Next]_vars => HandleInv'
<1> SUFFICES ASSUME HandleInv, [Next]_vars PROVE HandleInv'
  OBVIOUS
<1>1. CASE Terminate \/ TerminateAborts
  BY <1>1, TerminateTypeOK
     DEF HandleInv, Terminate, TerminateAborts, HandlesValid, ImageBufferAlive
<1>2. CASE UNCHANGED vars
  BY <1>2 DEF HandleInv, TypeOK, ConfigType, HandlesValid, ImageBufferAlive,
              vars, heapVars, deviceVars
<1> QED
  BY <1>1, <1>2, ConfigCallsHandleInv, SurfaceCallsHandleInv, ContextCallsHandleInv,
     BufferCallsHandleInv, ImageCallsHandleInv DEF Next

(***************************************************************************)
(* The inductive invariant holds: types, valid handles and the buffers of  *)
(* images, whatever call fails.                                            *)
(***************************************************************************)
THEOREM HandleInvHolds == Spec => []HandleInv
BY InitHandleInv, NextHandleInv, PTL DEF Spec

(* Type correctness of the life cycle: every capture buffer that is mapped *)
(* has a place in luma_bufs and chroma_bufs, and no list of attributes     *)
(* grows beyond its array (TypeOK).                                        *)
THEOREM TypeCorrect == Spec => []TypeOK
BY HandleInvHolds, PTL DEF HandleInv

(* The handles that the client was given and has not given back are valid, *)
(* whatever call fails half way, except for the unwritten surface ids that *)
(* it reads after a vaCreateSurfaces was granted fewer buffers than it     *)
(* asked for (HandlesValid).                                               *)
THEOREM HandlesValidHolds == Spec => []HandlesValid
BY HandleInvHolds, PTL DEF HandleInv

(* The buffer of an image that the client holds exists, is no other        *)
(* image's and none that vaDestroyBuffer might be given (ImageBufferAlive).*)
THEOREM ImageBufferAliveHolds == Spec => []ImageBufferAlive
BY HandleInvHolds, PTL DEF HandleInv

-----------------------------------------------------------------------------
LEMMA CreateSurfacesOwnCaptureBuffer ==
  ASSUME TypeOK, OwnCaptureBuffer, NEW n \in 1 .. MaxRequest, CreateSurfaces(n)
  PROVE  OwnCaptureBuffer'
<1>1. PICK got \in Granted(n, frames), ids \in SUBSET Unused(surface, SurfaceIds) :
        /\ \E new \in [ids -> OutputBufIndices(got)] :
             IsInjective(new) /\ surface' = With(surface, new)
        /\ frames' = frames + got
        /\ mapped' = mapped \cup OutputBufIndices(got)
  BY DEF CreateSurfaces
<1>2. frames \in Nat /\ got \in Nat
  BY GrantedFit, MaxRequestNat DEF TypeOK
<1>3. PICK new \in [ids -> OutputBufIndices(got)] :
        IsInjective(new) /\ surface' = With(surface, new)
  BY <1>1
<1>5. /\ DOMAIN surface' = DOMAIN surface \cup ids
      /\ ids \cap DOMAIN surface = {}
  BY <1>3, WithObjects DEF Unused
<1>6. \A s \in ids : surface'[s] = new[s]
  BY <1>3, WithObjects
<1>7. \A s \in DOMAIN surface : surface'[s] = surface[s]
  BY <1>3, <1>5, WithObjects
<1>8. \A s \in ids : new[s] \in frames .. frames + got - 1 /\ new[s] \in mapped'
  BY <1>1, <1>3 DEF OutputBufIndices
<1>9. \A s \in DOMAIN surface : surface[s] \in Nat /\ surface[s] < frames
  <2>1. \A s \in DOMAIN surface : surface[s] \in 0 .. VIDEO_MAX_FRAME - 1
    BY DEF TypeOK, Heaps
  <2> QED
    BY <2>1 DEF OwnCaptureBuffer
<1>10. \A s \in DOMAIN surface' : surface'[s] < frames' /\ surface'[s] \in mapped'
  BY <1>1, <1>2, <1>5, <1>6, <1>7, <1>8, <1>9 DEF OwnCaptureBuffer
<1>11. ASSUME NEW s \in DOMAIN surface', NEW t \in DOMAIN surface', surface'[s] = surface'[t]
       PROVE  s = t
  <2>1. CASE s \in ids /\ t \in ids
    BY <1>3, <1>6, <1>11, <2>1 DEF IsInjective
  <2>2. CASE s \in DOMAIN surface /\ t \in DOMAIN surface
    BY <1>7, <1>11, <2>2 DEF OwnCaptureBuffer
  <2>3. CASE (s \in ids /\ t \in DOMAIN surface) \/ (s \in DOMAIN surface /\ t \in ids)
    BY <1>2, <1>6, <1>7, <1>8, <1>9, <1>11, <2>3
  <2> QED
    BY <1>5, <2>1, <2>2, <2>3
<1> QED
  BY <1>10, <1>11 DEF OwnCaptureBuffer

LEMMA NextOwnCaptureBuffer ==
  TypeOK /\ OwnCaptureBuffer /\ [Next]_vars => OwnCaptureBuffer'
<1> SUFFICES ASSUME TypeOK, OwnCaptureBuffer, [Next]_vars PROVE OwnCaptureBuffer'
  OBVIOUS
<1>1. CASE SurfaceCalls
  <2>1. ASSUME NEW n \in 1 .. MaxRequest, CreateSurfacesFails(n)
        PROVE  OwnCaptureBuffer'
    <3>1. surface' = surface /\ mapped \subseteq mapped'
      BY <2>1 DEF CreateSurfacesFails, heapVars
    <3>2. frames \in Nat /\ frames' \in Nat /\ frames <= frames'
      <4>1. PICK got \in Granted(n, frames) : frames' = frames + got
        BY <2>1 DEF CreateSurfacesFails
      <4>2. got \in Nat /\ frames \in Nat
        BY GrantedFit, MaxRequestNat DEF TypeOK
      <4> QED
        BY <4>1, <4>2
    <3>3. \A s \in DOMAIN surface : surface[s] \in Nat
      BY DEF TypeOK, Heaps
    <3> QED
      BY <3>1, <3>2, <3>3 DEF OwnCaptureBuffer
  <2>2. ASSUME NEW ids, DestroySurfaces(ids)
        PROVE  OwnCaptureBuffer'
    <3>1. /\ DOMAIN surface' = DOMAIN surface \ ids
          /\ \A s \in DOMAIN surface \ ids : surface'[s] = surface[s]
      BY <2>2, WithoutObjects DEF DestroySurfaces
    <3>2. mapped' = mapped /\ frames' = frames
      BY <2>2 DEF DestroySurfaces, deviceVars
    <3> QED
      BY <3>1, <3>2 DEF OwnCaptureBuffer
  <2>3. ASSUME CreateSurfacesAborts \/ \E ids : DestroySurfacesAborts(ids)
        PROVE  OwnCaptureBuffer'
    BY <2>3 DEF CreateSurfacesAborts, DestroySurfacesAborts, Aborts, heapVars, deviceVars,
                OwnCaptureBuffer
  <2> QED
    BY <1>1, <2>1, <2>2, <2>3, CreateSurfacesOwnCaptureBuffer DEF SurfaceCalls
<1>2. CASE ~SurfaceCalls
  <2>1. UNCHANGED <<surface, frames, mapped>>
    BY <1>2 DEF Next, vars, heapVars, deviceVars, ConfigCalls, CreateConfig, DestroyConfig,
       ContextCalls, CreateContext, CreateContextInvalidTarget, CreateContextFails,
       CreateContextAborts, DestroyContext, SetInput, Aborts, BufferCalls, CreateBuffer,
       CreateSliceDataBuffer, CreateSliceDataBufferAborts, CreateBufferFails, DestroyBuffer,
       ImageCalls, DeriveImage, DeriveImageAborts, CreateImage, CreateImageFails,
       DestroyImage, Terminate, TerminateAborts
  <2> QED
    BY <2>1 DEF OwnCaptureBuffer
<1> QED
  BY <1>1, <1>2

(***************************************************************************)
(* No two surfaces share a capture buffer and each has one that exists and *)
(* is mapped (OwnCaptureBuffer), for any sequence of vaCreateSurfaces and  *)
(* vaDestroySurfaces, those that fail half way included.                   *)
(***************************************************************************)
THEOREM OwnCaptureBufferHolds == Spec => []OwnCaptureBuffer
<1>1. Init => OwnCaptureBuffer
  BY DEF Init, EmptyHeap, OwnCaptureBuffer
<1> QED
  BY <1>1, TypeCorrect, NextOwnCaptureBuffer, PTL DEF Spec

-----------------------------------------------------------------------------
LEMMA NextOnlyFailuresLeak ==
  HandleInv /\ OnlyFailuresLeak /\ [Next]_vars => OnlyFailuresLeak'
<1> SUFFICES ASSUME HandleInv, OnlyFailuresLeak, [Next]_vars PROVE OnlyFailuresLeak'
  OBVIOUS
<1>0. HeldType
  BY DEF HandleInv, TypeOK, HeldType
<1>1. ASSUME NEW l, CreateConfig(l)
      PROVE  OnlyFailuresLeak'
  <2>1. PICK id, new : config' = With(config, One(id, new)) /\ Give("config", {id})
    BY <1>1 DEF CreateConfig
  <2>2. DOMAIN config' = DOMAIN config \cup {id}
    BY <2>1, WithOne
  <2> QED
    BY <1>0, <1>1, <2>1, <2>2 DEF OnlyFailuresLeak, CreateConfig, Give, HeldType
<1>2. ASSUME NEW c, DestroyConfig(c)
      PROVE  OnlyFailuresLeak'
  <2>1. DOMAIN config' = DOMAIN config \ {c}
    BY <1>2, WithoutObjects DEF DestroyConfig
  <2> QED
    BY <1>0, <1>2, <2>1 DEF OnlyFailuresLeak, DestroyConfig, TakeBack, HeldType
<1>3. ASSUME NEW n, CreateSurfaces(n)
      PROVE  OnlyFailuresLeak'
  <2>1. PICK ids \in SUBSET SurfaceIds :
          /\ \E new : DOMAIN new = ids /\ surface' = With(surface, new)
          /\ Give("surface", ids \cup {Uninitialised}) \/ Give("surface", ids)
          /\ failed \subseteq failed'
    BY <1>3 DEF CreateSurfaces, Unused, RunsShort
  <2>2. DOMAIN surface' = DOMAIN surface \cup ids
    <3>1. PICK new : DOMAIN new = ids /\ surface' = With(surface, new)
      BY <2>1
    <3> QED
      BY <3>1, WithObjects
  <2>3. /\ held' = [held EXCEPT !.surface = held'.surface]
        /\ held.surface \cup ids \subseteq held'.surface
    BY <1>0, <2>1 DEF Give, HeldType
  <2> QED
    BY <1>0, <1>3, <2>1, <2>2, <2>3 DEF OnlyFailuresLeak, CreateSurfaces, HeldType
<1>4. ASSUME NEW n, CreateSurfacesFails(n)
      PROVE  OnlyFailuresLeak'
  BY <1>4 DEF OnlyFailuresLeak, CreateSurfacesFails, heapVars
<1>5. ASSUME NEW ids, DestroySurfaces(ids)
      PROVE  OnlyFailuresLeak'
  <2>1. DOMAIN surface' = DOMAIN surface \ ids
    BY <1>5, WithoutObjects DEF DestroySurfaces
  <2> QED
    BY <1>0, <1>5, <2>1 DEF OnlyFailuresLeak, DestroySurfaces, TakeBack, HeldType
<1>6. ASSUME NEW c, NEW targets, CreateContext(c, targets)
      PROVE  OnlyFailuresLeak'
  BY <1>0, <1>6 DEF OnlyFailuresLeak, CreateContext, MayCreateContext, Give, HeldType
<1>7. ASSUME NEW c, NEW targets, CreateContextInvalidTarget(c, targets)
      PROVE  OnlyFailuresLeak'
  BY <1>7 DEF OnlyFailuresLeak, CreateContextInvalidTarget, heapVars
<1>8. ASSUME NEW c, CreateContextFails(c)
      PROVE  OnlyFailuresLeak'
  BY <1>8 DEF OnlyFailuresLeak, CreateContextFails, RunsShort
<1>9. ASSUME NEW x, DestroyContext(x)
      PROVE  OnlyFailuresLeak'
  BY <1>0, <1>9 DEF OnlyFailuresLeak, DestroyContext, TakeBack, HeldType
<1>10. ASSUME CreateBuffer
       PROVE  OnlyFailuresLeak'
  BY <1>0, <1>10 DEF OnlyFailuresLeak, CreateBuffer, Give, HeldType
<1>11. ASSUME CreateBufferFails \/ CreateImageFails
       PROVE  OnlyFailuresLeak'
  BY <1>11 DEF OnlyFailuresLeak, CreateBufferFails, CreateImageFails, RunsShort
<1>12. ASSUME NEW b, DestroyBuffer(b)
       PROVE  OnlyFailuresLeak'
  BY <1>0, <1>12 DEF OnlyFailuresLeak, DestroyBuffer, TakeBack, HeldType
<1>13. ASSUME CreateImage
       PROVE  OnlyFailuresLeak'
  <2>1. PICK id \in Unused(image, ImageIds), b \in BufferIds \ buffer :
          /\ image' = With(image, One(id, b))
          /\ buffer' = buffer \cup {b}
          /\ Give("image", {id})
    BY <1>13 DEF CreateImage
  <2>2. image'[id] = b
    BY <2>1, WithOne
  <2>3. \A i \in DOMAIN image : image'[i] = image[i]
    BY <2>1, WithOne DEF Unused
  <2>4. held' = [held EXCEPT !.image = held.image \cup {id}]
    BY <1>0, <2>1 DEF Give, HeldType
  <2>5. held.image \subseteq DOMAIN image
    BY <1>13 DEF CreateImage, HandleInv, ImageBufferAlive
  <2> QED
    BY <1>0, <1>13, <2>1, <2>2, <2>3, <2>4, <2>5 DEF OnlyFailuresLeak, CreateImage, HeldType
<1>14. ASSUME NEW i, DestroyImage(i)
       PROVE  OnlyFailuresLeak'
  <2>1. held' = [held EXCEPT !.image = held.image \ {i}]
    BY <1>0, <1>14 DEF DestroyImage, TakeBack, HeldType
  <2> QED
    BY <1>0, <1>14, <2>1 DEF OnlyFailuresLeak, DestroyImage, HeldType
<1>15. ASSUME \/ CreateSurfacesAborts \/ \E ids : DestroySurfacesAborts(ids)
              \/ \E c : CreateContextAborts(c)
              \/ \E x : CreateSliceDataBufferAborts(x)
              \/ \E s : DeriveImageAborts(s)
              \/ Terminate \/ TerminateAborts
       PROVE  OnlyFailuresLeak'
  BY <1>15 DEF OnlyFailuresLeak, CreateSurfacesAborts, DestroySurfacesAborts,
               CreateContextAborts, CreateSliceDataBufferAborts, DeriveImageAborts, Aborts,
               Terminate, TerminateAborts
<1>16. ASSUME UNCHANGED vars
       PROVE  OnlyFailuresLeak'
  BY <1>16 DEF OnlyFailuresLeak, vars, heapVars
<1> QED
  BY <1>1, <1>2, <1>3, <1>4, <1>5, <1>6, <1>7, <1>8, <1>9, <1>10, <1>11, <1>12, <1>13,
     <1>14, <1>15, <1>16
     DEF Next, ConfigCalls, SurfaceCalls, ContextCalls, BufferCalls, CreateSliceDataBuffer,
         ImageCalls, DeriveImage

LEMMA NextTidyTerminate ==
  OnlyFailuresLeak /\ TidyTerminate /\ [Next]_vars => TidyTerminate'
<1> SUFFICES ASSUME OnlyFailuresLeak, TidyTerminate, [Next]_vars, phase' = "Terminate"
             PROVE  TidyTerminate'
  BY DEF TidyTerminate
<1>1. CASE TerminateAborts
  BY <1>1 DEF TerminateAborts, LeftOver, OnlyFailuresLeak, TidyTerminate
<1>2. CASE UNCHANGED vars
  BY <1>2 DEF vars, TidyTerminate
<1> QED
  BY <1>1, <1>2 DEF Next, ConfigCalls, CreateConfig, DestroyConfig, SurfaceCalls,
     CreateSurfaces, CreateSurfacesFails, CreateSurfacesAborts, DestroySurfaces,
     DestroySurfacesAborts, ContextCalls, CreateContext, CreateContextInvalidTarget,
     CreateContextFails, CreateContextAborts, DestroyContext, MayCreateContext, Aborts,
     BufferCalls, CreateBuffer, CreateSliceDataBuffer, CreateSliceDataBufferAborts,
     CreateBufferFails, DestroyBuffer, ImageCalls, DeriveImage, DeriveImageAborts,
     CreateImage, CreateImageFails, DestroyImage, Terminate

(***************************************************************************)
(* Surfaces and configurations never stay without a handle, contexts and   *)
(* buffers only after a vaCreateContext or vaCreateBuffer that ran out of  *)
(* memory (OnlyFailuresLeak, which leaves the objects of images out).      *)
(***************************************************************************)
THEOREM OnlyFailuresLeakHolds == Spec => []OnlyFailuresLeak
<1>1. Init => OnlyFailuresLeak
  BY DEF Init, EmptyHeap, OnlyFailuresLeak
<1> QED
  BY <1>1, HandleInvHolds, NextOnlyFailuresLeak, PTL DEF Spec

(***************************************************************************)
(* A client that gives its surfaces and its contexts back can terminate    *)
(* the driver, unless a vaCreateContext ran out of memory: no assertion of *)
(* object_heap_destroy fails (TidyTerminate).                              *)
(***************************************************************************)
THEOREM TidyTerminateHolds == Spec => []TidyTerminate
<1>1. Init => TidyTerminate
  BY DEF Init, EmptyHeap, TidyTerminate
<1> QED
  BY <1>1, OnlyFailuresLeakHolds, NextTidyTerminate, PTL DEF Spec
=============================================================================
