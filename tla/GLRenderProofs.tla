---------------------------- MODULE GLRenderProofs ----------------------------
(***************************************************************************)
(* For every number of buffers, every set of formats and any number of     *)
(* probes, sessions and failing calls: CleanUp finds every object that the *)
(* renderer made, and an open renderer, and a pool over its buffers, have  *)
(* all that render draws with.                                             *)
(***************************************************************************)
EXTENDS GLRender, FiniteSetTheorems, WellFoundedInduction, TLAPS

BeforeBuffers == {"vertex_shader", "fragment_shader", "map_texture",
                  "register_image", "texture"}
AfterBuffers  == {"texture1", "texture2", "compile", "link", "colour"}

\* The steps at which glu32_tex may still name what a probe has left in it.
BeforeTex == {"vertex_shader", "fragment_shader", "map_texture", "texture"}

\* The steps of open before the one that makes a member, glu32_tex apart.
Before == [k \in Members |->
             CASE k = "gli32_v"       -> {"vertex_shader"}
               [] k = "gli32_f"       -> {"vertex_shader", "fragment_shader"}
               [] k = "glu32_tex"     -> BeforeTex
               [] k = "glu32_tex1"    -> BeforeBuffers \cup {"map_buffer", "texture1"}
               [] k = "glu32_tex2"    -> BeforeBuffers
                                         \cup {"map_buffer", "texture1", "texture2"}
               [] k = "glu32_program" -> Steps \ {"colour"}]

Good(i) == pptr[i] \in {"live", "mapping"}
           /\ (gl_map_mode # {"NVIDIA_MAP_TEXT"} => glu32_buf[i] # NoObject)

\* With nothing opened since the last close, or with no renderer, nothing is
\* there but the texture of a probe.
Quiet ==
    /\ fresh => /\ pc \notin Steps /\ ~b_opened
                /\ \A k \in Members \ {"glu32_tex"} : name[k] = NoObject
                /\ \A i \in Slots : glu32_buf[i] = NoObject
    /\ pc \in {"delete", "pool_delete", "free_delete"} => fresh
    /\ ~alive => /\ fresh /\ pc \in {"idle", "pool", "free"}
                 /\ name["glu32_tex"] = NoObject
    /\ b_opened => pc = "idle"

\* Each step of open has what the steps before it made, and no more.
MembersMade ==
    /\ \A k \in Members \ {"glu32_tex"} : pc \in Before[k] => name[k] = NoObject
    /\ \A k \in Members :
          (pc \in Steps \ Before[k] \/ b_opened) =>
              name[k] # NoObject \/ (k = "glu32_tex" /\ gl_map_mode = {"INTEL_MAP_TEXT"})

BuffersMade ==
    /\ pc \in BeforeBuffers => next_buf = 1 /\ \A i \in Slots : glu32_buf[i] = NoObject
    /\ pc = "texture" => u8_buf_num = 0
    /\ pc = "map_buffer" =>
          \A i \in Slots : IF i < next_buf THEN Good(i) ELSE glu32_buf[i] = NoObject
    /\ pc \in AfterBuffers \/ b_opened =>
          (u8_buf_num > 0 => b_alloc_buf) /\ \A i \in 1 .. u8_buf_num : Good(i)

ModeChosen ==
    /\ gl_map_mode \subseteq supported
    /\ (pc \in Steps \/ b_opened) /\ u8_buf_num > 0 => Cardinality(gl_map_mode) = 1

\* A pool over mapped buffers is that of the open renderer, or one the close in
\* progress is about to drop: its names are gone, its memory is not.
PoolOfOpen ==
    pc_framebuffer.mapped =>
        \/ /\ b_opened
           /\ pc_framebuffer.count = u8_buf_num /\ pc_framebuffer.glvar = glu32_buf
        \/ /\ pc \in {"pool", "pool_delete"}
           /\ \A i \in 1 .. pc_framebuffer.count : pptr[i] \in {"live", "mapping"}

\* Why the driver always has a name left.
LostBounded ==
    /\ Cardinality(lost) <= MaxLost
    /\ fresh \/ pc \in BeforeTex =>
          Cardinality(lost \cup ({name["glu32_tex"]} \ {NoObject})) <= MaxLost

IInv ==
    /\ TypeOK /\ NoDanglingName /\ NoObjectLost
    /\ Quiet /\ MembersMade /\ BuffersMade /\ ModeChosen /\ PoolOfOpen /\ LostBounded

-----------------------------------------------------------------------------
(***************************************************************************)
(* A driver of MaxObjects names has one left for each object open makes.   *)
(***************************************************************************)
\* The names a renderer can hold are finitely many.
LEMMA NamesAreFinite ==
    /\ IsFiniteSet(Members) /\ Cardinality(Members) \in Nat
    /\ IsFiniteSet(Slots) /\ Cardinality(Slots) = MaxBufs
    /\ IsFiniteSet(Objects) /\ Cardinality(Objects) = MaxObjects
<1>1. IsFiniteSet(Members) /\ Cardinality(Members) \in Nat
    <2>1. IsFiniteSet({"gli32_v"})
        BY FS_Singleton
    <2>2. IsFiniteSet({"gli32_v"} \cup {"gli32_f"})
        BY <2>1, FS_AddElement
    <2>3. IsFiniteSet(({"gli32_v"} \cup {"gli32_f"}) \cup {"glu32_program"})
        BY <2>2, FS_AddElement
    <2>4. IsFiniteSet((({"gli32_v"} \cup {"gli32_f"}) \cup {"glu32_program"})
                      \cup {"glu32_tex"})
        BY <2>3, FS_AddElement
    <2>5. IsFiniteSet(((({"gli32_v"} \cup {"gli32_f"}) \cup {"glu32_program"})
                       \cup {"glu32_tex"}) \cup {"glu32_tex1"})
        BY <2>4, FS_AddElement
    <2>6. IsFiniteSet((((({"gli32_v"} \cup {"gli32_f"}) \cup {"glu32_program"})
                       \cup {"glu32_tex"}) \cup {"glu32_tex1"}) \cup {"glu32_tex2"})
        BY <2>5, FS_AddElement
    <2>7. Members = (((({"gli32_v"} \cup {"gli32_f"}) \cup {"glu32_program"})
                       \cup {"glu32_tex"}) \cup {"glu32_tex1"}) \cup {"glu32_tex2"}
        BY DEF Members
    <2> QED BY <2>6, <2>7, FS_CardinalityType
<1>2. IsFiniteSet(Slots) /\ Cardinality(Slots) = MaxBufs
    BY FS_Interval, GLRenderAssumption DEF Slots
<1>3. IsFiniteSet(Objects) /\ Cardinality(Objects) = MaxObjects
    BY FS_Interval, GLRenderAssumption DEF Objects
<1> QED BY <1>1, <1>2, <1>3

\* A function has no more values than arguments.
LEMMA ImageBound ==
    ASSUME NEW f, NEW D, NEW T, IsFiniteSet(D), \A t \in T : \E d \in D : t = f[d]
    PROVE  IsFiniteSet(T) /\ Cardinality(T) \in Nat /\ Cardinality(T) <= Cardinality(D)
<1> DEFINE g == [d \in {d \in D : f[d] \in T} |-> f[d]]
<1>1. IsFiniteSet({d \in D : f[d] \in T})
      /\ Cardinality({d \in D : f[d] \in T}) <= Cardinality(D)
    BY FS_Subset
<1>2. g \in Surjection({d \in D : f[d] \in T}, T)
    BY DEF Surjection
<1>3. IsFiniteSet(T) /\ Cardinality(T) <= Cardinality({d \in D : f[d] \in T})
    BY <1>1, <1>2, FS_Surjection
<1> QED BY <1>1, <1>3, FS_CardinalityType

LEMMA UnionBound ==
    ASSUME NEW S, NEW T, IsFiniteSet(S), IsFiniteSet(T)
    PROVE  /\ IsFiniteSet(S \cup T) /\ Cardinality(S \cup T) \in Nat
           /\ Cardinality(S) \in Nat /\ Cardinality(T) \in Nat
           /\ Cardinality(S \cup T) <= Cardinality(S) + Cardinality(T)
<1>1. IsFiniteSet(S \cup T) /\ IsFiniteSet(S \cap T)
    BY FS_Union, FS_Intersection
<1>2. Cardinality(S \cup T) \in Nat /\ Cardinality(S) \in Nat /\ Cardinality(T) \in Nat
      /\ Cardinality(S \cap T) \in Nat
    BY <1>1, FS_CardinalityType
<1>3. Cardinality(S \cup T) = Cardinality(S) + Cardinality(T) - Cardinality(S \cap T)
    BY FS_Union
<1> QED BY <1>1, <1>2, <1>3

\* While fewer than MaxObjects names are in use, the smallest one left exists.
LEMMA SpareObject ==
    ASSUME TypeOK, NEW S, IsFiniteSet(S), Cardinality(S) < MaxObjects,
           \A n \in Objects : gl[n] # "none" => n \in S
    PROVE  NewObject \in Objects /\ gl[NewObject] = "none"
<1>1. Unused # {}
    <2> SUFFICES ASSUME Unused = {} PROVE FALSE
        OBVIOUS
    <2>1. Objects \subseteq S
        BY DEF Unused
    <2>2. Cardinality(Objects) <= Cardinality(S)
        BY <2>1, FS_Subset
    <2> QED BY <2>2, NamesAreFinite, GLRenderAssumption, FS_CardinalityType
<1>2. Unused \subseteq Nat
    BY DEF Unused, Objects
<1>3. PICK n \in Unused : \A k \in Unused : ~ (<<k, n>> \in OpToRel(<, Nat))
    BY <1>1, <1>2, NatLessThanWellFounded, WFMin
<1>4. ASSUME NEW k \in Unused PROVE n <= k
    <2>1. n \in Nat /\ k \in Nat
        BY <1>2
    <2>2. ~ (<<k, n>> \in OpToRel(<, Nat))
        BY <1>3
    <2>3. <<k, n>> \in Nat \X Nat /\ <<k, n>>[1] = k /\ <<k, n>>[2] = n
        BY <2>1
    <2>4. ~ (k < n)
        BY <2>2, <2>3 DEF OpToRel
    <2> QED BY <2>1, <2>4
<1>5. NewObject \in Unused
    BY <1>4 DEF NewObject
<1> QED BY <1>5 DEF Unused

\* A member that names nothing, or what will be lost, can be made.
LEMMA SpareForMember ==
    ASSUME TypeOK, NoObjectLost, NEW m \in Members,
           Cardinality(lost \cup ({name[m]} \ {NoObject})) <= MaxLost
    PROVE  NewObject \in Objects /\ gl[NewObject] = "none"
<1> DEFINE N == {name[k] : k \in Members \ {m}}
           B == {glu32_buf[i] : i \in Slots}
           L == lost \cup ({name[m]} \ {NoObject})
<1>1. IsFiniteSet(Members \ {m}) /\ Cardinality(Members \ {m}) = Cardinality(Members) - 1
    BY NamesAreFinite, FS_RemoveElement
<1>2. IsFiniteSet(N) /\ Cardinality(N) \in Nat /\ Cardinality(N) <= Cardinality(Members) - 1
    BY <1>1, ImageBound
<1>3. IsFiniteSet(B) /\ Cardinality(B) \in Nat /\ Cardinality(B) <= MaxBufs
    BY NamesAreFinite, ImageBound
<1>4. IsFiniteSet(L)
    <2>1. L \subseteq Objects
        BY DEF TypeOK
    <2> QED BY <2>1, NamesAreFinite, FS_Subset
<1> HIDE DEF N, B, L
<1>5. IsFiniteSet(N \cup B) /\ Cardinality(N \cup B) \in Nat
      /\ Cardinality(N \cup B) <= Cardinality(Members) - 1 + MaxBufs
    BY <1>2, <1>3, UnionBound, NamesAreFinite, GLRenderAssumption
<1>6. /\ IsFiniteSet((N \cup B) \cup L) /\ Cardinality((N \cup B) \cup L) \in Nat
      /\ Cardinality((N \cup B) \cup L) <= Cardinality(N \cup B) + Cardinality(L)
      /\ Cardinality(L) \in Nat
    BY <1>4, <1>5, UnionBound
<1>7. Cardinality((N \cup B) \cup L) < MaxObjects
    <2>1. Cardinality(L) <= MaxLost
        BY DEF L
    <2> QED BY <1>5, <1>6, <2>1, NamesAreFinite, GLRenderAssumption
<1>8. \A n \in Objects : gl[n] # "none" => n \in (N \cup B) \cup L
    BY DEF N, B, L, NoObjectLost, Named, Objects, NoObject
<1> QED BY <1>6, <1>7, <1>8, SpareObject

\* So can the object of a slot that names nothing.
LEMMA SpareForSlot ==
    ASSUME TypeOK, NoObjectLost, NEW j \in Slots, glu32_buf[j] = NoObject,
           Cardinality(lost) <= MaxLost
    PROVE  NewObject \in Objects /\ gl[NewObject] = "none"
<1> DEFINE N == {name[k] : k \in Members}
           B == {glu32_buf[i] : i \in Slots \ {j}}
<1>1. IsFiniteSet(Slots \ {j}) /\ Cardinality(Slots \ {j}) = MaxBufs - 1
    BY NamesAreFinite, FS_RemoveElement
<1>2. IsFiniteSet(N) /\ Cardinality(N) \in Nat /\ Cardinality(N) <= Cardinality(Members)
    BY NamesAreFinite, ImageBound
<1>3. IsFiniteSet(B) /\ Cardinality(B) \in Nat /\ Cardinality(B) <= MaxBufs - 1
    BY <1>1, ImageBound
<1>4. IsFiniteSet(lost)
    BY NamesAreFinite, FS_Subset DEF TypeOK
<1> HIDE DEF N, B
<1>5. IsFiniteSet(N \cup B) /\ Cardinality(N \cup B) \in Nat
      /\ Cardinality(N \cup B) <= Cardinality(Members) + MaxBufs - 1
    BY <1>2, <1>3, UnionBound, NamesAreFinite, GLRenderAssumption
<1>6. /\ IsFiniteSet((N \cup B) \cup lost) /\ Cardinality((N \cup B) \cup lost) \in Nat
      /\ Cardinality((N \cup B) \cup lost) <= Cardinality(N \cup B) + Cardinality(lost)
      /\ Cardinality(lost) \in Nat
    BY <1>4, <1>5, UnionBound
<1>7. Cardinality((N \cup B) \cup lost) < MaxObjects
    BY <1>5, <1>6, NamesAreFinite, GLRenderAssumption
<1>8. \A n \in Objects : gl[n] # "none" => n \in (N \cup B) \cup lost
    BY DEF N, B, NoObjectLost, Named, Objects, NoObject
<1> QED BY <1>6, <1>7, <1>8, SpareObject

-----------------------------------------------------------------------------
(***************************************************************************)
(* What making an object and CleanUp do to the objects.                    *)
(***************************************************************************)
\* A new object is of its member's kind, and is no other member's or slot's.
LEMMA NewMember ==
    ASSUME TypeOK, NoDanglingName, NoObjectLost, NEW m \in Members,
           NewObject \in Objects, gl[NewObject] = "none",
           name' = [name EXCEPT ![m] = NewObject],
           gl' = [gl EXCEPT ![NewObject] = KindOf[m]],
           lost' = lost \cup ({name[m]} \ {NoObject}),
           UNCHANGED glu32_buf,
           BufKind' = BufKind \/ \A i \in Slots : glu32_buf[i] = NoObject
    PROVE  /\ name' \in [Members -> Objects \cup {NoObject}]
           /\ gl' \in [Objects -> Kinds \cup {"none"}]
           /\ lost' \subseteq Objects
           /\ NoDanglingName' /\ NoObjectLost'
           /\ name'[m] # NoObject /\ \A k \in Members \ {m} : name'[k] = name[k]
<1> DEFINE o == NewObject
<1>1. KindOf[m] \in Kinds /\ KindOf \in [Members -> Kinds] /\ "none" \notin Kinds
    BY DEF KindOf, Kinds
<1>2. o \in Objects /\ o # NoObject /\ gl[o] = "none"
    BY DEF Objects, NoObject
<1> HIDE DEF o
<1>3. name' = [name EXCEPT ![m] = o] /\ gl' = [gl EXCEPT ![o] = KindOf[m]]
    BY DEF o
<1>4. /\ name' \in [Members -> Objects \cup {NoObject}]
      /\ gl' \in [Objects -> Kinds \cup {"none"}]
      /\ lost' \subseteq Objects
      /\ name'[m] = o /\ \A k \in Members \ {m} : name'[k] = name[k]
      /\ gl'[o] = KindOf[m] /\ \A n \in Objects \ {o} : gl'[n] = gl[n]
    BY <1>1, <1>2, <1>3 DEF TypeOK
<1>5. \A k \in Members : name[k] # o
    BY <1>1, <1>2 DEF NoDanglingName
<1>6. \A i \in Slots : glu32_buf[i] # o
    BY <1>2 DEF NoDanglingName, BufKind
<1>7. NoDanglingName'
    <2>1. \A k \in Members : name'[k] # NoObject => gl'[name'[k]] = KindOf[k]
        BY <1>2, <1>4, <1>5 DEF NoDanglingName, TypeOK
    <2>2. \A i \in Slots : glu32_buf[i] # NoObject =>
              glu32_buf[i] \in Objects /\ gl'[glu32_buf[i]] = gl[glu32_buf[i]]
        BY <1>4, <1>6 DEF TypeOK
    <2>3. \A i \in Slots : glu32_buf'[i] # NoObject => gl'[glu32_buf'[i]] = BufKind'
        BY <2>2 DEF NoDanglingName
    <2>4. \A k \in Members, i \in Slots :
              name'[k] # NoObject => name'[k] # glu32_buf'[i]
        BY <1>4, <1>6 DEF NoDanglingName
    <2> QED BY <2>1, <2>3, <2>4 DEF NoDanglingName, KindOf
<1>8. NoObjectLost'
    <2> SUFFICES ASSUME NEW n \in Objects, gl'[n] # "none" PROVE n \in (Named \cup lost)'
        BY DEF NoObjectLost
    <2>1. CASE n = o
        BY <2>1, <1>4 DEF Named
    <2>2. CASE n # o
        <3>1. n \in Named \cup lost
            BY <2>2, <1>4 DEF NoObjectLost
        <3>2. CASE \E i \in Slots : n = glu32_buf[i]
            BY <3>2 DEF Named
        <3>3. CASE \E k \in Members : n = name[k]
            <4>1. PICK k \in Members : n = name[k]
                BY <3>3
            <4>2. n # NoObject
                BY DEF Objects, NoObject
            <4>3. CASE k = m
                BY <4>1, <4>2, <4>3
            <4>4. CASE k # m
                BY <4>1, <4>4, <1>4 DEF Named
            <4> QED BY <4>3, <4>4
        <3>4. CASE n \in lost
            BY <3>4
        <3> QED BY <3>1, <3>2, <3>3, <3>4 DEF Named
    <2> QED BY <2>1, <2>2
<1> QED BY <1>2, <1>4, <1>7, <1>8

\* The same of a slot.
LEMMA NewBuffer ==
    ASSUME TypeOK, NoDanglingName, NoObjectLost, NEW j \in Slots,
           NewObject \in Objects, gl[NewObject] = "none", glu32_buf[j] = NoObject,
           glu32_buf' = [glu32_buf EXCEPT ![j] = NewObject],
           gl' = [gl EXCEPT ![NewObject] = BufKind],
           UNCHANGED <<name, lost, gl_map_mode>>
    PROVE  /\ glu32_buf' \in [Slots -> Objects \cup {NoObject}]
           /\ gl' \in [Objects -> Kinds \cup {"none"}]
           /\ NoDanglingName' /\ NoObjectLost'
           /\ glu32_buf'[j] # NoObject
           /\ \A i \in Slots \ {j} : glu32_buf'[i] = glu32_buf[i]
<1> DEFINE o == NewObject
<1>1. BufKind \in Kinds /\ BufKind' = BufKind /\ "none" \notin Kinds
      /\ KindOf \in [Members -> Kinds]
    BY DEF BufKind, Kinds, KindOf
<1>2. o \in Objects /\ o # NoObject /\ gl[o] = "none"
    BY DEF Objects, NoObject
<1> HIDE DEF o
<1>3. glu32_buf' = [glu32_buf EXCEPT ![j] = o] /\ gl' = [gl EXCEPT ![o] = BufKind]
    BY DEF o
<1>4. /\ glu32_buf' \in [Slots -> Objects \cup {NoObject}]
      /\ gl' \in [Objects -> Kinds \cup {"none"}]
      /\ glu32_buf'[j] = o /\ \A i \in Slots \ {j} : glu32_buf'[i] = glu32_buf[i]
      /\ gl'[o] = BufKind /\ \A n \in Objects \ {o} : gl'[n] = gl[n]
    BY <1>1, <1>2, <1>3 DEF TypeOK
<1>5. \A k \in Members : name[k] # o
    BY <1>1, <1>2 DEF NoDanglingName
<1>6. \A i \in Slots : glu32_buf[i] # o
    BY <1>1, <1>2 DEF NoDanglingName
<1>7. NoDanglingName'
    <2>1. \A k \in Members : name[k] # NoObject =>
              name[k] \in Objects /\ gl'[name[k]] = gl[name[k]]
        BY <1>4, <1>5 DEF TypeOK
    <2>2. \A k \in Members : name'[k] # NoObject => gl'[name'[k]] = KindOf[k]
        BY <2>1 DEF NoDanglingName
    <2>3. \A i \in Slots : glu32_buf'[i] # NoObject => gl'[glu32_buf'[i]] = BufKind'
        BY <1>1, <1>2, <1>4, <1>6 DEF NoDanglingName, TypeOK
    <2>4. \A k \in Members, i \in Slots :
              name'[k] # NoObject => name'[k] # glu32_buf'[i]
        BY <1>4, <1>5 DEF NoDanglingName
    <2> QED BY <2>2, <2>3, <2>4 DEF NoDanglingName, KindOf
<1>8. NoObjectLost'
    <2> SUFFICES ASSUME NEW n \in Objects, gl'[n] # "none" PROVE n \in (Named \cup lost)'
        BY DEF NoObjectLost
    <2>1. CASE n = o
        BY <2>1, <1>4 DEF Named
    <2>2. CASE n # o
        <3>1. n \in Named \cup lost
            BY <2>2, <1>4 DEF NoObjectLost
        <3>2. CASE \E k \in Members : n = name[k]
            BY <3>2 DEF Named
        <3>3. CASE \E i \in Slots : n = glu32_buf[i]
            <4>1. PICK i \in Slots : n = glu32_buf[i]
                BY <3>3
            <4>2. i # j
                BY <4>1 DEF Objects, NoObject
            <4> QED BY <4>1, <4>2, <1>4 DEF Named
        <3>4. CASE n \in lost
            BY <3>4
        <3> QED BY <3>1, <3>2, <3>3, <3>4 DEF Named
    <2> QED BY <2>1, <2>2
<1> QED BY <1>2, <1>4, <1>7, <1>8

\* CleanUp deletes every object but the lost ones, and forgets their names.
LEMMA ObjectsDeleted ==
    ASSUME TypeOK, NoDanglingName, NoObjectLost, DeleteObjects, UNCHANGED lost
    PROVE  /\ name' \in [Members -> Objects \cup {NoObject}]
           /\ glu32_buf' \in [Slots -> Objects \cup {NoObject}]
           /\ gl' \in [Objects -> Kinds \cup {"none"}]
           /\ \A k \in Members : name'[k] = NoObject
           /\ \A i \in Slots : glu32_buf'[i] = NoObject
           /\ NoDanglingName' /\ NoObjectLost'
<1>1. /\ gl' = [n \in Objects |-> IF n \in Deleted THEN "none" ELSE gl[n]]
      /\ name' = [k \in Members |-> NoObject]
      /\ glu32_buf' = [i \in Slots |-> NoObject]
    BY DEF DeleteObjects
<1>2. /\ name' \in [Members -> Objects \cup {NoObject}]
      /\ glu32_buf' \in [Slots -> Objects \cup {NoObject}]
      /\ gl' \in [Objects -> Kinds \cup {"none"}]
      /\ \A k \in Members : name'[k] = NoObject
      /\ \A i \in Slots : glu32_buf'[i] = NoObject
    BY <1>1 DEF TypeOK
<1>3. NoDanglingName'
    BY <1>2 DEF NoDanglingName
<1>4. NoObjectLost'
    <2> SUFFICES ASSUME NEW n \in Objects, gl'[n] # "none" PROVE n \in lost
        BY DEF NoObjectLost
    <2>1. n \notin Deleted /\ gl[n] # "none"
        BY <1>1
    <2>2. n \in Named \cup lost
        BY <2>1 DEF NoObjectLost
    <2>3. n # NoObject
        BY DEF Objects, NoObject
    <2>4. ASSUME NEW i \in Slots, n = glu32_buf[i] PROVE FALSE
        BY <2>1, <2>3, <2>4 DEF Deleted, NoDanglingName
    <2> QED BY <2>1, <2>2, <2>4 DEF Named, Deleted
<1> QED BY <1>2, <1>3, <1>4

\* What freeing does to the pointers it reaches, and to the others.
LEMMA PointersFreed ==
    ASSUME TypeOK, FreeMappings
    PROVE  pptr' \in [Slots -> {"unset", "live", "mapping", "freed", "corrupt"}]
<1> DEFINE P == {"unset", "live", "mapping", "freed", "corrupt"}
<1>1. CASE UNCHANGED pptr
    BY <1>1 DEF TypeOK
<1>2. CASE pptr' \in {f \in [Slots -> UNION {AfterFree(pptr[i]) : i \in Slots}
                                  \cup {pptr[i] : i \in Slots}] :
                   \A i \in Slots : f[i] \in IF i <= u8_buf_num
                                             THEN AfterFree(pptr[i])
                                             ELSE {pptr[i]}}
    <2>1. \A i \in Slots : pptr[i] \in P /\ AfterFree(pptr[i]) \subseteq P
        BY DEF TypeOK, AfterFree
    <2>2. \E R : pptr' \in [Slots -> R]
        BY <1>2
    <2>3. \A i \in Slots : pptr'[i] \in P
        BY <1>2, <2>1
    <2> QED BY <2>2, <2>3
<1> QED BY <1>1, <1>2 DEF FreeMappings

-----------------------------------------------------------------------------
(***************************************************************************)
(* The steps.                                                              *)
(***************************************************************************)
LEMMA StepNames ==
    /\ "idle" \notin Steps /\ "delete" \notin Steps
    /\ CleanUpSteps \cap Steps = {}
    /\ "pool" \notin Steps /\ "free" \notin Steps
    /\ "pool_delete" \notin Steps /\ "free_delete" \notin Steps
    /\ BeforeBuffers \subseteq Steps /\ AfterBuffers \subseteq Steps
    /\ BeforeTex \subseteq Steps /\ "map_buffer" \in Steps
    /\ \A k \in Members : Before[k] \subseteq Steps
BY DEF Steps, CleanUpSteps, BeforeBuffers, AfterBuffers, BeforeTex, Before, Members

\* A call that fails leaves nothing of what open made.
LEMMA FailStep == ASSUME IInv, pc \in Steps, Fail PROVE IInv'
<1>1. /\ pc' = "pool" /\ DeleteObjects
      /\ UNCHANGED <<alive, sessionVars, pptr, next_buf, pc_framebuffer, supported,
                     lost, appVars>>
    BY DEF Fail, Goto
<1>2. TypeOK' /\ NoDanglingName' /\ NoObjectLost'
    BY <1>1, ObjectsDeleted DEF IInv, TypeOK, CleanUpSteps, sessionVars, appVars
<1>3. ~fresh /\ ~b_opened /\ alive /\ ~pc_framebuffer.mapped
    BY StepNames DEF IInv, Quiet, PoolOfOpen
<1>4. /\ ~fresh' /\ ~b_opened' /\ alive' /\ ~pc_framebuffer'.mapped
      /\ pc' \notin Steps /\ pc' \notin {"delete", "pool_delete", "free_delete"}
    BY <1>1, <1>3, StepNames DEF sessionVars, appVars
<1>5. Quiet' /\ PoolOfOpen' /\ MembersMade' /\ BuffersMade'
    BY <1>1, <1>4, StepNames
       DEF Quiet, PoolOfOpen, MembersMade, BuffersMade, Before, Steps,
           BeforeBuffers, AfterBuffers
<1>6. ModeChosen' /\ LostBounded'
    BY <1>1, <1>4, StepNames
       DEF IInv, ModeChosen, LostBounded, sessionVars, Steps, BeforeTex
<1> QED BY <1>2, <1>5, <1>6 DEF IInv

\* A member of open: what each step has is what the step before it has, and
\* the member it made.
LEMMA CreateStep ==
    ASSUME IInv, NEW m \in Members, NEW to \in Steps,
           pc \in Steps, pc \in Before[m], CreateObject(pc, m, KindOf[m], to),
           \A k \in Members \ {"glu32_tex"} :
               to \in Before[k] => pc \in Before[k] /\ k # m,
           \A k \in Members : to \notin Before[k] =>
               \/ pc \notin Before[k] \/ k = m
               \/ k = "glu32_tex" /\ gl_map_mode = {"INTEL_MAP_TEXT"},
           to \in BeforeBuffers \cup {"map_buffer"} => pc \in BeforeBuffers,
           to = "texture" => u8_buf_num = 0,
           to \in AfterBuffers => pc \in AfterBuffers \/ pc = "texture",
           to \in BeforeTex => pc \in BeforeTex /\ m # "glu32_tex"
    PROVE  IInv'
<1>1. CASE name[m] = NoObject /\ Fail
    BY <1>1, FailStep
<1>2. CASE /\ name' = [name EXCEPT ![m] = NewObject]
           /\ gl' = [gl EXCEPT ![NewObject] = KindOf[m]]
           /\ lost' = lost \cup ({name[m]} \ {NoObject})
           /\ Goto(to)
           /\ UNCHANGED <<alive, sessionVars, glu32_buf, pptr, next_buf,
                          pc_framebuffer, supported, appVars>>
    <2>1. Cardinality(lost \cup ({name[m]} \ {NoObject})) <= MaxLost
        <3>1. CASE m = "glu32_tex"
            BY <3>1 DEF IInv, LostBounded, Before, Members
        <3>2. CASE m # "glu32_tex"
            <4>1. lost \cup ({name[m]} \ {NoObject}) = lost
                BY <3>2 DEF IInv, MembersMade
            <4> QED BY <4>1 DEF IInv, LostBounded
        <3> QED BY <3>1, <3>2
    <2>2. NewObject \in Objects /\ gl[NewObject] = "none"
        BY <2>1, SpareForMember DEF IInv
    <2>3. /\ name' \in [Members -> Objects \cup {NoObject}]
          /\ gl' \in [Objects -> Kinds \cup {"none"}]
          /\ lost' \subseteq Objects
          /\ NoDanglingName' /\ NoObjectLost'
          /\ name'[m] # NoObject /\ \A k \in Members \ {m} : name'[k] = name[k]
        BY <1>2, <2>2, NewMember DEF IInv, BufKind, sessionVars
    <2>4. TypeOK'
        BY <1>2, <2>3 DEF IInv, TypeOK, Goto, sessionVars, appVars
    <2>5. ~fresh /\ ~b_opened /\ alive /\ pc' = to
        BY <1>2, StepNames DEF IInv, Quiet, Goto
    <2>6. ~fresh' /\ ~b_opened' /\ alive' /\ pc' # "delete" /\ pc' # "idle"
        BY <1>2, <2>5, StepNames DEF sessionVars, appVars
    <2>7. Quiet' /\ PoolOfOpen'
        <3>1. ~pc_framebuffer.mapped /\ ~pc_framebuffer'.mapped
            BY <1>2, <2>5, StepNames DEF IInv, PoolOfOpen
        <3>2. pc' \notin {"delete", "pool_delete", "free_delete"}
            BY <2>5, StepNames
        <3> QED BY <1>2, <2>6, <3>1, <3>2 DEF Quiet, PoolOfOpen
    <2>8. MembersMade'
        <3>1. ASSUME NEW k \in Members \ {"glu32_tex"}, to \in Before[k]
              PROVE  name'[k] = NoObject
            BY <3>1, <2>3 DEF IInv, MembersMade
        <3>2. ASSUME NEW k \in Members, to \notin Before[k]
              PROVE  name'[k] # NoObject
                     \/ (k = "glu32_tex" /\ gl_map_mode' = {"INTEL_MAP_TEXT"})
            BY <1>2, <3>2, <2>3 DEF IInv, MembersMade, sessionVars
        <3> QED BY <2>5, <2>6, <3>1, <3>2 DEF MembersMade, Before
    <2>9. BuffersMade'
        <3>1. to \in BeforeBuffers =>
                  next_buf' = 1 /\ \A i \in Slots : glu32_buf'[i] = NoObject
            BY <1>2 DEF IInv, BuffersMade, BeforeBuffers
        <3>2. to = "map_buffer" =>
                  next_buf' = 1 /\ \A i \in Slots : glu32_buf'[i] = NoObject
            BY <1>2 DEF IInv, BuffersMade, BeforeBuffers
        <3>3. to = "texture" => u8_buf_num' = 0
            BY <1>2 DEF sessionVars
        <3>4. to \in AfterBuffers =>
                 (u8_buf_num' > 0 => b_alloc_buf') /\ \A i \in 1 .. u8_buf_num' : Good(i)'
            <4>1. u8_buf_num' = u8_buf_num /\ b_alloc_buf' = b_alloc_buf
                  /\ \A i : Good(i) => Good(i)'
                BY <1>2 DEF sessionVars, Good
            <4>2. CASE pc \in AfterBuffers
                BY <4>1, <4>2 DEF IInv, BuffersMade
            <4>3. CASE pc = "texture"
                <5>1. u8_buf_num' = 0
                    BY <4>1, <4>3 DEF IInv, BuffersMade
                <5> QED BY <5>1
            <4> QED BY <4>2, <4>3
        <3>5. \A i \in Slots : ~(i < 1)
            BY GLRenderAssumption DEF Slots
        <3> QED BY <2>5, <2>6, <3>1, <3>2, <3>3, <3>4, <3>5 DEF BuffersMade
    <2>10. ModeChosen'
        BY <1>2, <2>5 DEF IInv, ModeChosen, sessionVars
    <2>11. LostBounded'
        <3>1. Cardinality(lost') <= MaxLost
            BY <1>2, <2>1
        <3>2. ASSUME to \in BeforeTex
              PROVE  lost' \cup ({name'["glu32_tex"]} \ {NoObject})
                     = lost \cup ({name["glu32_tex"]} \ {NoObject})
            <4>1. name'["glu32_tex"] = name["glu32_tex"]
                BY <2>3, <3>2 DEF Members
            <4>2. lost' = lost
                BY <1>2, <3>2 DEF IInv, MembersMade
            <4> QED BY <4>1, <4>2
        <3> QED BY <2>5, <2>6, <3>1, <3>2 DEF IInv, LostBounded
    <2> QED BY <2>3, <2>4, <2>7, <2>8, <2>9, <2>10, <2>11 DEF IInv
<1> QED BY <1>1, <1>2 DEF CreateObject

\* A step of open that only passes a test, or gives up without CleanUp.
LEMMA CalmStep ==
    ASSUME IInv,
           UNCHANGED <<alive, sessionVars, name, glu32_buf, pptr, next_buf,
                       pc_framebuffer, driverVars, appVars>>,
           \/ pc = "register_image" /\ pc' \in {"map_buffer", "idle"}
           \/ pc = "compile" /\ pc' = "link"
    PROVE  IInv'
<1>1. TypeOK' /\ NoDanglingName' /\ NoObjectLost' /\ PoolOfOpen'
    BY DEF IInv, TypeOK, NoDanglingName, NoObjectLost, PoolOfOpen, KindOf, BufKind, Named,
           Steps, sessionVars, driverVars, appVars
<1>2. pc \in Steps /\ ~fresh /\ ~b_opened /\ alive
    BY DEF IInv, Quiet, Steps
<1>3. Quiet' /\ ModeChosen' /\ LostBounded'
    BY <1>2 DEF IInv, Quiet, ModeChosen, LostBounded, BeforeTex, Steps,
                sessionVars, driverVars, appVars
<1>4. MembersMade'
    BY <1>2 DEF IInv, MembersMade, Before, BeforeTex, BeforeBuffers, Steps, Members,
                sessionVars, driverVars, appVars
<1>5. BuffersMade'
    <2>1. CASE pc = "register_image"
        <3>1. next_buf = 1 /\ \A i \in Slots : glu32_buf[i] = NoObject
            BY <2>1 DEF IInv, BuffersMade, BeforeBuffers
        <3>2. \A i \in Slots : ~(i < 1)
            BY GLRenderAssumption DEF Slots
        <3> QED BY <1>2, <2>1, <3>1, <3>2
                DEF BuffersMade, BeforeBuffers, AfterBuffers, sessionVars
    <2>2. CASE pc = "compile"
        BY <1>2, <2>2 DEF IInv, BuffersMade, BeforeBuffers, AfterBuffers, Good, sessionVars
    <2> QED BY <2>1, <2>2
<1> QED BY <1>1, <1>3, <1>4, <1>5 DEF IInv

\* The loop over the slots maps the next one, or ends with all of them mapped.
LEMMA MapBufferStep == ASSUME IInv, MapBuffer PROVE IInv'
<1>1. pc = "map_buffer" /\ ~fresh /\ ~b_opened /\ alive
      /\ u8_buf_num \in 0 .. MaxBufs /\ next_buf \in 1 .. MaxBufs + 1
    BY DEF MapBuffer, IInv, Quiet, Steps, TypeOK
<1>2. CASE /\ next_buf <= u8_buf_num /\ MapOneBuffer
           /\ UNCHANGED <<alive, pc, sessionVars, name, pc_framebuffer,
                          supported, lost, appVars>>
    <2>1. next_buf \in Slots /\ next_buf' = next_buf + 1
          /\ next_buf' \in 1 .. MaxBufs + 1
        BY <1>1, <1>2, GLRenderAssumption DEF MapOneBuffer, Slots
    <2>2. glu32_buf[next_buf] = NoObject
        BY <1>1, <2>1, GLRenderAssumption DEF IInv, BuffersMade, Slots
    <2>3. /\ pptr' \in [Slots -> {"unset", "live", "mapping", "freed", "corrupt"}]
          /\ pptr'[next_buf] \in {"live", "mapping"}
          /\ \A i \in Slots \ {next_buf} : pptr'[i] = pptr[i]
        BY <1>2, <2>1 DEF MapOneBuffer, IInv, TypeOK
    <2>4. /\ glu32_buf' \in [Slots -> Objects \cup {NoObject}]
          /\ gl' \in [Objects -> Kinds \cup {"none"}]
          /\ NoDanglingName' /\ NoObjectLost'
          /\ gl_map_mode # {"NVIDIA_MAP_TEXT"} => glu32_buf'[next_buf] # NoObject
          /\ \A i \in Slots \ {next_buf} : glu32_buf'[i] = glu32_buf[i]
        <3>1. CASE gl_map_mode = {"NVIDIA_MAP_TEXT"}
            BY <1>2, <3>1 DEF MapOneBuffer, IInv, TypeOK, NoDanglingName, NoObjectLost,
                              BufKind, KindOf, Named, sessionVars
        <3>2. CASE gl_map_mode # {"NVIDIA_MAP_TEXT"}
            <4>1. NewObject \in Objects /\ gl[NewObject] = "none"
                BY <2>1, <2>2, SpareForSlot DEF IInv, LostBounded
            <4>2. /\ glu32_buf' = [glu32_buf EXCEPT ![next_buf] = NewObject]
                  /\ gl' = [gl EXCEPT ![NewObject] = BufKind]
                BY <1>2, <3>2 DEF MapOneBuffer
            <4> QED BY <1>2, <2>1, <2>2, <4>1, <4>2, NewBuffer DEF IInv, sessionVars
        <3> QED BY <3>1, <3>2
    <2>5. TypeOK'
        BY <1>2, <2>1, <2>3, <2>4 DEF IInv, TypeOK, sessionVars, appVars
    <2>6. Quiet' /\ PoolOfOpen' /\ ModeChosen' /\ LostBounded' /\ MembersMade'
        BY <1>1, <1>2, StepNames
           DEF IInv, Quiet, PoolOfOpen, ModeChosen, LostBounded, MembersMade,
               BeforeTex, Before, Steps, sessionVars, appVars
    <2>7. BuffersMade'
        <3>1. ASSUME NEW i \in Slots, i < next_buf' PROVE Good(i)'
            <4>1. CASE i = next_buf
                BY <1>2, <2>3, <2>4, <4>1 DEF Good, sessionVars
            <4>2. CASE i # next_buf
                <5>1. i < next_buf
                    BY <1>1, <2>1, <3>1, <4>2, GLRenderAssumption DEF Slots
                <5>2. Good(i)
                    BY <1>1, <5>1 DEF IInv, BuffersMade
                <5> QED BY <1>2, <2>3, <2>4, <4>2, <5>2 DEF Good, sessionVars
            <4> QED BY <4>1, <4>2
        <3>2. ASSUME NEW i \in Slots, ~(i < next_buf') PROVE glu32_buf'[i] = NoObject
            <4>1. i # next_buf /\ ~(i < next_buf)
                BY <1>1, <2>1, <3>2, GLRenderAssumption DEF Slots
            <4> QED BY <1>1, <2>4, <4>1 DEF IInv, BuffersMade
        <3> QED BY <1>1, <1>2, <3>1, <3>2
                DEF BuffersMade, BeforeBuffers, AfterBuffers, sessionVars
    <2> QED BY <2>4, <2>5, <2>6, <2>7 DEF IInv
<1>3. CASE Fail
    BY <1>1, <1>3, FailStep DEF Steps
<1>4. CASE /\ next_buf > u8_buf_num /\ b_alloc_buf' = TRUE /\ Goto("texture1")
           /\ UNCHANGED <<alive, b_opened, b_resize, u8_buf_num, gl_map_mode, name,
                          glu32_buf, pptr, next_buf, pc_framebuffer,
                          driverVars, appVars>>
    <2>1. TypeOK' /\ NoDanglingName' /\ NoObjectLost' /\ pc' = "texture1"
        BY <1>4 DEF IInv, TypeOK, NoDanglingName, NoObjectLost, KindOf, BufKind, Named,
                    Steps, Goto, driverVars, appVars
    <2>2. Quiet' /\ PoolOfOpen' /\ ModeChosen' /\ LostBounded'
        BY <1>1, <1>4, <2>1
           DEF IInv, Quiet, PoolOfOpen, ModeChosen, LostBounded, BeforeTex, Steps,
               driverVars, appVars
    <2>3. MembersMade'
        BY <1>1, <1>4, <2>1
           DEF IInv, MembersMade, Before, BeforeTex, BeforeBuffers, Steps, Members
    <2>4. \A i \in 1 .. u8_buf_num : Good(i)
        <3> SUFFICES ASSUME NEW i \in 1 .. u8_buf_num PROVE Good(i)
            OBVIOUS
        <3>1. i \in Slots /\ i < next_buf
            BY <1>1, <1>4, GLRenderAssumption DEF Slots
        <3> QED BY <1>1, <3>1 DEF IInv, BuffersMade
    <2>5. BuffersMade'
        BY <1>1, <1>4, <2>1, <2>4 DEF BuffersMade, BeforeBuffers, AfterBuffers, Good
    <2> QED BY <2>1, <2>2, <2>3, <2>5 DEF IInv
<1> QED BY <1>2, <1>3, <1>4 DEF MapBuffer

\* The end of open: whether it opens or not, everything is there.
LEMMA ColourStep == ASSUME IInv, ChooseColourSpace PROVE IInv'
<1>1. pc = "colour" /\ ~fresh /\ ~b_opened /\ alive
    BY DEF ChooseColourSpace, IInv, Quiet, Steps
<1>2. /\ pc' = "idle" /\ b_opened' \in BOOLEAN
      /\ UNCHANGED <<alive, b_alloc_buf, b_resize, u8_buf_num, gl_map_mode, name,
                     glu32_buf, pptr, next_buf, pc_framebuffer, driverVars, appVars>>
    BY DEF ChooseColourSpace, Goto
<1>3. TypeOK' /\ NoDanglingName' /\ NoObjectLost'
    BY <1>2 DEF IInv, TypeOK, NoDanglingName, NoObjectLost, KindOf, BufKind, Named,
                driverVars, appVars
<1>4. Quiet' /\ PoolOfOpen' /\ ModeChosen' /\ LostBounded'
    BY <1>1, <1>2
       DEF IInv, Quiet, PoolOfOpen, ModeChosen, LostBounded, BeforeTex, Steps,
           driverVars, appVars
<1>5. MembersMade'
    BY <1>1, <1>2
       DEF IInv, MembersMade, Before, BeforeTex, BeforeBuffers, Steps, Members
<1>6. BuffersMade'
    BY <1>1, <1>2 DEF IInv, BuffersMade, BeforeBuffers, AfterBuffers, Good
<1> QED BY <1>3, <1>4, <1>5, <1>6 DEF IInv

\* The steps of open, each between the one before it and the one after.
LEMMA OpenStep == ASSUME IInv, Open PROVE IInv'
<1>1. CASE CreateVertexShader
    <2>1. pc = "vertex_shader" /\ CreateObject(pc, "gli32_v", KindOf["gli32_v"], "fragment_shader")
        BY <1>1 DEF CreateVertexShader, CreateObject, KindOf, Members
    <2> QED BY <2>1, CreateStep
            DEF Members, Steps, Before, BeforeBuffers, AfterBuffers, BeforeTex
<1>2. CASE CreateFragmentShader
    <2>1. pc = "fragment_shader"
        BY <1>2 DEF CreateFragmentShader, CreateObject
    <2>2. u8_buf_num \in Nat
        BY GLRenderAssumption DEF IInv, TypeOK
    <2>3. CASE u8_buf_num = 0
        <3>1. CreateObject(pc, "gli32_f", KindOf["gli32_f"], "texture")
            BY <1>2, <2>1, <2>3 DEF CreateFragmentShader, KindOf, Members
        <3> QED BY <2>1, <2>3, <3>1, CreateStep
                DEF Members, Steps, Before, BeforeBuffers, AfterBuffers, BeforeTex
    <2>4. CASE u8_buf_num # 0 /\ gl_map_mode = {"INTEL_MAP_TEXT"}
        <3>1. CreateObject(pc, "gli32_f", KindOf["gli32_f"], "map_buffer")
            BY <1>2, <2>1, <2>4 DEF CreateFragmentShader, KindOf, Members
        <3> QED BY <2>1, <2>4, <3>1, CreateStep
                DEF Members, Steps, Before, BeforeBuffers, AfterBuffers, BeforeTex
    <2>5. CASE u8_buf_num # 0 /\ gl_map_mode # {"INTEL_MAP_TEXT"}
        <3>1. CreateObject(pc, "gli32_f", KindOf["gli32_f"], "map_texture")
            BY <1>2, <2>1, <2>5 DEF CreateFragmentShader, KindOf, Members
        <3> QED BY <2>1, <2>5, <3>1, CreateStep
                DEF Members, Steps, Before, BeforeBuffers, AfterBuffers, BeforeTex
    <2> QED BY <2>3, <2>4, <2>5
<1>3. CASE GenMapTexture
    <2>1. pc = "map_texture"
        BY <1>3 DEF GenMapTexture, CreateObject
    <2>2. CASE gl_map_mode = {"NVIDIA_MAP_TEXT"} /\ ~b_resize
        <3>1. CreateObject(pc, "glu32_tex", KindOf["glu32_tex"], "register_image")
            BY <1>3, <2>1, <2>2 DEF GenMapTexture, KindOf, Members
        <3> QED BY <2>1, <3>1, CreateStep
                DEF Members, Steps, Before, BeforeBuffers, AfterBuffers, BeforeTex
    <2>3. CASE ~(gl_map_mode = {"NVIDIA_MAP_TEXT"} /\ ~b_resize)
        <3>1. CreateObject(pc, "glu32_tex", KindOf["glu32_tex"], "map_buffer")
            BY <1>3, <2>1, <2>3 DEF GenMapTexture, KindOf, Members
        <3> QED BY <2>1, <3>1, CreateStep
                DEF Members, Steps, Before, BeforeBuffers, AfterBuffers, BeforeTex
    <2> QED BY <2>2, <2>3
<1>4. CASE RegisterImage
    <2>1. UNCHANGED <<alive, sessionVars, name, glu32_buf, pptr, next_buf,
                      pc_framebuffer, driverVars, appVars>>
        BY <1>4 DEF RegisterImage, GiveUp
    <2>2. pc = "register_image" /\ pc' \in {"map_buffer", "idle"}
        BY <1>4 DEF RegisterImage, GiveUp, Goto
    <2> QED BY <2>1, <2>2, CalmStep
<1>5. CASE MapBuffer
    BY <1>5, MapBufferStep
<1>6. CASE GenTexture
    <2>1. pc = "texture" /\ CreateObject(pc, "glu32_tex", KindOf["glu32_tex"], "texture1")
        BY <1>6 DEF GenTexture, CreateObject, KindOf, Members
    <2> QED BY <2>1, CreateStep
            DEF Members, Steps, Before, BeforeBuffers, AfterBuffers, BeforeTex
<1>7. CASE GenTexture1
    <2>1. pc = "texture1" /\ CreateObject(pc, "glu32_tex1", KindOf["glu32_tex1"], "texture2")
        BY <1>7 DEF GenTexture1, CreateObject, KindOf, Members
    <2> QED BY <2>1, CreateStep
            DEF Members, Steps, Before, BeforeBuffers, AfterBuffers, BeforeTex
<1>8. CASE GenTexture2
    <2>1. pc = "texture2" /\ CreateObject(pc, "glu32_tex2", KindOf["glu32_tex2"], "compile")
        BY <1>8 DEF GenTexture2, CreateObject, KindOf, Members
    <2> QED BY <2>1, CreateStep
            DEF Members, Steps, Before, BeforeBuffers, AfterBuffers, BeforeTex
<1>9. CASE CompileShaders
    <2>1. CASE Fail
        BY <1>9, <2>1, FailStep DEF CompileShaders, Steps
    <2>2. CASE ~Fail
        <3>1. UNCHANGED <<alive, sessionVars, name, glu32_buf, pptr, next_buf,
                          pc_framebuffer, driverVars, appVars>>
            BY <1>9, <2>2 DEF CompileShaders
        <3>2. pc = "compile" /\ pc' = "link"
            BY <1>9, <2>2 DEF CompileShaders, Goto
        <3> QED BY <3>1, <3>2, CalmStep
    <2> QED BY <2>1, <2>2
<1>10. CASE LinkProgram
    <2>1. pc = "link"
          /\ CreateObject(pc, "glu32_program", KindOf["glu32_program"], "colour")
        BY <1>10 DEF LinkProgram, CreateObject, KindOf, Members
    <2> QED BY <2>1, CreateStep
            DEF Members, Steps, Before, BeforeBuffers, AfterBuffers, BeforeTex
<1>11. CASE ChooseColourSpace
    BY <1>11, ColourStep
<1> QED BY <1>1, <1>2, <1>3, <1>4, <1>5, <1>6, <1>7, <1>8, <1>9, <1>10, <1>11 DEF Open

\* A new renderer has nothing, and neither has the driver of a previous one.
LEMMA CreateRendererStep == ASSUME IInv, MWCreateVideoRender PROVE IInv'
<1>1. ~alive /\ fresh /\ pc = "idle" /\ ~b_opened
      /\ (\A k \in Members : name[k] = NoObject)
      /\ (\A i \in Slots : glu32_buf[i] = NoObject)
    BY DEF MWCreateVideoRender, IInv, Quiet
<1>2. /\ alive' /\ ~b_opened' /\ fresh' /\ pc' = "idle"
      /\ gl_map_mode' = {} /\ supported' = {}
      /\ name' = [k \in Members |-> NoObject] /\ glu32_buf' = [i \in Slots |-> NoObject]
      /\ pc_framebuffer' = NoPool /\ UNCHANGED <<gl, lost>>
    BY <1>1 DEF MWCreateVideoRender
<1>3. TypeOK'
    <2>1. 0 \in 0 .. MaxInits /\ 0 \in 0 .. MaxBufs
        BY GLRenderAssumption
    <2>2. NoPool \in [count : Nat, mapped : BOOLEAN,
                     glvar : [Slots -> Objects \cup {NoObject}]]
        BY DEF NoPool
    <2> QED BY <1>1, <1>2, <2>1, <2>2 DEF MWCreateVideoRender, IInv, TypeOK
<1>4. NoDanglingName'
    BY <1>2 DEF NoDanglingName
<1>5. NoObjectLost'
    <2> SUFFICES ASSUME NEW n \in Objects, gl[n] # "none" PROVE n \in lost
        BY <1>2 DEF NoObjectLost
    <2>1. n \in Named \cup lost /\ n # NoObject
        BY DEF IInv, NoObjectLost, Objects, NoObject
    <2> QED BY <1>1, <2>1 DEF Named
<1>6. Quiet' /\ MembersMade' /\ BuffersMade' /\ ModeChosen'
    BY <1>2, StepNames
       DEF Quiet, MembersMade, BuffersMade, ModeChosen, Members, Before,
           Steps, BeforeBuffers, AfterBuffers
<1>7. PoolOfOpen'
    BY <1>2 DEF PoolOfOpen, NoPool
<1>8. LostBounded'
    <2>1. lost' \cup ({name'["glu32_tex"]} \ {NoObject}) = lost
        BY <1>2 DEF Members
    <2> QED BY <1>2, <2>1 DEF IInv, LostBounded
<1> QED BY <1>3, <1>4, <1>5, <1>6, <1>7, <1>8 DEF IInv

\* A probe, before anything is open: at most its texture stays.
LEMMA ProbeStep == ASSUME IInv, MWVideoDeviceInfo PROVE IInv'
<1>1. /\ alive /\ pc = "idle" /\ fresh /\ ~b_opened
      /\ (\A k \in Members \ {"glu32_tex"} : name[k] = NoObject)
      /\ (\A i \in Slots : glu32_buf[i] = NoObject)
    BY DEF MWVideoDeviceInfo, IInv, Quiet
<1>2. UNCHANGED <<alive, pc, b_opened, b_alloc_buf, b_resize, u8_buf_num, glu32_buf,
                  pptr, next_buf, pc_framebuffer, appVars>>
    BY DEF MWVideoDeviceInfo
<1> DEFINE L == lost \cup ({name["glu32_tex"]} \ {NoObject})
<1>3. \/ UNCHANGED <<gl_map_mode, name, driverVars>>
      \/ /\ gl_map_mode' \in SUBSET (Maps \ {"NVIDIA_MAP_TEXT"})
         /\ supported' = gl_map_mode' /\ UNCHANGED <<name, gl, lost>>
      \/ /\ gl_map_mode' \in SUBSET Maps
         /\ supported' = gl_map_mode' /\ Cardinality(L) < MaxLost /\ lost' = L
         /\ name' = [name EXCEPT !["glu32_tex"] = NoObject] /\ UNCHANGED gl
      \/ /\ gl_map_mode' \in SUBSET Maps
         /\ supported' = gl_map_mode' /\ Cardinality(L) < MaxLost /\ lost' = L
         /\ name' = [name EXCEPT !["glu32_tex"] = NewObject]
         /\ gl' = [gl EXCEPT ![NewObject] = "texture"]
    BY DEF MWVideoDeviceInfo
<1>4. SUFFICES /\ name' \in [Members -> Objects \cup {NoObject}]
               /\ gl' \in [Objects -> Kinds \cup {"none"}]
               /\ lost' \subseteq Objects
               /\ NoDanglingName' /\ NoObjectLost' /\ LostBounded'
               /\ gl_map_mode' \subseteq Maps /\ supported' \subseteq Maps
               /\ gl_map_mode' \subseteq supported'
               /\ \A k \in Members \ {"glu32_tex"} : name'[k] = NoObject
    <2>1. TypeOK'
        BY <1>2, <1>4 DEF IInv, TypeOK, appVars
    <2>2. Quiet' /\ MembersMade' /\ BuffersMade' /\ ModeChosen' /\ PoolOfOpen'
        BY <1>1, <1>2, <1>4, StepNames
           DEF IInv, Quiet, MembersMade, BuffersMade, ModeChosen, PoolOfOpen, Before,
               Steps, BeforeBuffers, AfterBuffers, appVars
    <2> QED BY <1>4, <2>1, <2>2 DEF IInv
<1>5. IsFiniteSet(L) /\ Cardinality(L) \in Nat /\ L \subseteq Objects
    <2>1. L \subseteq Objects
        BY DEF IInv, TypeOK, Members
    <2> QED BY <2>1, NamesAreFinite, FS_Subset, FS_CardinalityType
<1>6. CASE UNCHANGED <<gl_map_mode, name, driverVars>>
    BY <1>1, <1>2, <1>6
       DEF IInv, TypeOK, NoDanglingName, NoObjectLost, LostBounded, ModeChosen, KindOf,
           BufKind, Named, driverVars, appVars
<1>7. CASE /\ gl_map_mode' \in SUBSET (Maps \ {"NVIDIA_MAP_TEXT"})
           /\ supported' = gl_map_mode' /\ UNCHANGED <<name, gl, lost>>
    <2>1. NoDanglingName'
        BY <1>1, <1>2, <1>7 DEF IInv, NoDanglingName, KindOf
    <2> QED BY <1>1, <1>2, <1>7, <2>1
            DEF IInv, TypeOK, NoObjectLost, LostBounded, Named, appVars
<1>8. CASE /\ gl_map_mode' \in SUBSET Maps
           /\ supported' = gl_map_mode' /\ Cardinality(L) < MaxLost /\ lost' = L
           /\ name' = [name EXCEPT !["glu32_tex"] = NoObject] /\ UNCHANGED gl
    <2>1. /\ name' \in [Members -> Objects \cup {NoObject}]
          /\ \A k \in Members : name'[k] = NoObject
          /\ name'["glu32_tex"] = NoObject
        BY <1>1, <1>8 DEF IInv, TypeOK, Members
    <2>2. NoDanglingName'
        BY <1>1, <1>2, <2>1 DEF NoDanglingName
    <2>3. NoObjectLost'
        BY <1>1, <1>2, <1>8 DEF IInv, NoObjectLost, Named, Objects, NoObject
    <2>4. LostBounded'
        <3>1. lost' \cup ({name'["glu32_tex"]} \ {NoObject}) = L
            BY <1>8, <2>1
        <3> QED BY <1>5, <1>8, <3>1, GLRenderAssumption DEF LostBounded
    <2> QED BY <1>5, <1>8, <2>1, <2>2, <2>3, <2>4 DEF IInv, TypeOK
<1>9. CASE /\ gl_map_mode' \in SUBSET Maps
           /\ supported' = gl_map_mode' /\ Cardinality(L) < MaxLost /\ lost' = L
           /\ name' = [name EXCEPT !["glu32_tex"] = NewObject]
           /\ gl' = [gl EXCEPT ![NewObject] = "texture"]
    <2>1. "glu32_tex" \in Members /\ KindOf["glu32_tex"] = "texture"
        BY DEF Members, KindOf
    <2>2. NewObject \in Objects /\ gl[NewObject] = "none"
        BY <1>5, <1>9, <2>1, SpareForMember, GLRenderAssumption DEF IInv
    <2>3. /\ name' \in [Members -> Objects \cup {NoObject}]
          /\ gl' \in [Objects -> Kinds \cup {"none"}]
          /\ lost' \subseteq Objects /\ NoDanglingName' /\ NoObjectLost'
          /\ \A k \in Members \ {"glu32_tex"} : name'[k] = name[k]
        BY <1>1, <1>2, <1>9, <2>1, <2>2, NewMember DEF IInv
    <2>4. LostBounded'
        <3> DEFINE o == name'["glu32_tex"]
        <3>1. IsFiniteSet(L \cup {o}) /\ Cardinality(L \cup {o}) \in Nat
              /\ Cardinality(L \cup {o}) <= Cardinality(L) + 1
            <4>1. IsFiniteSet({o}) /\ Cardinality({o}) = 1
                BY FS_Singleton
            <4> HIDE DEF L, o
            <4> QED BY <1>5, <4>1, UnionBound
        <3>2. lost' \cup ({o} \ {NoObject}) \in SUBSET (L \cup {o})
            BY <1>9
        <3> HIDE DEF o
        <3>3. Cardinality(lost' \cup ({o} \ {NoObject})) <= Cardinality(L \cup {o})
              /\ Cardinality(lost' \cup ({o} \ {NoObject})) \in Nat
            BY <3>1, <3>2, FS_Subset, FS_CardinalityType
        <3>4. Cardinality(lost' \cup ({o} \ {NoObject})) <= MaxLost
            BY <1>5, <1>9, <3>1, <3>3, GLRenderAssumption
        <3>5. Cardinality(lost') <= MaxLost
            BY <1>5, <1>9, GLRenderAssumption
        <3> QED BY <3>4, <3>5 DEF LostBounded, o
    <2> QED BY <1>1, <1>9, <2>3, <2>4
<1> QED BY <1>3, <1>6, <1>7, <1>8, <1>9

\* An open begins with nothing of a session before it.
LEMMA InitRenderStep ==
    ASSUME IInv, NEW s \in Settings, MWInitRender(s) PROVE IInv'
<1>1. /\ alive /\ pc = "idle" /\ fresh /\ inits < MaxInits /\ inits' = inits + 1
      /\ next_buf' = 1 /\ b_opened' = FALSE
      /\ UNCHANGED <<alive, b_alloc_buf, name, glu32_buf, pc_framebuffer, driverVars>>
    BY DEF MWInitRender
<1>2. /\ (\A k \in Members \ {"glu32_tex"} : name[k] = NoObject)
      /\ (\A i \in Slots : glu32_buf[i] = NoObject)
      /\ ~pc_framebuffer.mapped
    BY <1>1 DEF IInv, Quiet, PoolOfOpen
<1>3. /\ pc' \in {"idle", "vertex_shader"}
      /\ fresh' \in BOOLEAN /\ b_resize' \in BOOLEAN
      /\ u8_buf_num' \in 0 .. MaxBufs
      /\ pptr' \in [Slots -> {"unset", "live", "mapping", "freed", "corrupt"}]
      /\ gl_map_mode' \subseteq gl_map_mode
      /\ fresh' => pc' = "idle"
      /\ pc' = "vertex_shader" /\ u8_buf_num' > 0 => Cardinality(gl_map_mode') = 1
    <2>1. CASE Goto("idle") /\ UNCHANGED <<fresh, b_resize, u8_buf_num, pptr, gl_map_mode>>
        BY <2>1 DEF IInv, TypeOK, Goto
    <2>2. CASE fresh' = FALSE /\ b_resize' = s.m_b_resize /\ OpenChecks(s)
        <3>1. s.m_b_resize \in BOOLEAN /\ s.m_u32_buf_num \in 0 .. MaxBufs + 1
            BY DEF Settings
        <3>2. CASE ~CountChecked(s) /\ Goto("idle") /\ u8_buf_num' = 0
                   /\ UNCHANGED <<pptr, gl_map_mode>>
            <4>1. 0 \in 0 .. MaxBufs /\ ~(0 > 0)
                BY GLRenderAssumption
            <4> QED BY <2>2, <3>1, <3>2, <4>1 DEF IInv, TypeOK, Goto
        <3>3. CASE
                /\ CountChecked(s)
                /\ pptr' = IF s.m_u32_buf_num = 0 THEN pptr ELSE [i \in Slots |-> "unset"]
                /\ \/ /\ Goto("idle")
                      /\ u8_buf_num' = s.m_u32_buf_num
                      /\ UNCHANGED gl_map_mode
                   \/ /\ gl_map_mode' = Narrowed(s)
                      /\ IF Mapped(s) /\ Refuses(Narrowed(s), s)
                         THEN Goto("idle") /\ u8_buf_num' = 0
                         ELSE /\ u8_buf_num' = IF Mapped(s) THEN s.m_u32_buf_num ELSE 0
                              /\ Goto("idle") \/ Goto("vertex_shader")
            <4>1. pptr' \in [Slots -> {"unset", "live", "mapping", "freed", "corrupt"}]
                BY <3>3 DEF IInv, TypeOK
            <4>2. s.m_u32_buf_num \in 0 .. MaxBufs
                BY <3>1, <3>3, GLRenderAssumption DEF CountChecked
            <4>3. Narrowed(s) \subseteq gl_map_mode
                BY DEF Narrowed
            <4>4. ~Refuses(Narrowed(s), s) => Cardinality(Narrowed(s)) = 1
                BY DEF Refuses
            <4>5. 0 \in 0 .. MaxBufs /\ ~(0 > 0)
                BY GLRenderAssumption
            <4> QED BY <2>2, <3>1, <3>3, <4>1, <4>2, <4>3, <4>4, <4>5 DEF Goto
        <3> QED BY <2>2, <3>2, <3>3 DEF OpenChecks
    <2> QED BY <2>1, <2>2 DEF MWInitRender
<1>4. TypeOK'
    <2>1. inits' \in 0 .. MaxInits /\ next_buf' \in 1 .. MaxBufs + 1
        BY <1>1, GLRenderAssumption DEF IInv, TypeOK
    <2> QED BY <1>1, <1>3, <2>1 DEF IInv, TypeOK, Steps, driverVars
<1>5. NoDanglingName' /\ NoObjectLost'
    BY <1>1, <1>2 DEF IInv, NoDanglingName, NoObjectLost, KindOf, Named, driverVars
<1>6. Quiet' /\ PoolOfOpen' /\ LostBounded'
    BY <1>1, <1>2, <1>3, StepNames
       DEF IInv, Quiet, PoolOfOpen, LostBounded, Steps, driverVars
<1>7. MembersMade'
    BY <1>1, <1>2, <1>3 DEF MembersMade, Before, BeforeTex, BeforeBuffers, Steps, Members
<1>8. BuffersMade'
    BY <1>1, <1>2, <1>3 DEF BuffersMade, BeforeBuffers, AfterBuffers
<1>9. ModeChosen'
    BY <1>1, <1>3 DEF IInv, ModeChosen, Steps, driverVars
<1> QED BY <1>4, <1>5, <1>6, <1>7, <1>8, <1>9 DEF IInv

\* A pool over mapped buffers is made of those of the open renderer.
LEMMA FrameBufferStep ==
    ASSUME IInv,
           (\E n \in FrameCounts : MWCreateFrameBuffer(n)) \/ MWDestoryFrameBuffer
    PROVE  IInv'
<1>1. UNCHANGED <<alive, pc, sessionVars, name, glu32_buf, pptr, next_buf,
                  driverVars, appVars>>
    BY DEF MWCreateFrameBuffer, MWDestoryFrameBuffer
<1>2. /\ pc_framebuffer' \in [count : Nat, mapped : BOOLEAN,
                              glvar : [Slots -> Objects \cup {NoObject}]]
      /\ PoolOfOpen'
    <2>1. NoPool \in [count : Nat, mapped : BOOLEAN,
                      glvar : [Slots -> Objects \cup {NoObject}]] /\ ~NoPool.mapped
        BY DEF NoPool
    <2>2. CASE pc_framebuffer' = NoPool
        BY <2>1, <2>2 DEF PoolOfOpen
    <2>3. CASE pc_framebuffer' # NoPool
        <3>1. PICK n \in FrameCounts :
                  /\ b_opened
                  /\ pc_framebuffer' = [count  |-> IF b_alloc_buf THEN u8_buf_num ELSE n,
                                        mapped |-> b_alloc_buf,
                                        glvar  |-> glu32_buf]
            BY <2>3 DEF MWCreateFrameBuffer, MWDestoryFrameBuffer
        <3>2. n \in Nat /\ u8_buf_num \in Nat
            BY GLRenderAssumption DEF IInv, TypeOK
        <3> QED BY <1>1, <3>1, <3>2 DEF IInv, TypeOK, PoolOfOpen, sessionVars
    <2> QED BY <2>2, <2>3
<1>3. TypeOK' /\ NoDanglingName' /\ NoObjectLost'
    BY <1>1, <1>2
       DEF IInv, TypeOK, NoDanglingName, NoObjectLost, KindOf, BufKind, Named,
           sessionVars, driverVars, appVars
<1>4. Quiet' /\ MembersMade' /\ BuffersMade' /\ ModeChosen' /\ LostBounded'
    BY <1>1
       DEF IInv, Quiet, MembersMade, BuffersMade, ModeChosen, LostBounded, Good,
           sessionVars, driverVars, appVars
<1> QED BY <1>2, <1>3, <1>4 DEF IInv

\* A close, or the destructor after it, leaves no object; the pool over the
\* buffers is still there, and so is their memory.
LEMMA CloseStep ==
    ASSUME IInv, MWDeInitRender \/ MWDestoryVideoRender \/ Destructor
    PROVE  IInv'
<1>1. /\ DeleteObjects /\ fresh' = TRUE /\ b_opened' = FALSE
      /\ \/ pc' = "pool" /\ alive' \in BOOLEAN
         \/ pc' = "pool_delete" /\ alive' = TRUE
      /\ UNCHANGED <<b_alloc_buf, b_resize, u8_buf_num, gl_map_mode, pptr, next_buf,
                     pc_framebuffer, supported, lost, inits>>
    <2>1. CASE MWDeInitRender \/ MWDestoryVideoRender
        BY <2>1 DEF MWDeInitRender, MWDestoryVideoRender, Close, Goto, IInv, TypeOK
    <2>2. CASE Destructor
        BY <2>2 DEF Destructor, IInv, TypeOK, Quiet, Goto, sessionVars, appVars
    <2> QED BY <2>1, <2>2
<1>2. /\ name' \in [Members -> Objects \cup {NoObject}]
      /\ glu32_buf' \in [Slots -> Objects \cup {NoObject}]
      /\ gl' \in [Objects -> Kinds \cup {"none"}]
      /\ \A k \in Members : name'[k] = NoObject
      /\ \A i \in Slots : glu32_buf'[i] = NoObject
      /\ NoDanglingName' /\ NoObjectLost'
    BY <1>1, ObjectsDeleted DEF IInv
<1>3. TypeOK' /\ name'["glu32_tex"] = NoObject
    BY <1>1, <1>2 DEF IInv, TypeOK, CleanUpSteps, Members
<1>4. PoolOfOpen'
    <2> SUFFICES ASSUME pc_framebuffer'.mapped
                 PROVE  \A i \in 1 .. pc_framebuffer'.count : pptr'[i] \in {"live", "mapping"}
        BY <1>1 DEF PoolOfOpen
    <2>1. CASE b_opened /\ pc_framebuffer.count = u8_buf_num
        BY <1>1, <2>1 DEF IInv, BuffersMade, Good
    <2>2. CASE \A i \in 1 .. pc_framebuffer.count : pptr[i] \in {"live", "mapping"}
        BY <1>1, <2>2
    <2> QED BY <1>1, <2>1, <2>2 DEF IInv, PoolOfOpen
<1>5. Quiet' /\ MembersMade' /\ BuffersMade' /\ ModeChosen'
    BY <1>1, <1>2, <1>3, StepNames
       DEF IInv, Quiet, MembersMade, BuffersMade, ModeChosen, Before, Steps,
           BeforeBuffers, AfterBuffers
<1>6. LostBounded'
    <2>1. lost' \cup ({name'["glu32_tex"]} \ {NoObject}) = lost
        BY <1>1, <1>3
    <2> QED BY <1>1, <2>1 DEF IInv, LostBounded
<1> QED BY <1>2, <1>3, <1>4, <1>5, <1>6 DEF IInv

\* The rest of CleanUp drops the pool, and frees blocks no pool has any more.
LEMMA CleanUpStep == ASSUME IInv, DropPool \/ FreeMappings PROVE IInv'
<1>1. /\ pc \in CleanUpSteps /\ pc' \in {"free", "free_delete", "idle", "delete"}
      /\ pc \in {"pool_delete", "free_delete"} <=> pc' \in {"free_delete", "delete"}
      /\ UNCHANGED <<alive, sessionVars, name, glu32_buf, next_buf, driverVars, appVars>>
    <2>1. CASE DropPool
        BY <2>1 DEF DropPool, Goto, CleanUpSteps
    <2>2. CASE FreeMappings
        BY <2>2 DEF FreeMappings, Goto, CleanUpSteps
    <2> QED BY <2>1, <2>2
<1>2. ~b_opened /\ pc \notin Steps /\ pc' \notin Steps
    BY <1>1, StepNames DEF IInv, Quiet, CleanUpSteps
<1>3. /\ pptr' \in [Slots -> {"unset", "live", "mapping", "freed", "corrupt"}]
      /\ pc_framebuffer' \in [count : Nat, mapped : BOOLEAN,
                              glvar : [Slots -> Objects \cup {NoObject}]]
      /\ pc_framebuffer'.mapped = FALSE
    <2>1. CASE DropPool
        <3>1. NoPool \in [count : Nat, mapped : BOOLEAN,
                          glvar : [Slots -> Objects \cup {NoObject}]]
              /\ NoPool.mapped = FALSE
            BY DEF NoPool
        <3> QED BY <2>1, <3>1 DEF DropPool, IInv, TypeOK
    <2>2. CASE FreeMappings
        <3>1. ~pc_framebuffer.mapped /\ pc_framebuffer' = pc_framebuffer
            BY <1>2, <2>2 DEF FreeMappings, IInv, PoolOfOpen
        <3> QED BY <2>2, <3>1, PointersFreed DEF IInv, TypeOK
    <2> QED BY <2>1, <2>2
<1>4. TypeOK' /\ NoDanglingName' /\ NoObjectLost' /\ PoolOfOpen'
    BY <1>1, <1>3
       DEF IInv, TypeOK, NoDanglingName, NoObjectLost, PoolOfOpen, KindOf, BufKind, Named,
           CleanUpSteps, sessionVars, driverVars, appVars
<1>5. Quiet'
    BY <1>1, <1>2, StepNames
       DEF IInv, Quiet, CleanUpSteps, sessionVars, driverVars, appVars
<1>6. MembersMade' /\ BuffersMade' /\ ModeChosen' /\ LostBounded'
    BY <1>1, <1>2, StepNames
       DEF IInv, MembersMade, BuffersMade, ModeChosen, LostBounded, sessionVars,
           driverVars, appVars
<1> QED BY <1>4, <1>5, <1>6 DEF IInv

LEMMA InitIInv == Init => IInv
<1> SUFFICES ASSUME Init PROVE IInv
    OBVIOUS
<1>1. TypeOK
    <2>1. 0 \in 0 .. MaxInits /\ 0 \in 0 .. MaxBufs /\ 1 \in 1 .. MaxBufs + 1
        BY GLRenderAssumption
    <2>2. NoPool \in [count : Nat, mapped : BOOLEAN,
                      glvar : [Slots -> Objects \cup {NoObject}]]
        BY DEF NoPool
    <2> QED BY <2>1, <2>2 DEF Init, TypeOK
<1>2. NoDanglingName /\ NoObjectLost /\ PoolOfOpen
    BY DEF Init, NoDanglingName, NoObjectLost, PoolOfOpen, NoPool
<1>3. Quiet /\ MembersMade /\ BuffersMade /\ ModeChosen
    BY StepNames
       DEF Init, Quiet, MembersMade, BuffersMade, ModeChosen, Before, Members,
           Steps, BeforeBuffers, AfterBuffers
<1>4. LostBounded
    <2>1. lost = {} /\ lost \cup ({name["glu32_tex"]} \ {NoObject}) = {}
        BY DEF Init, Members
    <2> QED BY <2>1, FS_EmptySet, GLRenderAssumption DEF LostBounded
<1> QED BY <1>1, <1>2, <1>3, <1>4 DEF IInv

LEMMA NextIInv == IInv /\ [Next]_vars => IInv'
<1> SUFFICES ASSUME IInv, [Next]_vars PROVE IInv'
    OBVIOUS
<1>1. CASE MWCreateVideoRender
    BY <1>1, CreateRendererStep
<1>2. CASE MWVideoDeviceInfo
    BY <1>2, ProbeStep
<1>3. CASE \E s \in Settings : MWInitRender(s)
    BY <1>3, InitRenderStep
<1>4. CASE Open
    BY <1>4, OpenStep
<1>5. CASE (\E n \in FrameCounts : MWCreateFrameBuffer(n)) \/ MWDestoryFrameBuffer
    BY <1>5, FrameBufferStep
<1>6. CASE MWDeInitRender \/ MWDestoryVideoRender \/ Destructor
    BY <1>6, CloseStep
<1>7. CASE DropPool \/ FreeMappings
    BY <1>7, CleanUpStep
<1>8. CASE UNCHANGED vars
    <2>1. TypeOK' /\ NoDanglingName' /\ NoObjectLost' /\ PoolOfOpen' /\ Quiet'
        BY <1>8
           DEF IInv, TypeOK, NoDanglingName, NoObjectLost, PoolOfOpen, Quiet, KindOf,
               BufKind, Named, vars, sessionVars, driverVars, appVars
    <2>2. MembersMade' /\ BuffersMade' /\ ModeChosen' /\ LostBounded'
        BY <1>8
           DEF IInv, MembersMade, BuffersMade, ModeChosen, LostBounded, Good,
               vars, sessionVars, driverVars, appVars
    <2> QED BY <2>1, <2>2 DEF IInv
<1> QED BY <1>1, <1>2, <1>3, <1>4, <1>5, <1>6, <1>7, <1>8 DEF Next

-----------------------------------------------------------------------------
\* What the renderer names, and what its steps have made, in every state of
\* every history of probes, opens, failing calls, pools and closes
\* (CGLRender::open, CleanUp and the functions of LibMWVideoRender.cpp).
THEOREM RendererInvariant == Spec => []IInv
BY InitIInv, NextIInv, PTL DEF Spec

\* Every member keeps its type: no count passes the limit of the arrays it
\* indexes (glu32_buf and pptr, MW_MAX_BUFFER of them), and every name is one
\* the driver has, as it has one left for each object open makes.
THEOREM TypeCorrect == Spec => []TypeOK
<1>1. IInv => TypeOK
    BY DEF IInv
<1> QED BY <1>1, RendererInvariant, PTL

\* No member names an object that is gone or of another kind, so that CleanUp
\* deletes the renderer's own objects and each as what it is.
THEOREM NamesStayValid == Spec => []NoDanglingName
<1>1. IInv => NoDanglingName
    BY DEF IInv
<1> QED BY <1>1, RendererInvariant, PTL

\* However far an open got before a call failed, every object that exists is
\* named by a member for the next CleanUp, but for a probe's textures.
THEOREM ObjectsAreFound == Spec => []NoObjectLost
<1>1. IInv => NoObjectLost
    BY DEF IInv
<1> QED BY <1>1, RendererInvariant, PTL

\* Between calls a pool over mapped buffers has memory and GL names that exist.
\* CleanUp deletes the names first, under the pool, and drops the pool before it
\* frees the blocks: no block it frees is ever that of a pool.
THEOREM PoolMemoryIsLive == Spec => []PoolUsesLiveMemory
<1>1. IInv => PoolUsesLiveMemory
    BY DEF IInv, PoolOfOpen, BuffersMade, Good, PoolUsesLiveMemory, CleanUpSteps
<1> QED BY <1>1, RendererInvariant, PTL

\* A renderer that says it is open has all that render draws with.
THEOREM OpenMeansComplete == Spec => []OpenedIsComplete
<1>1. IInv => OpenedIsComplete
    BY DEF IInv, MembersMade, BuffersMade, Good, OpenedIsComplete
<1> QED BY <1>1, RendererInvariant, PTL

\* The buffers of an open renderer are mapped in one way, which the last probe
\* saw to work.
THEOREM MapModeIsProbed == Spec => []MapModeSupported
<1>1. IInv => MapModeSupported
    BY DEF IInv, ModeChosen, MapModeSupported
<1> QED BY <1>1, RendererInvariant, PTL
=============================================================================
