--------------------------- MODULE FrameSizeProofs ---------------------------
(***************************************************************************)
(* For every set of formats and of even sizes, every texture limit and     *)
(* every width of the integers: the planes render has GL and CUDA read lie *)
(* apart and, but for the gaps between rows, in the memory it was given.   *)
(* The latter as long as the bytes of the sizes drawn can be counted in    *)
(* those integers and the application tells the truth about its frames.    *)
(***************************************************************************)
EXTENDS FrameSize, TLAPS

\* No product of open or mwcalacsize.h leaves the positive int for a frame of
\* this size, or a smaller one: fewer than 2^28 pixels, for an int of 32 bits.
NoOverflow(s) == 16 * (s.width * s.height) < Word

\* The conversions of open and mwcalacsize.h, and what they leave alone.
LEMMA Uint32Range == ASSUME NEW n \in Int PROVE uint32(n) \in 0 .. Word - 1
BY FrameSizeAssumption DEF uint32

LEMMA Uint32Small == ASSUME NEW n \in Nat, n < Word PROVE uint32(n) = n
BY FrameSizeAssumption DEF uint32

LEMMA IntRange == ASSUME NEW n \in Int PROVE int(n) \in Int
BY Uint32Range, FrameSizeAssumption DEF int

LEMMA IntSmall == ASSUME NEW n \in Nat, 2 * n < Word PROVE int(n) = n
<1>1. uint32(n) = n
    BY Uint32Small, FrameSizeAssumption
<1> QED BY <1>1 DEF int

\* Two factors that grow make a product that grows.
LEMMA Monotone ==
    ASSUME NEW a \in Nat, NEW b \in Nat, NEW c \in Nat, NEW d \in Nat, a <= c, b <= d
    PROVE  a * b <= c * d /\ a * b \in Nat /\ c * d \in Nat
<1>1. a * b <= c * b
    OBVIOUS
<1>2. c * b <= c * d
    OBVIOUS
<1>3. a * b \in Nat /\ c * b \in Nat /\ c * d \in Nat
    OBVIOUS
<1> QED BY <1>1, <1>2, <1>3

\* The halves and the area of an even frame.
LEMMA EvenFrame ==
    ASSUME NEW w \in Dimensions, NEW h \in Dimensions
    PROVE  \E A \in Nat \ {0} :
              /\ w \in Nat \ {0} /\ h \in Nat \ {0}
              /\ w \div 2 \in Nat /\ h \div 2 \in Nat \ {0}
              /\ 2 * (w \div 2) = w /\ 2 * (h \div 2) = h
              /\ w * h = 4 * A /\ h * w = 4 * A
              /\ (h \div 2) * (w \div 2) = A
              /\ h * (w \div 2) = 2 * A /\ (h \div 2) * w = 2 * A
<1>1. w \in Nat \ {0} /\ w % 2 = 0 /\ h \in Nat \ {0} /\ h % 2 = 0
    BY FrameSizeAssumption
<1>2. PICK a \in Nat : a = w \div 2
    BY <1>1
<1>3. PICK b \in Nat : b = h \div 2
    BY <1>1
<1>4. w = 2 * a /\ h = 2 * b /\ a > 0 /\ b > 0
    BY <1>1, <1>2, <1>3
<1>5. /\ w * h = 4 * (b * a) /\ h * w = 4 * (b * a) /\ h * a = 2 * (b * a)
      /\ b * w = 2 * (b * a) /\ b * a \in Nat \ {0}
    BY <1>4
<1> WITNESS b * a \in Nat \ {0}
<1> QED BY <1>1, <1>2, <1>3, <1>4, <1>5

-----------------------------------------------------------------------------
(***************************************************************************)
(* The planes of a frame.                                                  *)
(***************************************************************************)
\* Where a plane ends in a frame whose rows lie one after the other.
Reach(p) == End(p) - Gaps(p)

LEMMA PlaneEnd ==
    ASSUME NEW u, NEW o \in Nat, NEW r \in Nat, NEW n \in Nat \ {0}
    PROVE  /\ GLPlane(u, o, r, n).unit = u /\ GLPlane(u, o, r, n).offset = o
           /\ Reach(GLPlane(u, o, r, n)) = o + n * r
           /\ End(GLPlane(u, o, r, n)) \in Int /\ Gaps(GLPlane(u, o, r, n)) \in Int
           /\ CudaPlane(r, n).unit = 0 /\ CudaPlane(r, n).offset = 0
           /\ Reach(CudaPlane(r, n)) = n * r
           /\ End(CudaPlane(r, n)) \in Int /\ Gaps(CudaPlane(r, n)) \in Int
<1> DEFINE a == Align4(r)
<1>1. (n - 1) * r + r = n * r /\ n - 1 \in Nat /\ a \in Nat
    BY DEF Align4
<1>2. /\ End(GLPlane(u, o, r, n)) = o + (n - 1) * a + r
      /\ Gaps(GLPlane(u, o, r, n)) = (n - 1) * (a - r)
      /\ End(CudaPlane(r, n)) = 0 + (n - 1) * r + r
      /\ Gaps(CudaPlane(r, n)) = (n - 1) * (r - r)
    BY DEF GLPlane, CudaPlane, End, Gaps
<1>3. GLPlane(u, o, r, n).unit = u /\ GLPlane(u, o, r, n).offset = o
      /\ CudaPlane(r, n).unit = 0 /\ CudaPlane(r, n).offset = 0
    BY DEF GLPlane, CudaPlane
<1> HIDE DEF a
<1>4. /\ (n - 1) * (a - r) = (n - 1) * a - (n - 1) * r
      /\ (n - 1) * a \in Int /\ (n - 1) * r \in Int /\ (n - 1) * (r - r) = 0
    BY <1>1
<1>5. /\ Reach(GLPlane(u, o, r, n)) = o + n * r /\ Reach(CudaPlane(r, n)) = n * r
      /\ End(GLPlane(u, o, r, n)) \in Int /\ Gaps(GLPlane(u, o, r, n)) \in Int
      /\ End(CudaPlane(r, n)) \in Int /\ Gaps(CudaPlane(r, n)) \in Int
    BY <1>1, <1>2, <1>4 DEF Reach
<1> QED BY <1>3, <1>5

\* The bytes of a row, of a frame as the application lays it out, and of a
\* buffer open maps for it.
LEMMA FrameSizes ==
    ASSUME NEW fmt \in Formats, NEW w \in Dimensions, NEW h \in Dimensions,
           NEW A \in Nat, w * h = 4 * A, h * w = 4 * A
    PROVE  /\ Line(fmt, w) \in Nat
           /\ fmt \in Packed24 => /\ Line(fmt, w) = 3 * w /\ PutBytes(fmt, w, h) = 12 * A
                                  /\ w * h * BytesPerPixel(fmt) = 12 * A
           /\ fmt \in Packed32 => /\ Line(fmt, w) = 4 * w /\ PutBytes(fmt, w, h) = 16 * A
                                  /\ w * h * BytesPerPixel(fmt) = 16 * A
           /\ fmt \in Packed16 => /\ Line(fmt, w) = 2 * w /\ PutBytes(fmt, w, h) = 8 * A
                                  /\ w * h * BytesPerPixel(fmt) = 8 * A
           /\ fmt \in Planar8  => /\ Line(fmt, w) = w /\ w * h * BytesPerPixel(fmt) = 8 * A
           /\ fmt \in Planar16 => /\ Line(fmt, w) = 2 * w
                                  /\ w * h * BytesPerPixel(fmt) = 16 * A
           /\ fmt \in {"NV12", "I420"} => PutBytes(fmt, w, h) = 6 * A
           /\ fmt \in {"NV16", "I422"} => PutBytes(fmt, w, h) = 8 * A
           /\ fmt = "P010" => PutBytes(fmt, w, h) = 12 * A
           /\ fmt = "P210" => PutBytes(fmt, w, h) = 16 * A
<1> USE DEF Packed, Packed24, Packed32, Packed16, Planar8, Planar16
<1>1. w \in Nat /\ h \in Nat
    BY FrameSizeAssumption
<1>2. CASE fmt \in Packed24
    <2>1. Line(fmt, w) = 3 * w
        BY <1>1, <1>2 DEF Line, fmt_get_bpp
    <2>2. (3 * w) * h = 12 * A
        BY <1>1
    <2>3. BytesPerPixel(fmt) = 3
        BY <1>2 DEF BytesPerPixel
    <2>4. PutBytes(fmt, w, h) = 12 * A
        BY <1>2, <2>1, <2>2 DEF PutBytes
    <2> QED BY <1>1, <1>2, <2>1, <2>3, <2>4
<1>3. CASE fmt \in Packed32
    <2>1. Line(fmt, w) = 4 * w
        BY <1>1, <1>3 DEF Line, fmt_get_bpp
    <2>2. (4 * w) * h = 16 * A
        BY <1>1
    <2>3. BytesPerPixel(fmt) = 4
        BY <1>3 DEF BytesPerPixel
    <2>4. PutBytes(fmt, w, h) = 16 * A
        BY <1>3, <2>1, <2>2 DEF PutBytes
    <2> QED BY <1>1, <1>3, <2>1, <2>3, <2>4
<1>4. CASE fmt \in Packed16
    <2>1. Line(fmt, w) = 2 * w
        BY <1>1, <1>4 DEF Line, fmt_get_bpp
    <2>2. (2 * w) * h = 8 * A
        BY <1>1
    <2>3. BytesPerPixel(fmt) = 2
        BY <1>4 DEF BytesPerPixel
    <2>4. PutBytes(fmt, w, h) = 8 * A
        BY <1>4, <2>1, <2>2 DEF PutBytes
    <2> QED BY <1>1, <1>4, <2>1, <2>3, <2>4
<1>5. CASE fmt \in Planar8
    <2>1. Line(fmt, w) = w
        BY <1>1, <1>5 DEF Line
    <2>2. BytesPerPixel(fmt) = 2
        BY <1>5 DEF BytesPerPixel
    <2>3. /\ fmt \in {"NV12", "I420"} => PutBytes(fmt, w, h) = (w * h * 3) \div 2
          /\ fmt \in {"NV16", "I422"} => PutBytes(fmt, w, h) = w * h * 2
        BY <1>5 DEF PutBytes
    <2> QED BY <1>1, <1>5, <2>1, <2>2, <2>3
<1>6. CASE fmt \in Planar16
    <2>1. Line(fmt, w) = 2 * w
        BY <1>1, <1>6 DEF Line
    <2>2. BytesPerPixel(fmt) = 4
        BY <1>6 DEF BytesPerPixel
    <2>3. /\ fmt = "P010" => PutBytes(fmt, w, h) = w * h * 3
          /\ fmt = "P210" => PutBytes(fmt, w, h) = w * h * 4
        BY <1>6 DEF PutBytes
    <2> QED BY <1>1, <1>6, <2>1, <2>2, <2>3
<1> QED BY <1>2, <1>3, <1>4, <1>5, <1>6, FrameSizeAssumption

\* Where the chroma planes of a frame of 4 * A pixels begin and end.
LEMMA ChromaEnds ==
    ASSUME NEW fmt \in Formats, NEW w \in Dimensions, NEW h \in Dimensions,
           NEW A \in Nat \ {0}, w * h = 4 * A, h * w = 4 * A,
           w \in Nat \ {0}, h \in Nat \ {0}, w \div 2 \in Nat, h \div 2 \in Nat \ {0},
           2 * (w \div 2) = w, 2 * (h \div 2) = h,
           (h \div 2) * (w \div 2) = A, h * (w \div 2) = 2 * A, (h \div 2) * w = 2 * A,
           NEW p \in ChromaPlanes(fmt, w, h)
    PROVE  /\ fmt \notin Packed24 \cup Packed32
           /\ fmt \in Packed16 => p.offset = 0 /\ Reach(p) = 8 * A
           /\ fmt = "NV12" => p.unit = 1 /\ p.offset = 4 * A /\ Reach(p) = 6 * A
           /\ fmt = "NV16" => p.unit = 1 /\ p.offset = 4 * A /\ Reach(p) = 8 * A
           /\ fmt = "P010" => p.unit = 1 /\ p.offset = 8 * A /\ Reach(p) = 12 * A
           /\ fmt = "P210" => p.unit = 1 /\ p.offset = 8 * A /\ Reach(p) = 16 * A
           /\ fmt = "I420" => \/ p.unit = 1 /\ p.offset = 4 * A /\ Reach(p) = 5 * A
                              \/ p.unit = 2 /\ p.offset = 5 * A /\ Reach(p) = 6 * A
           /\ fmt = "I422" => \/ p.unit = 1 /\ p.offset = 4 * A /\ Reach(p) = 6 * A
                              \/ p.unit = 2 /\ p.offset = 6 * A /\ Reach(p) = 8 * A
<1> USE DEF Packed, Packed24, Packed32, Packed16, Planar8, Planar16
<1>1. fmt \notin Packed24 \cup Packed32
    BY DEF ChromaPlanes
<1>2. CASE fmt \in Packed16
    <2>1. p = GLPlane(1, 0, 4 * (w \div 2), h)
        BY <1>2 DEF ChromaPlanes
    <2>2. h * (4 * (w \div 2)) = 8 * A /\ 4 * (w \div 2) \in Nat
        OBVIOUS
    <2>3. p.offset = 0 /\ Reach(p) = 8 * A
        BY <2>1, <2>2, PlaneEnd
    <2> QED BY <1>1, <1>2, <2>3
<1>3. CASE fmt = "NV12"
    <2>1. p = GLPlane(1, 4 * A, w, h \div 2)
        BY <1>3 DEF ChromaPlanes
    <2>2. p.unit = 1 /\ p.offset = 4 * A /\ Reach(p) = 4 * A + 2 * A
        BY <2>1, PlaneEnd
    <2> QED BY <1>3, <2>2
<1>4. CASE fmt = "NV16"
    <2>1. p = GLPlane(1, 4 * A, w, h)
        BY <1>4 DEF ChromaPlanes
    <2>2. p.unit = 1 /\ p.offset = 4 * A /\ Reach(p) = 4 * A + 4 * A
        BY <2>1, PlaneEnd
    <2> QED BY <1>4, <2>2
<1>5. CASE fmt = "P010"
    <2>1. p = GLPlane(1, 8 * A, 2 * w, h \div 2)
        <3>1. w * h * 2 = 8 * A /\ 4 * (w \div 2) = 2 * w
            OBVIOUS
        <3> QED BY <1>5, <3>1 DEF ChromaPlanes
    <2>2. (h \div 2) * (2 * w) = 4 * A /\ 2 * w \in Nat
        OBVIOUS
    <2>3. p.unit = 1 /\ p.offset = 8 * A /\ Reach(p) = 8 * A + 4 * A
        BY <2>1, <2>2, PlaneEnd
    <2> QED BY <1>5, <2>3
<1>6. CASE fmt = "P210"
    <2>1. p = GLPlane(1, 8 * A, 2 * w, h)
        <3>1. w * h * 2 = 8 * A /\ 4 * (w \div 2) = 2 * w
            OBVIOUS
        <3> QED BY <1>6, <3>1 DEF ChromaPlanes
    <2>2. h * (2 * w) = 8 * A /\ 2 * w \in Nat
        OBVIOUS
    <2>3. p.unit = 1 /\ p.offset = 8 * A /\ Reach(p) = 8 * A + 8 * A
        BY <2>1, <2>2, PlaneEnd
    <2> QED BY <1>6, <2>3
<1>7. CASE fmt = "I420"
    <2>1. (w * h * 5) \div 4 = 5 * A
        OBVIOUS
    <2>2. \/ p = GLPlane(1, 4 * A, w \div 2, h \div 2)
          \/ p = GLPlane(2, 5 * A, w \div 2, h \div 2)
        BY <1>7, <2>1 DEF ChromaPlanes
    <2>3. CASE p = GLPlane(1, 4 * A, w \div 2, h \div 2)
        <3>1. p.unit = 1 /\ p.offset = 4 * A /\ Reach(p) = 4 * A + A
            BY <2>3, PlaneEnd
        <3> QED BY <1>7, <3>1
    <2>4. CASE p = GLPlane(2, 5 * A, w \div 2, h \div 2)
        <3>1. p.unit = 2 /\ p.offset = 5 * A /\ Reach(p) = 5 * A + A
            BY <2>4, PlaneEnd
        <3> QED BY <1>7, <3>1
    <2> QED BY <2>2, <2>3, <2>4
<1>8. CASE fmt = "I422"
    <2>1. (w * h * 3) \div 2 = 6 * A
        OBVIOUS
    <2>2. \/ p = GLPlane(1, 4 * A, w \div 2, h)
          \/ p = GLPlane(2, 6 * A, w \div 2, h)
        BY <1>8, <2>1 DEF ChromaPlanes
    <2>3. CASE p = GLPlane(1, 4 * A, w \div 2, h)
        <3>1. p.unit = 1 /\ p.offset = 4 * A /\ Reach(p) = 4 * A + 2 * A
            BY <2>3, PlaneEnd
        <3> QED BY <1>8, <3>1
    <2>4. CASE p = GLPlane(2, 6 * A, w \div 2, h)
        <3>1. p.unit = 2 /\ p.offset = 6 * A /\ Reach(p) = 6 * A + 2 * A
            BY <2>4, PlaneEnd
        <3> QED BY <1>8, <3>1
    <2> QED BY <2>2, <2>3, <2>4
<1> QED BY <1>1, <1>2, <1>3, <1>4, <1>5, <1>6, <1>7, <1>8, FrameSizeAssumption

\* A plane ends somewhere.
LEMMA PlaneInts ==
    ASSUME NEW mode \in Modes, NEW fmt \in Formats, NEW w \in Dimensions, NEW h \in Dimensions,
           NEW p \in Uploads(mode, fmt, w, h)
    PROVE  End(p) \in Int /\ Gaps(p) \in Int
<1> DEFINE area == w * h
           r == Line(fmt, w)
           n == Rows(mode, fmt, h)
           w2 == w \div 2
           h2 == h \div 2
<1>1. PICK A \in Nat \ {0} :
              /\ w \in Nat \ {0} /\ h \in Nat \ {0} /\ w2 \in Nat /\ h2 \in Nat \ {0}
              /\ w * h = 4 * A /\ h * w = 4 * A
    BY EvenFrame
<1>2. r \in Nat /\ n \in Nat \ {0}
    <2>1. A \in Nat /\ w * h = 4 * A /\ h * w = 4 * A
        BY <1>1
    <2>2. n = h \/ n = 2 * h
        BY DEF Rows
    <2> QED BY <1>1, <2>1, <2>2, FrameSizes
<1>3. /\ area \in Nat /\ area * 2 \in Nat /\ 2 * w2 \in Nat /\ 4 * w2 \in Nat
      /\ (area * 5) \div 4 \in Nat /\ (area * 3) \div 2 \in Nat
    BY <1>1
<1>4. CASE p \in FirstPlane(mode, fmt, w, h)
    <2>1. p = GLPlane(0, 0, r, n) \/ p = CudaPlane(r, n)
        BY <1>4 DEF FirstPlane, Modes
    <2> QED BY <1>2, <2>1, PlaneEnd
<1>5. CASE p \in ChromaPlanes(fmt, w, h)
    <2>1. \E u \in {1, 2} :
             \E o \in {0, area, area * 2, (area * 5) \div 4, (area * 3) \div 2},
                b \in {w2, 2 * w2, 4 * w2}, k \in {h, h2} : p = GLPlane(u, o, b, k)
        <3> HIDE DEF area, w2, h2
        <3> QED BY <1>5, FrameSizeAssumption
                DEF ChromaPlanes, Packed, Packed24, Packed32, Packed16, Planar8, Planar16,
                    area, w2, h2
    <2> HIDE DEF area, w2, h2
    <2> QED BY <1>1, <1>3, <2>1, PlaneEnd
<1> QED BY <1>4, <1>5 DEF Uploads

\* What is read of a frame lies in the frame, and in a mapped buffer of its size,
\* but for the gaps.
LEMMA ReadsInFrame ==
    ASSUME NEW mode \in Modes, NEW fmt \in Formats, NEW w \in Dimensions, NEW h \in Dimensions,
           NEW p \in Uploads(mode, fmt, w, h)
    PROVE  /\ Reach(p) \in Nat
           /\ Reach(p) <= IF mode = "none" THEN PutBytes(fmt, w, h)
                        ELSE w * h * BytesPerPixel(fmt)
<1>1. PICK A \in Nat \ {0} :
              /\ w \in Nat \ {0} /\ h \in Nat \ {0}
              /\ w \div 2 \in Nat /\ h \div 2 \in Nat \ {0}
              /\ 2 * (w \div 2) = w /\ 2 * (h \div 2) = h
              /\ w * h = 4 * A /\ h * w = 4 * A
              /\ (h \div 2) * (w \div 2) = A
              /\ h * (w \div 2) = 2 * A /\ (h \div 2) * w = 2 * A
    BY EvenFrame
<1>2. fmt \in Packed24 \cup Packed32 \cup Packed16 \cup Planar16
          \cup {"NV12", "NV16", "I420", "I422"}
    BY FrameSizeAssumption DEF Packed, Planar8
<1>3. CASE p \in ChromaPlanes(fmt, w, h)
    <2>1. fmt \notin Packed24 \cup Packed32
        BY <1>1, <1>3, ChromaEnds
    <2>2. CASE fmt \in Packed16
        <3>1. Reach(p) = 8 * A
            BY <1>1, <1>3, <2>2, ChromaEnds
        <3>2. PutBytes(fmt, w, h) = 8 * A /\ w * h * BytesPerPixel(fmt) = 8 * A
            BY <1>1, <2>2, FrameSizes
        <3> QED BY <3>1, <3>2
    <2>3. CASE fmt \in {"NV12", "I420"}
        <3>1. Reach(p) \in {5 * A, 6 * A}
            BY <1>1, <1>3, <2>3, ChromaEnds
        <3>2. PutBytes(fmt, w, h) = 6 * A /\ w * h * BytesPerPixel(fmt) = 8 * A
            BY <1>1, <2>3, FrameSizes DEF Planar8
        <3> QED BY <3>1, <3>2
    <2>4. CASE fmt \in {"NV16", "I422"}
        <3>1. Reach(p) \in {6 * A, 8 * A}
            BY <1>1, <1>3, <2>4, ChromaEnds
        <3>2. PutBytes(fmt, w, h) = 8 * A /\ w * h * BytesPerPixel(fmt) = 8 * A
            BY <1>1, <2>4, FrameSizes DEF Planar8
        <3> QED BY <3>1, <3>2
    <2>5. CASE fmt = "P010"
        <3>1. Reach(p) = 12 * A
            BY <1>1, <1>3, <2>5, ChromaEnds
        <3>2. PutBytes(fmt, w, h) = 12 * A /\ w * h * BytesPerPixel(fmt) = 16 * A
            BY <1>1, <2>5, FrameSizes DEF Planar16
        <3> QED BY <3>1, <3>2
    <2>6. CASE fmt = "P210"
        <3>1. Reach(p) = 16 * A
            BY <1>1, <1>3, <2>6, ChromaEnds
        <3>2. PutBytes(fmt, w, h) = 16 * A /\ w * h * BytesPerPixel(fmt) = 16 * A
            BY <1>1, <2>6, FrameSizes DEF Planar16
        <3> QED BY <3>1, <3>2
    <2> QED BY <1>2, <2>1, <2>2, <2>3, <2>4, <2>5, <2>6 DEF Planar16
<1>4. CASE p \in FirstPlane(mode, fmt, w, h)
    <2> DEFINE r == Line(fmt, w)
               n == Rows(mode, fmt, h)
    <2>1. r \in Nat /\ n \in {h, 2 * h} /\ n \in Nat \ {0}
          /\ (fmt \in Packed \/ mode = "none" => n = h)
        BY <1>1, FrameSizes DEF Rows
    <2>2. p = GLPlane(0, 0, r, n) \/ p = CudaPlane(r, n)
        BY <1>4 DEF FirstPlane, Modes
    <2> HIDE DEF r, n
    <2>3. Reach(p) = n * r
        <3>1. CASE p = GLPlane(0, 0, r, n)
            <4>1. Reach(p) = 0 + n * r
                BY <2>1, <3>1, PlaneEnd
            <4> QED BY <2>1, <4>1
        <3>2. CASE p = CudaPlane(r, n)
            BY <2>1, <3>2, PlaneEnd
        <3> QED BY <2>2, <3>1, <3>2
    <2>4. CASE fmt \in Packed24
        <3>1. n = h /\ r = 3 * w
            BY <1>1, <2>1, <2>4, FrameSizes DEF r, Packed
        <3>2. n * r = 12 * A
            BY <1>1, <3>1
        <3> QED BY <1>1, <2>3, <2>4, <3>2, FrameSizes
    <2>5. CASE fmt \in Packed32
        <3>1. n = h
            BY <2>1, <2>5 DEF Packed
        <3>2. r = 4 * w
            BY <1>1, <2>5, FrameSizes DEF r
        <3>3. n * r = 16 * A
            BY <1>1, <3>1, <3>2
        <3> QED BY <1>1, <2>3, <2>5, <3>3, FrameSizes
    <2>6. CASE fmt \in Packed16
        <3>1. n = h /\ r = 2 * w
            BY <1>1, <2>1, <2>6, FrameSizes DEF r, Packed
        <3>2. n * r = 8 * A
            BY <1>1, <3>1
        <3> QED BY <1>1, <2>3, <2>6, <3>2, FrameSizes
    <2>7. CASE fmt \in {"NV12", "NV16", "I420", "I422"}
        <3>1. r = w /\ fmt \in Planar8
            BY <1>1, <2>7, FrameSizes DEF r, Planar8
        <3>2. h * r = 4 * A /\ (2 * h) * r = 8 * A
            BY <1>1, <3>1
        <3>3. /\ w * h * BytesPerPixel(fmt) = 8 * A
              /\ PutBytes(fmt, w, h) \in {6 * A, 8 * A}
            BY <1>1, <2>7, <3>1, FrameSizes
        <3>4. CASE mode = "none"
            BY <1>1, <2>1, <2>3, <3>2, <3>3, <3>4
        <3>5. CASE mode # "none"
            BY <1>1, <2>1, <2>3, <3>2, <3>3, <3>5
        <3> QED BY <3>4, <3>5
    <2>8. CASE fmt \in Planar16
        <3>1. r = 2 * w
            BY <1>1, <2>8, FrameSizes DEF r
        <3>2. h * r = 8 * A /\ (2 * h) * r = 16 * A
            BY <1>1, <3>1
        <3>3. /\ w * h * BytesPerPixel(fmt) = 16 * A
              /\ PutBytes(fmt, w, h) \in {12 * A, 16 * A}
            BY <1>1, <2>8, FrameSizes DEF Planar16
        <3>4. CASE mode = "none"
            BY <1>1, <2>1, <2>3, <3>2, <3>3, <3>4
        <3>5. CASE mode # "none"
            BY <1>1, <2>1, <2>3, <3>2, <3>3, <3>5
        <3> QED BY <3>4, <3>5
    <2> QED BY <1>2, <2>4, <2>5, <2>6, <2>7, <2>8
<1> QED BY <1>3, <1>4 DEF Uploads

\* A frame is read plane after plane, a mapped one from its chroma planes on.
LEMMA PlanesFollow ==
    ASSUME NEW mode \in Modes, NEW fmt \in Formats, NEW w \in Dimensions, NEW h \in Dimensions,
           NEW p \in Uploads(mode, fmt, w, h), NEW q \in Uploads(mode, fmt, w, h),
           p.unit < q.unit, q.offset # 0, p.unit = 0 => mode = "none"
    PROVE  Reach(p) <= q.offset /\ q.offset \in Int
<1>1. PICK A \in Nat \ {0} :
              /\ w \in Nat \ {0} /\ h \in Nat \ {0}
              /\ w \div 2 \in Nat /\ h \div 2 \in Nat \ {0}
              /\ 2 * (w \div 2) = w /\ 2 * (h \div 2) = h
              /\ w * h = 4 * A /\ h * w = 4 * A
              /\ (h \div 2) * (w \div 2) = A
              /\ h * (w \div 2) = 2 * A /\ (h \div 2) * w = 2 * A
    BY EvenFrame
<1> DEFINE r == Line(fmt, w)
<1>2. r \in Nat /\ (fmt \in Planar8 => r = w) /\ (fmt \in Planar16 => r = 2 * w)
    <2>1. A \in Nat /\ w * h = 4 * A /\ h * w = 4 * A
        BY <1>1
    <2> QED BY <2>1, FrameSizes
<1>3. \A x \in FirstPlane(mode, fmt, w, h) :
          /\ x.unit = 0 /\ x.offset = 0
          /\ mode = "none" => x = GLPlane(0, 0, r, h)
    <2>1. /\ mode = "none" => FirstPlane(mode, fmt, w, h) = {GLPlane(0, 0, r, h)}
          /\ mode = "pixel buffer" =>
                 FirstPlane(mode, fmt, w, h) = {GLPlane(0, 0, r, Rows(mode, fmt, h))}
          /\ mode = "cuda" => FirstPlane(mode, fmt, w, h) = {CudaPlane(r, Rows(mode, fmt, h))}
          /\ mode = "intel" => FirstPlane(mode, fmt, w, h) = {}
        BY DEF FirstPlane, Rows
    <2>2. \A b, n : /\ GLPlane(0, 0, b, n).unit = 0 /\ GLPlane(0, 0, b, n).offset = 0
                    /\ CudaPlane(b, n).unit = 0 /\ CudaPlane(b, n).offset = 0
        BY DEF GLPlane, CudaPlane
    <2> HIDE DEF r
    <2> QED BY <2>1, <2>2 DEF Modes
<1> HIDE DEF r
<1>4. q \in ChromaPlanes(fmt, w, h)
    BY <1>3 DEF Uploads
<1>5. fmt \notin Packed16 /\ fmt \notin Packed24 \cup Packed32
    BY <1>1, <1>4, ChromaEnds
<1>6. fmt \in {"NV12", "NV16", "I420", "I422", "P010", "P210"}
    BY <1>5, FrameSizeAssumption DEF Packed, Planar8, Planar16
<1>7. CASE p \in FirstPlane(mode, fmt, w, h)
    <2>1. Reach(p) = 0 + h * r
        <3>1. p = GLPlane(0, 0, r, h)
            BY <1>3, <1>7
        <3> QED BY <1>1, <1>2, <3>1, PlaneEnd
    <2>2. CASE fmt \in {"NV12", "NV16", "I420", "I422"}
        <3>1. r = w
            BY <1>2, <2>2 DEF Planar8
        <3>2. q.offset \in {4 * A, 5 * A, 6 * A}
            BY <1>1, <1>4, <2>2, ChromaEnds
        <3> QED BY <1>1, <2>1, <3>1, <3>2
    <2>3. CASE fmt \in {"P010", "P210"}
        <3>1. r = 2 * w
            BY <1>2, <2>3 DEF Planar16
        <3>2. q.offset = 8 * A
            BY <1>1, <1>4, <2>3, ChromaEnds
        <3>3. h * (2 * w) = 8 * A
            BY <1>1
        <3> QED BY <2>1, <3>1, <3>2, <3>3
    <2> QED BY <1>6, <2>2, <2>3
<1>8. CASE p \in ChromaPlanes(fmt, w, h)
    <2>1. CASE fmt \in {"NV12", "NV16", "P010", "P210"}
        <3>1. p.unit = 1 /\ q.unit = 1
            BY <1>1, <1>4, <1>8, <2>1, ChromaEnds
        <3> QED BY <3>1
    <2>2. CASE fmt = "I420"
        <3>1. \/ p.unit = 1 /\ p.offset = 4 * A /\ Reach(p) = 5 * A
              \/ p.unit = 2 /\ p.offset = 5 * A /\ Reach(p) = 6 * A
            BY <1>1, <1>8, <2>2, ChromaEnds
        <3>2. \/ q.unit = 1 /\ q.offset = 4 * A /\ Reach(q) = 5 * A
              \/ q.unit = 2 /\ q.offset = 5 * A /\ Reach(q) = 6 * A
            BY <1>1, <1>4, <2>2, ChromaEnds
        <3> QED BY <3>1, <3>2
    <2>3. CASE fmt = "I422"
        <3>1. \/ p.unit = 1 /\ p.offset = 4 * A /\ Reach(p) = 6 * A
              \/ p.unit = 2 /\ p.offset = 6 * A /\ Reach(p) = 8 * A
            BY <1>1, <1>8, <2>3, ChromaEnds
        <3>2. \/ q.unit = 1 /\ q.offset = 4 * A /\ Reach(q) = 6 * A
              \/ q.unit = 2 /\ q.offset = 6 * A /\ Reach(q) = 8 * A
            BY <1>1, <1>4, <2>3, ChromaEnds
        <3> QED BY <3>1, <3>2
    <2> QED BY <1>6, <2>1, <2>2, <2>3
<1> QED BY <1>7, <1>8 DEF Uploads

-----------------------------------------------------------------------------
(***************************************************************************)
(* What a buffer holds.                                                    *)
(***************************************************************************)
\* A planar image counts as two of its first planes.
Planes(fmt) == IF fmt \in Packed THEN 1 ELSE 2

\* The rows of a wider frame are longer, and a stride is the next multiple of 4.
LEMMA LineBounds ==
    ASSUME NEW fmt \in Formats, NEW w \in Dimensions
    PROVE  /\ Line(fmt, w) \in Nat /\ w \in Nat /\ Planes(fmt) \in {1, 2}
           /\ \A v \in Dimensions : v <= w => Line(fmt, v) <= Line(fmt, w)
           /\ fmt_calcminstride(fmt, w) \in Nat
           /\ Line(fmt, w) <= fmt_calcminstride(fmt, w)
           /\ fmt_calcminstride(fmt, w) * Planes(fmt) <= 4 * w
           /\ \A n \in Nat : n % 4 = 0 /\ Line(fmt, w) <= n
                                 => fmt_calcminstride(fmt, w) <= n
<1> USE DEF Packed, Packed24, Packed32, Packed16, Planar8, Planar16
<1>1. w \in Nat \ {0} /\ w % 2 = 0
    BY FrameSizeAssumption
<1>2. PICK k \in {1, 2, 3, 4} :
          /\ \A v \in Dimensions : Line(fmt, v) = k * v
          /\ k \in {3, 4} => Planes(fmt) = 1
          /\ Planes(fmt) \in {1, 2}
    <2>1. \A v \in Dimensions : v \in Nat
        BY FrameSizeAssumption
    <2>2. CASE fmt \in Packed24
        <3>1. \A v \in Dimensions : Line(fmt, v) = 3 * v
            BY <2>1, <2>2 DEF Line, fmt_get_bpp
        <3> QED BY <2>2, <3>1 DEF Planes
    <2>3. CASE fmt \in Packed32
        <3>1. \A v \in Dimensions : Line(fmt, v) = 4 * v
            BY <2>1, <2>3 DEF Line, fmt_get_bpp
        <3> QED BY <2>3, <3>1 DEF Planes
    <2>4. CASE fmt \in Packed16
        <3>1. \A v \in Dimensions : Line(fmt, v) = 2 * v
            BY <2>1, <2>4 DEF Line, fmt_get_bpp
        <3> QED BY <2>4, <3>1 DEF Planes
    <2>5. CASE fmt \in Planar8
        <3>1. \A v \in Dimensions : Line(fmt, v) = 1 * v
            BY <2>1, <2>5 DEF Line
        <3> QED BY <2>5, <3>1 DEF Planes
    <2>6. CASE fmt \in Planar16
        <3>1. \A v \in Dimensions : Line(fmt, v) = 2 * v
            BY <2>1, <2>6 DEF Line
        <3> QED BY <2>6, <3>1 DEF Planes
    <2> QED BY <2>2, <2>3, <2>4, <2>5, <2>6, FrameSizeAssumption
<1> DEFINE r == Line(fmt, w)
           s == fmt_calcminstride(fmt, w)
<1>3. r = k * w /\ r \in Nat /\ r % 2 = 0
    BY <1>1, <1>2
<1>4. s = ((r + 3) \div 4) * 4
    BY DEF fmt_calcminstride, Align4
<1> HIDE DEF r, s
<1>5. s \in Nat /\ r <= s /\ s <= r + 2
    BY <1>3, <1>4
<1>6. \A n \in Nat : n % 4 = 0 /\ r <= n => s <= n
    BY <1>3, <1>4
<1>7. s * Planes(fmt) <= 4 * w
    <2>1. CASE k = 4
        <3>1. s = 4 * w /\ Planes(fmt) = 1
            BY <1>1, <1>2, <1>3, <1>4, <2>1
        <3> QED BY <1>1, <3>1
    <2>2. CASE k = 3
        <3>1. s <= 4 * w /\ Planes(fmt) = 1
            BY <1>1, <1>2, <1>3, <1>5, <2>2
        <3> QED BY <1>5, <3>1
    <2>3. CASE k \in {1, 2}
        <3>1. s <= 2 * w
            BY <1>1, <1>2, <1>3, <1>4, <2>3
        <3>2. Planes(fmt) \in {1, 2}
            BY <1>2
        <3> QED BY <1>1, <1>5, <3>1, <3>2
    <2> QED BY <2>1, <2>2, <2>3
<1>8. \A v \in Dimensions : v <= w => Line(fmt, v) <= r
    <2>1. \A v \in Dimensions : v \in Nat
        BY FrameSizeAssumption
    <2> QED BY <1>1, <1>2, <1>3, <2>1
<1> QED BY <1>1, <1>2, <1>3, <1>5, <1>6, <1>7, <1>8 DEF r, s

\* A mapped buffer, and a frame, in rows of the first plane.
LEMMA LineArea ==
    ASSUME NEW fmt \in Formats, NEW w \in Dimensions, NEW h \in Dimensions
    PROVE  /\ w * h * BytesPerPixel(fmt) = Line(fmt, w) * h * Planes(fmt)
           /\ w * h * BytesPerPixel(fmt) \in Nat /\ w * h * BytesPerPixel(fmt) <= 4 * (w * h)
           /\ PutBytes(fmt, w, h) \in Nat
           /\ PutBytes(fmt, w, h) <= w * h * BytesPerPixel(fmt)
<1>1. PICK A \in Nat \ {0} :
              /\ w \in Nat \ {0} /\ h \in Nat \ {0} /\ w * h = 4 * A /\ h * w = 4 * A
    BY EvenFrame
<1>2. CASE fmt \in Packed24
    <2>1. Line(fmt, w) = 3 * w /\ PutBytes(fmt, w, h) = 12 * A
          /\ w * h * BytesPerPixel(fmt) = 12 * A
        BY <1>1, <1>2, FrameSizes
    <2>2. (3 * w) * h * 1 = 12 * A
        BY <1>1
    <2> QED BY <1>1, <1>2, <2>1, <2>2 DEF Planes, Packed
<1>3. CASE fmt \in Packed32
    <2>1. Line(fmt, w) = 4 * w /\ PutBytes(fmt, w, h) = 16 * A
          /\ w * h * BytesPerPixel(fmt) = 16 * A
        BY <1>1, <1>3, FrameSizes
    <2>2. (4 * w) * h * 1 = 16 * A
        BY <1>1
    <2> QED BY <1>1, <1>3, <2>1, <2>2 DEF Planes, Packed
<1>4. CASE fmt \in Packed16
    <2>1. Line(fmt, w) = 2 * w /\ PutBytes(fmt, w, h) = 8 * A
          /\ w * h * BytesPerPixel(fmt) = 8 * A
        BY <1>1, <1>4, FrameSizes
    <2>2. (2 * w) * h * 1 = 8 * A
        BY <1>1
    <2> QED BY <1>1, <1>4, <2>1, <2>2 DEF Planes, Packed
<1>5. CASE fmt \in Planar8
    <2>1. Line(fmt, w) = w /\ w * h * BytesPerPixel(fmt) = 8 * A
        BY <1>1, <1>5, FrameSizes
    <2>2. PutBytes(fmt, w, h) \in {6 * A, 8 * A}
        BY <1>1, <1>5, FrameSizes DEF Planar8
    <2>3. w * h * 2 = 8 * A /\ Planes(fmt) = 2
        BY <1>1, <1>5 DEF Planes, Packed, Packed24, Packed32, Packed16, Planar8
    <2> QED BY <1>1, <2>1, <2>2, <2>3
<1>6. CASE fmt \in Planar16
    <2>1. Line(fmt, w) = 2 * w /\ w * h * BytesPerPixel(fmt) = 16 * A
        BY <1>1, <1>6, FrameSizes
    <2>2. PutBytes(fmt, w, h) \in {12 * A, 16 * A}
        BY <1>1, <1>6, FrameSizes DEF Planar16
    <2>3. (2 * w) * h * 2 = 16 * A /\ Planes(fmt) = 2
        BY <1>1, <1>6 DEF Planes, Packed, Packed24, Packed32, Packed16, Planar16
    <2> QED BY <1>1, <2>1, <2>2, <2>3
<1> QED BY <1>2, <1>3, <1>4, <1>5, <1>6, FrameSizeAssumption DEF Packed

\* mwcalacsize.h's image is not cut short by its int, and the uint32_t it is
\* stored in holds any it computes.
LEMMA ImageExact ==
    ASSUME NEW fmt \in Formats, NEW w \in Dimensions, NEW h \in Dimensions
    PROVE  LET s   == fmt_calcminstride(fmt, w)
               img == fmt_calcimagesize(fmt, w, h, s)
           IN  /\ uint32(img) \in 0 .. Word - 1
               /\ s * h * Planes(fmt) \in Nat
               /\ 16 * (w * h) < Word => uint32(img) = s * h * Planes(fmt)
<1> DEFINE s == fmt_calcminstride(fmt, w)
           n == s * h
           img == fmt_calcimagesize(fmt, w, h, s)
<1>1. s \in Nat /\ w \in Nat /\ h \in Nat /\ Planes(fmt) \in {1, 2} /\ s * Planes(fmt) <= 4 * w
    BY LineBounds, FrameSizeAssumption
<1>2. n \in Nat /\ n * Planes(fmt) \in Nat /\ n * Planes(fmt) <= 4 * (w * h) /\ w * h \in Nat
    <2>1. (s * Planes(fmt)) * h <= (4 * w) * h
        <3>1. s * Planes(fmt) \in Nat /\ 4 * w \in Nat
            BY <1>1
        <3> HIDE DEF s
        <3> QED BY <1>1, <3>1, Monotone
    <2>2. n \in Nat /\ w * h \in Nat
        BY <1>1
    <2>3. (s * Planes(fmt)) * h = n * Planes(fmt) /\ (4 * w) * h = 4 * (w * h)
        BY <1>1
    <2> QED BY <1>1, <2>1, <2>2, <2>3
<1>3. /\ fmt \in Packed => Planes(fmt) = 1 /\ img = int(n)
      /\ fmt \notin Packed => Planes(fmt) = 2
      /\ fmt \in {"NV12", "I420", "P010"} => img = int(n * 4) \div 2
      /\ fmt \in {"NV16", "I422", "P210"} => img = int(n * 2)
    <2> HIDE DEF s
    <2>1. fmt \in Packed => img = int(n)
        BY DEF fmt_calcimagesize, Packed, Packed24, Packed32, Packed16
    <2>2. fmt \in {"NV12", "I420", "P010"} => img = int(n * 4) \div 2
        BY DEF fmt_calcimagesize, Packed, Packed24, Packed32, Packed16
    <2>3. fmt \in {"NV16", "I422", "P210"} => img = int(n * 2)
        BY DEF fmt_calcimagesize, Packed, Packed24, Packed32, Packed16
    <2> QED BY <2>1, <2>2, <2>3 DEF Planes
<1> HIDE DEF s, n, img
<1>4. \/ fmt \in Packed
      \/ fmt \in {"NV12", "I420", "P010"} /\ fmt \notin Packed
      \/ fmt \in {"NV16", "I422", "P210"} /\ fmt \notin Packed
    BY FrameSizeAssumption DEF Packed, Packed24, Packed32, Packed16, Planar8, Planar16
<1>5. CASE fmt \in Packed
    <2>1. uint32(img) \in 0 .. Word - 1
        BY <1>2, <1>3, <1>5, IntRange, Uint32Range
    <2>2. ASSUME 16 * (w * h) < Word PROVE uint32(img) = n * Planes(fmt)
        <3>1. 2 * n < Word /\ n < Word
            BY <1>2, <1>3, <1>5, <2>2, FrameSizeAssumption
        <3>2. img = n
            BY <1>2, <1>3, <1>5, <3>1, IntSmall
        <3> QED BY <1>2, <1>3, <1>5, <3>1, <3>2, Uint32Small
    <2> QED BY <1>2, <2>1, <2>2 DEF s, n, img
<1>6. CASE fmt \in {"NV12", "I420", "P010"} /\ fmt \notin Packed
    <2>1. uint32(img) \in 0 .. Word - 1
        <3>1. int(n * 4) \in Int
            BY <1>2, IntRange
        <3>2. img \in Int
            BY <1>3, <1>6, <3>1
        <3> QED BY <3>2, Uint32Range
    <2>2. ASSUME 16 * (w * h) < Word PROVE uint32(img) = n * Planes(fmt)
        <3>1. 2 * (n * 4) < Word /\ n * 2 < Word /\ n * 4 \in Nat
            BY <1>2, <1>3, <1>6, <2>2, FrameSizeAssumption
        <3>2. int(n * 4) = n * 4
            BY <3>1, IntSmall
        <3>3. img = n * 2
            BY <1>2, <1>3, <1>6, <3>2
        <3> QED BY <1>2, <1>3, <1>6, <3>1, <3>3, Uint32Small
    <2> QED BY <1>2, <2>1, <2>2 DEF s, n, img
<1>7. CASE fmt \in {"NV16", "I422", "P210"} /\ fmt \notin Packed
    <2>1. uint32(img) \in 0 .. Word - 1
        <3>1. img = int(n * 2) /\ n * 2 \in Int
            BY <1>2, <1>3, <1>7
        <3> QED BY <3>1, IntRange, Uint32Range
    <2>2. ASSUME 16 * (w * h) < Word PROVE uint32(img) = n * Planes(fmt)
        <3>1. 2 * (n * 2) < Word /\ n * 2 < Word /\ n * 2 \in Nat
            BY <1>2, <1>3, <1>7, <2>2, FrameSizeAssumption
        <3>2. img = n * 2
            BY <1>3, <1>7, <3>1, IntSmall
        <3> QED BY <1>3, <1>7, <3>1, <3>2, Uint32Small
    <2> QED BY <1>2, <2>1, <2>2 DEF s, n, img
<1> QED BY <1>4, <1>5, <1>6, <1>7

\* A frame of the initial size is not resized.
LEMMA FitsItself == ASSUME NEW s \in Sizes PROVE Fits(s, s)
<1>1. s.width \in Dimensions /\ s.height \in Dimensions
    BY DEF Sizes
<1>2. s.width \in Nat /\ s.height \in Nat
    BY <1>1, FrameSizeAssumption
<1> QED BY <1>2 DEF Fits

\* A smaller frame needs less of either.
LEMMA Smaller ==
    ASSUME NEW fmt \in Formats, NEW s \in Sizes, NEW t \in Sizes, Fits(s, t)
    PROVE  /\ s.width * s.height <= t.width * t.height
           /\ s.width * s.height \in Nat /\ t.width * t.height \in Nat
           /\ s.width * s.height * BytesPerPixel(fmt) <= t.width * t.height * BytesPerPixel(fmt)
<1>1. /\ s.width \in Dimensions /\ s.height \in Dimensions
      /\ t.width \in Dimensions /\ t.height \in Dimensions
      /\ s.width <= t.width /\ s.height <= t.height
    BY DEF Sizes, Fits
<1>2. /\ s.width \in Nat /\ s.height \in Nat /\ t.width \in Nat /\ t.height \in Nat
    BY <1>1, FrameSizeAssumption
<1>3. /\ s.width * s.height <= t.width * t.height
      /\ s.width * s.height \in Nat /\ t.width * t.height \in Nat
    BY <1>1, <1>2, Monotone
<1>4. BytesPerPixel(fmt) \in {2, 3, 4}
    BY FrameSizeAssumption
    DEF BytesPerPixel, Packed, Packed24, Packed32, Packed16, Planar8, Planar16
<1> QED BY <1>3, <1>4

\* The image of one size has room for a frame of every smaller one.
LEMMA ImageHolds ==
    ASSUME NEW fmt \in Formats, NEW size \in Sizes, NEW t \in Sizes, Fits(size, t), NoOverflow(t)
    PROVE  PutBytes(fmt, size.width, size.height)
               <= uint32(fmt_calcimagesize(fmt, t.width, t.height,
                                           fmt_calcminstride(fmt, t.width)))
<1> DEFINE w == size.width
           h == size.height
           s == fmt_calcminstride(fmt, t.width)
           k == Planes(fmt)
           image == uint32(fmt_calcimagesize(fmt, t.width, t.height, s))
<1>1. /\ w \in Dimensions /\ h \in Dimensions
      /\ t.width \in Dimensions /\ t.height \in Dimensions
    BY DEF Sizes
<1>2. /\ w <= t.width /\ h <= t.height /\ h \in Nat /\ t.height \in Nat
    BY <1>1, FrameSizeAssumption DEF Fits
<1>3. image = s * t.height * k /\ s * t.height * k \in Nat
    <2>1. 16 * (t.width * t.height) < Word
        BY DEF NoOverflow
    <2> QED BY <1>1, <2>1, ImageExact
<1>4. /\ s \in Nat /\ Line(fmt, w) \in Nat /\ k \in {1, 2} /\ Line(fmt, w) <= s
    <2>1. /\ Line(fmt, w) <= Line(fmt, t.width) /\ Line(fmt, w) \in Nat
          /\ Line(fmt, t.width) \in Nat
        BY <1>1, <1>2, LineBounds
    <2>2. s \in Nat /\ Line(fmt, t.width) <= s /\ k \in {1, 2}
        BY <1>1, LineBounds
    <2> HIDE DEF s, k
    <2> QED BY <2>1, <2>2
<1>5. PutBytes(fmt, w, h) \in Nat /\ PutBytes(fmt, w, h) <= Line(fmt, w) * h * k
    BY <1>1, LineArea
<1> HIDE DEF w, h, s, k, image
<1>6. /\ Line(fmt, w) * h <= s * t.height
      /\ Line(fmt, w) * h \in Nat /\ s * t.height \in Nat
    BY <1>2, <1>4, Monotone
<1>7. Line(fmt, w) * h * k <= s * t.height * k
    BY <1>4, <1>6
<1>8. PutBytes(fmt, w, h) <= image
    BY <1>3, <1>4, <1>5, <1>6, <1>7
<1> QED BY <1>8 DEF w, h, s, image

-----------------------------------------------------------------------------
(***************************************************************************)
(* The invariant: where the sizes of a session, of its pool and of the     *)
(* frames in it come from.                                                 *)
(***************************************************************************)
\* Before open there is no pool, no mapping and nothing drawn, and a session
\* that does not resize keeps the size it is given.
Sessions ==
    /\ ~b_opened => /\ ~pc_framebuffer /\ gl_map_mode = "none" /\ reads = {}
                   /\ tex = ini /\ pool_size = ini
    /\ ~b_resize => tex = ini /\ pool_size = ini

\* A frame in a buffer passed put_frame_data's check against its pool, of its
\* bytes alone.
Buffered ==
    /\ m_frame # {} => pc_framebuffer
    /\ \A frame \in m_frame : frame.bytes <= m_u32_size

\* A pool's buffers hold the image of the size it was created for.
ImageBytes(s) ==
    uint32(fmt_calcimagesize(e_render_mode, s.width, s.height,
                             fmt_calcminstride(e_render_mode, s.width)))

Pooled == pc_framebuffer => m_u32_size = ImageBytes(pool_size)

\* The mapped buffers have the initial size, and no draw goes beyond it.
Mapped ==
    b_alloc_buf => /\ frame_size = FrameBytes(e_render_mode, ini.width, ini.height)
                   /\ Fits(tex, ini)

IInv == TypeOK /\ Sessions /\ Buffered /\ Pooled /\ Mapped /\ PlanesApart

\* A renderer that was never opened.
LEMMA InitInv == Init => IInv /\ UploadInBounds /\ PoolFitsBuffers
<1> SUFFICES ASSUME Init PROVE IInv /\ UploadInBounds /\ PoolFitsBuffers
    OBVIOUS
<1>1. TypeOK
    <2>1. 0 \in 0 .. Word - 1 /\ "none" \in Modes
        BY FrameSizeAssumption DEF Modes
    <2> QED BY <2>1 DEF Init, TypeOK
<1>2. Sessions /\ Buffered /\ Pooled /\ Mapped /\ PlanesApart
    BY DEF Init, Sessions, Buffered, Pooled, Mapped, PlanesApart, b_alloc_buf
<1>3. UploadInBounds /\ PoolFitsBuffers
    BY DEF Init, UploadInBounds, PoolFitsBuffers
<1> QED BY <1>1, <1>2, <1>3 DEF IInv

\* What render_frame draws is a size it is told or the texture's.
LEMMA DrawnTypes ==
    ASSUME IInv, NEW frame \in m_frame
    PROVE  /\ frame.bytes \in Nat /\ frame.bytes <= m_u32_size /\ m_u32_size \in Nat
           /\ DrawnSize(frame) \in Sizes
           /\ b_opened /\ pc_framebuffer
           /\ ~b_resize => DrawnSize(frame) = ini /\ pool_size = ini
<1>1. /\ frame \in [size : Sizes, bytes : 1 .. Word - 1] /\ m_u32_size \in 0 .. Word - 1
      /\ tex \in Sizes
    BY DEF IInv, TypeOK
<1>2. frame.bytes \in Nat /\ m_u32_size \in Nat
    BY <1>1, FrameSizeAssumption
<1>3. DrawnSize(frame) \in Sizes
    BY <1>1 DEF DrawnSize
<1>4. /\ frame.bytes <= m_u32_size /\ b_opened /\ pc_framebuffer
      /\ ~b_resize => DrawnSize(frame) = ini /\ pool_size = ini
    BY DEF IInv, Buffered, Sessions, DrawnSize
<1> QED BY <1>2, <1>3, <1>4

\* What a draw of an accepted size keeps.
LEMMA UploadKeeps ==
    ASSUME IInv, b_opened, NEW size \in Sizes, NEW capacity, Upload(size, capacity),
           IF b_resize THEN Resized(size) ELSE size = ini, described' \in BOOLEAN,
           m_frame' \subseteq m_frame, UNCHANGED <<session, pool>>
    PROVE  IInv'
<1> USE DEF session, pool
<1>1. TypeOK'
    BY DEF IInv, TypeOK, Upload
<1>2. Sessions'
    BY DEF IInv, Sessions, Upload
<1>3. Buffered' /\ Pooled'
    BY DEF IInv, Buffered, Pooled, ImageBytes
<1>4. Mapped'
    <2>1. b_alloc_buf => Fits(size, ini)
        <3>1. Fits(ini, ini)
            BY FitsItself DEF IInv, TypeOK
        <3> QED BY <3>1 DEF Resized
    <2> QED BY <2>1 DEF IInv, Mapped, Upload, b_alloc_buf
<1>5. PlanesApart'
    <2> SUFFICES ASSUME NEW p \in reads', NEW q \in reads', p.unit < q.unit, q.offset # 0,
                        p.unit = 0 => gl_map_mode = "none"
                 PROVE  End(p) <= q.offset + Gaps(p)
        BY DEF PlanesApart, b_alloc_buf
    <2> DEFINE fmt == e_render_mode
               w == size.width
               h == size.height
    <2>1. /\ gl_map_mode \in Modes /\ fmt \in Formats /\ w \in Dimensions /\ h \in Dimensions
          /\ p \in Uploads(gl_map_mode, fmt, w, h) /\ q \in Uploads(gl_map_mode, fmt, w, h)
        BY DEF IInv, TypeOK, Sizes, Upload
    <2> HIDE DEF fmt, w, h
    <2>2. Reach(p) <= q.offset /\ q.offset \in Int
        BY <2>1, PlanesFollow
    <2>3. End(p) \in Int /\ Gaps(p) \in Int
        BY <2>1, PlaneInts
    <2> QED BY <2>2, <2>3 DEF Reach
<1> QED BY <1>1, <1>2, <1>3, <1>4, <1>5 DEF IInv

\* Every action keeps the invariant.
LEMMA NextInv == IInv /\ [Next]_vars => IInv'
<1> SUFFICES ASSUME IInv, [Next]_vars PROVE IInv'
    OBVIOUS
<1> USE DEF session, pool, drawn
<1>1. ASSUME NEW mode \in Modes, NEW resize \in BOOLEAN, Open(mode, resize) PROVE IInv'
    <2>1. TypeOK'
        <3>1. e_render_mode \in Formats /\ tex.width \in Dimensions /\ tex.height \in Dimensions
            BY DEF IInv, TypeOK, Sizes
        <3>2. FrameBytes(e_render_mode, tex.width, tex.height) \in 0 .. Word - 1
            BY <3>1, LineArea, Uint32Range DEF FrameBytes
        <3>3. 0 \in 0 .. Word - 1
            BY FrameSizeAssumption
        <3> QED BY <1>1, <3>2, <3>3 DEF IInv, TypeOK, Open
    <2>2. Sessions' /\ Buffered' /\ Pooled' /\ PlanesApart'
        BY <1>1 DEF IInv, Sessions, Buffered, Pooled, PlanesApart, Open
    <2>3. Mapped'
        <3>1. tex = ini /\ Fits(ini, ini)
            BY <1>1, FitsItself DEF IInv, TypeOK, Sessions, Open
        <3> QED BY <1>1, <3>1 DEF Mapped, Open, b_alloc_buf
    <2> QED BY <2>1, <2>2, <2>3 DEF IInv
<1>2. CASE CreateFrameBuffer
    <2>1. m_u32_size' \in 0 .. Word - 1
        <3>1. e_render_mode \in Formats /\ tex.width \in Dimensions /\ tex.height \in Dimensions
            BY DEF IInv, TypeOK, Sizes
        <3> QED BY <1>2, <3>1, ImageExact DEF CreateFrameBuffer
    <2>2. TypeOK'
        BY <1>2, <2>1 DEF IInv, TypeOK, CreateFrameBuffer
    <2>3. Sessions' /\ Buffered' /\ Mapped' /\ PlanesApart'
        BY <1>2
        DEF IInv, Sessions, Buffered, Mapped, PlanesApart, CreateFrameBuffer, b_alloc_buf
    <2>4. Pooled'
        BY <1>2 DEF Pooled, ImageBytes, CreateFrameBuffer
    <2> QED BY <2>2, <2>3, <2>4 DEF IInv
<1>3. ASSUME NEW size \in Sizes, NEW bytes \in DataSizes, PutFrame(size, bytes) PROVE IInv'
    <2>1. bytes \in 1 .. Word - 1
        <3>1. PICK t \in Sizes : bytes = uint32(PutBytes(e_render_mode, t.width, t.height))
            BY DEF DataSizes
        <3>2. PutBytes(e_render_mode, t.width, t.height) \in Nat
            BY <3>1, LineArea DEF IInv, TypeOK, Sizes
        <3>3. bytes \in 0 .. Word - 1
            BY <3>1, <3>2, Uint32Range
        <3> QED BY <1>3, <3>3, FrameSizeAssumption DEF PutFrame
    <2>2. TypeOK'
        <3>1. [size |-> size, bytes |-> bytes] \in [size : Sizes, bytes : 1 .. Word - 1]
            BY <2>1
        <3> QED BY <1>3, <3>1 DEF IInv, TypeOK, PutFrame
    <2>3. Sessions' /\ Buffered' /\ Pooled' /\ Mapped' /\ PlanesApart'
        BY <1>3
        DEF IInv, Sessions, Buffered, Pooled, ImageBytes, Mapped, PlanesApart, PutFrame,
            b_alloc_buf
    <2> QED BY <2>2, <2>3 DEF IInv
<1>4. CASE DrawFrame
    <2>1. PICK frame \in m_frame :
              /\ b_resize => Resized(DrawnSize(frame))
              /\ Upload(DrawnSize(frame), IF b_alloc_buf THEN frame_size ELSE m_u32_size)
              /\ described' \in BOOLEAN
              /\ m_frame' = {}
              /\ UNCHANGED <<session, pool>>
        BY <1>4 DEF DrawFrame
    <2> QED BY <2>1, DrawnTypes, UploadKeeps
<1>5. CASE DrawRefused
    BY <1>5
    DEF DrawRefused, IInv, TypeOK, Sessions, Buffered, Pooled, ImageBytes, Mapped, PlanesApart,
        b_alloc_buf
<1>6. ASSUME NEW size \in Sizes, DrawData(size) PROVE IInv'
    <2>1. /\ b_opened /\ (IF b_resize THEN Resized(size) ELSE size = ini)
          /\ Upload(size, IF b_alloc_buf THEN frame_size
                          ELSE PutBytes(e_render_mode, size.width, size.height))
          /\ m_frame' \subseteq m_frame /\ UNCHANGED <<session, pool>>
          /\ described' \in BOOLEAN
        BY <1>6 DEF DrawData, IInv, Sessions
    <2> QED BY <2>1, UploadKeeps
<1>7. CASE UNCHANGED vars
    BY <1>7
    DEF vars, IInv, TypeOK, Sessions, Buffered, Pooled, ImageBytes, Mapped, PlanesApart,
        b_alloc_buf
<1> QED BY <1>1, <1>2, <1>3, <1>4, <1>5, <1>6, <1>7 DEF Next

-----------------------------------------------------------------------------
(***************************************************************************)
(* The bytes, while they can be counted.                                   *)
(***************************************************************************)
\* What a draw reads lies in a mapped buffer, and in memory of as many bytes as
\* a frame of the size drawn has.
LEMMA UploadInside ==
    ASSUME IInv, NEW size \in Sizes, NEW capacity, Upload(size, capacity),
           \/ /\ b_alloc_buf /\ capacity = frame_size /\ NoOverflow(ini)
              /\ IF b_resize THEN Resized(size) ELSE size = ini
           \/ /\ ~b_alloc_buf /\ capacity \in Nat
              /\ PutBytes(e_render_mode, size.width, size.height) <= capacity
    PROVE  \A p \in reads' : End(p) <= held' + Gaps(p)
<1> DEFINE fmt == e_render_mode
           w == size.width
           h == size.height
           bytes == w * h * BytesPerPixel(fmt)
           area == ini.width * ini.height
           whole == area * BytesPerPixel(fmt)
<1>1. /\ fmt \in Formats /\ gl_map_mode \in Modes /\ ini \in Sizes
      /\ w \in Dimensions /\ h \in Dimensions
      /\ ini.width \in Dimensions /\ ini.height \in Dimensions
    BY DEF IInv, TypeOK, Sizes
<1>2. /\ bytes \in Nat /\ PutBytes(fmt, w, h) \in Nat
      /\ whole \in Nat /\ whole <= 4 * area /\ area \in Nat
    <2>1. area \in Nat
        BY <1>1, FitsItself, Smaller
    <2> QED BY <1>1, <2>1, LineArea
<1>3. b_alloc_buf => capacity \in Nat /\ bytes <= capacity
    <2> SUFFICES ASSUME b_alloc_buf PROVE capacity \in Nat /\ bytes <= capacity
        OBVIOUS
    <2>1. Fits(size, ini)
        BY <1>1, FitsItself DEF Resized
    <2>2. bytes <= whole
        BY <1>1, <2>1, Smaller
    <2>3. whole < Word
        BY <1>2, FrameSizeAssumption DEF NoOverflow
    <2>4. frame_size = uint32(whole)
        BY DEF IInv, Mapped, FrameBytes
    <2> HIDE DEF bytes, whole
    <2>5. frame_size = whole
        BY <1>2, <2>3, <2>4, Uint32Small
    <2> QED BY <1>2, <2>2, <2>5
<1>4. reads' = Uploads(gl_map_mode, fmt, w, h) /\ held' = capacity
    BY DEF Upload
<1>5. ~b_alloc_buf => capacity \in Nat /\ PutBytes(fmt, w, h) <= capacity
    OBVIOUS
<1> HIDE DEF fmt, w, h, bytes
<1> TAKE p \in reads'
<1>6. /\ Reach(p) \in Nat
      /\ b_alloc_buf => Reach(p) <= bytes
      /\ ~b_alloc_buf => Reach(p) <= PutBytes(fmt, w, h)
    BY <1>1, <1>4, ReadsInFrame DEF b_alloc_buf, bytes
<1>7. Reach(p) <= held' /\ held' \in Nat
    BY <1>2, <1>3, <1>4, <1>5, <1>6
<1>8. End(p) \in Int /\ Gaps(p) \in Int
    BY <1>1, <1>4, PlaneInts
<1> QED BY <1>6, <1>7, <1>8 DEF Reach

\* The sizes of which the memory is taken have bytes that can be counted.
Counted == NoOverflow(ini) /\ NoOverflow(pool_size)

\* Without a draw the last one stays what it was.
LEMMA NoDraw ==
    ASSUME UploadInBounds, gl_map_mode' = gl_map_mode, UNCHANGED drawn
    PROVE  UploadInBounds'
<1>1. /\ reads' = reads /\ held' = held /\ described' = described
      /\ b_alloc_buf' = b_alloc_buf
    BY DEF drawn, b_alloc_buf
<1> QED BY <1>1, Zenon DEF UploadInBounds

\* Every draw that is described reads inside the memory it is given.
LEMMA NextReads ==
    IInv /\ Counted /\ UploadInBounds /\ NoOverflow(tex) /\ [Next]_vars
        => Counted' /\ UploadInBounds'
<1> SUFFICES ASSUME IInv, Counted, UploadInBounds, NoOverflow(tex), [Next]_vars
             PROVE  Counted' /\ UploadInBounds'
    OBVIOUS
<1> USE DEF session, pool
<1>1. Counted'
    <2>1. ini' = ini /\ (pool_size' = pool_size \/ pool_size' = tex)
        BY DEF Next, vars, drawn, Open, CreateFrameBuffer, PutFrame, DrawFrame, DrawRefused, DrawData
    <2> QED BY <2>1 DEF Counted, NoOverflow
<1> SUFFICES UploadInBounds'
    BY <1>1
<1>2. ASSUME NEW mode \in Modes, NEW resize \in BOOLEAN, Open(mode, resize)
      PROVE  UploadInBounds'
    <2>1. reads' = {}
        BY <1>2 DEF Open, drawn, IInv, Sessions
    <2> QED BY <2>1 DEF UploadInBounds
<1>3. CASE CreateFrameBuffer
    BY <1>3, NoDraw DEF CreateFrameBuffer
<1>4. ASSUME NEW size \in Sizes, NEW bytes \in DataSizes, PutFrame(size, bytes)
      PROVE  UploadInBounds'
    BY <1>4, NoDraw DEF PutFrame
<1>5. CASE DrawFrame
    <2> SUFFICES ASSUME b_alloc_buf' \/ described'
                 PROVE  \A p \in reads' : End(p) <= held' + Gaps(p)
        BY DEF UploadInBounds
    <2>1. PICK frame \in m_frame :
              /\ b_resize => Resized(DrawnSize(frame))
              /\ Upload(DrawnSize(frame), IF b_alloc_buf THEN frame_size ELSE m_u32_size)
              /\ described' =
                     \/ PutBytes(e_render_mode, DrawnSize(frame).width,
                                 DrawnSize(frame).height) <= frame.bytes
                     \/ Fits(DrawnSize(frame), pool_size)
              /\ UNCHANGED <<session, pool>>
        BY <1>5 DEF DrawFrame
    <2> DEFINE size == DrawnSize(frame)
    <2>2. /\ size \in Sizes /\ pc_framebuffer /\ (~b_resize => size = ini)
          /\ frame.bytes \in Nat /\ frame.bytes <= m_u32_size /\ m_u32_size \in Nat
        BY DrawnTypes
    <2>3. e_render_mode \in Formats /\ pool_size \in Sizes
          /\ size.width \in Dimensions /\ size.height \in Dimensions
        BY <2>2 DEF IInv, TypeOK, Sizes
    <2> HIDE DEF size
    <2>4. CASE b_alloc_buf
        <3>1. Upload(size, frame_size) /\ (IF b_resize THEN Resized(size) ELSE size = ini)
            BY <2>1, <2>2, <2>4 DEF size
        <3> QED BY <2>2, <2>4, <3>1, UploadInside DEF Counted
    <2>5. CASE ~b_alloc_buf
        <3>1. Upload(size, m_u32_size)
            BY <2>1, <2>5 DEF size
        <3>2. \/ PutBytes(e_render_mode, size.width, size.height) <= frame.bytes
              \/ Fits(size, pool_size)
            BY <2>1, <2>5 DEF size, b_alloc_buf
        <3>3. PutBytes(e_render_mode, size.width, size.height) <= m_u32_size
            <4>1. CASE Fits(size, pool_size)
                BY <2>2, <2>3, <4>1, ImageHolds DEF IInv, Pooled, ImageBytes, Counted
            <4>2. CASE PutBytes(e_render_mode, size.width, size.height) <= frame.bytes
                <5>1. PutBytes(e_render_mode, size.width, size.height) \in Nat
                    BY <2>3, LineArea
                <5> QED BY <2>2, <4>2, <5>1
            <4> QED BY <3>2, <4>1, <4>2
        <3> QED BY <2>2, <2>5, <3>1, <3>3, UploadInside
    <2> QED BY <2>4, <2>5
<1>6. CASE DrawRefused
    BY <1>6, NoDraw DEF DrawRefused
<1>7. ASSUME NEW size \in Sizes, DrawData(size)
      PROVE  UploadInBounds'
    <2> DEFINE bytes == PutBytes(e_render_mode, size.width, size.height)
    <2>1. /\ IF b_resize THEN Resized(size) ELSE size = ini
          /\ Upload(size, IF b_alloc_buf THEN frame_size ELSE bytes)
        BY <1>7 DEF DrawData, IInv, Sessions
    <2>2. bytes \in Nat
        BY LineArea DEF IInv, TypeOK, Sizes
    <2>3. \A p \in reads' : End(p) <= held' + Gaps(p)
        <3>1. CASE b_alloc_buf
            BY <2>1, <3>1, UploadInside DEF Counted
        <3>2. CASE ~b_alloc_buf
            <4>1. Upload(size, bytes) /\ bytes <= bytes
                BY <2>1, <2>2, <3>2
            <4> QED BY <2>2, <3>2, <4>1, UploadInside
        <3> QED BY <3>1, <3>2
    <2> QED BY <2>3 DEF UploadInBounds
<1>8. CASE UNCHANGED vars
    BY <1>8, NoDraw DEF vars
<1> QED BY <1>2, <1>3, <1>4, <1>5, <1>6, <1>7, <1>8 DEF Next

\* And a pool's buffers are no larger than the mapped ones.
LEMMA PoolInside ==
    ASSUME IInv, NoOverflow(ini), CreateFrameBuffer
    PROVE  PoolFitsBuffers'
<1> SUFFICES ASSUME b_alloc_buf, Line(e_render_mode, ini.width) % 4 = 0
             PROVE  m_u32_size' <= frame_size
    BY DEF PoolFitsBuffers, CreateFrameBuffer, session, b_alloc_buf
<1> DEFINE fmt == e_render_mode
           w == tex.width
           h == tex.height
           s == fmt_calcminstride(fmt, w)
           line == Line(fmt, ini.width)
           area == ini.width * ini.height
           whole == area * BytesPerPixel(fmt)
           k == Planes(fmt)
<1>1. /\ fmt \in Formats /\ ini \in Sizes /\ tex \in Sizes
      /\ w \in Dimensions /\ h \in Dimensions
      /\ ini.width \in Dimensions /\ ini.height \in Dimensions
    BY DEF IInv, TypeOK, Sizes
<1>2. Fits(tex, ini) /\ w <= ini.width /\ h <= ini.height
      /\ frame_size = uint32(whole)
    BY DEF IInv, Mapped, Fits, FrameBytes
<1>3. /\ area \in Nat /\ w * h \in Nat /\ w * h <= area
    BY <1>1, <1>2, Smaller
<1>4. whole \in Nat /\ whole <= 4 * area /\ whole = line * ini.height * k
    BY <1>1, LineArea
<1>5. m_u32_size' = s * h * k /\ s * h * k \in Nat
    <2>1. 16 * (w * h) < Word
        BY <1>3, FrameSizeAssumption DEF NoOverflow
    <2>2. m_u32_size' = uint32(fmt_calcimagesize(fmt, w, h, s))
        BY DEF CreateFrameBuffer
    <2> HIDE DEF w, h, fmt
    <2> QED BY <1>1, <2>1, <2>2, ImageExact
<1>6. s \in Nat /\ line \in Nat /\ k \in {1, 2} /\ s <= line
    <2>1. Line(fmt, w) \in Nat /\ Line(fmt, w) <= line
        BY <1>1, <1>2, LineBounds
    <2> QED BY <1>1, <2>1, LineBounds
<1>7. h \in Nat /\ ini.height \in Nat
    BY <1>1, FrameSizeAssumption
<1>8. whole < Word
    BY <1>3, <1>4, FrameSizeAssumption DEF NoOverflow
<1> HIDE DEF fmt, w, h, s, line, area, whole, k
<1>9. frame_size = whole
    BY <1>2, <1>4, <1>8, Uint32Small
<1>10. s * h <= line * ini.height /\ s * h \in Nat /\ line * ini.height \in Nat
    <2>1. h <= ini.height
        BY <1>2
    <2> QED BY <1>6, <1>7, <2>1, Monotone
<1>11. s * h * k <= line * ini.height * k
    BY <1>6, <1>10
<1> QED BY <1>4, <1>5, <1>9, <1>11

\* A new pool fits by PoolInside, the other actions leave both sizes alone.
LEMMA NextFits ==
    IInv /\ (NoOverflow(ini) => PoolFitsBuffers) /\ [Next]_vars
        => (NoOverflow(ini) => PoolFitsBuffers)'
<1> SUFFICES ASSUME IInv, NoOverflow(ini) => PoolFitsBuffers, [Next]_vars, NoOverflow(ini)'
             PROVE  PoolFitsBuffers'
    OBVIOUS
<1> USE DEF session, pool, drawn
<1>1. NoOverflow(ini) /\ PoolFitsBuffers
    <2>1. ini' = ini
        BY DEF Next, vars, Open, CreateFrameBuffer, PutFrame, DrawFrame, DrawRefused, DrawData
    <2> QED BY <2>1 DEF NoOverflow
<1>2. CASE CreateFrameBuffer
    BY <1>1, <1>2, PoolInside
<1>3. ASSUME NEW mode \in Modes, NEW resize \in BOOLEAN, Open(mode, resize)
      PROVE  PoolFitsBuffers'
    BY <1>3 DEF Open, PoolFitsBuffers, IInv, Sessions
<1>4. CASE UNCHANGED <<session, pool>>
    BY <1>1, <1>4 DEF PoolFitsBuffers, b_alloc_buf
<1>5. ASSUME NEW size \in Sizes, NEW bytes \in DataSizes, PutFrame(size, bytes)
      PROVE  PoolFitsBuffers'
    BY <1>4, <1>5 DEF PutFrame
<1>6. CASE DrawFrame
    BY <1>4, <1>6 DEF DrawFrame
<1>7. CASE DrawRefused
    BY <1>4, <1>7 DEF DrawRefused
<1>8. ASSUME NEW size \in Sizes, DrawData(size)
      PROVE  PoolFitsBuffers'
    BY <1>4, <1>8 DEF DrawData
<1>9. CASE UNCHANGED vars
    BY <1>4, <1>9 DEF vars
<1> QED BY <1>2, <1>3, <1>5, <1>6, <1>7, <1>8, <1>9 DEF Next

-----------------------------------------------------------------------------
\* The sizes of a session and its pool come from open, create_framebuffer and
\* render; of the frames in the pool the bytes alone passed a check, the one of
\* put_frame_data, and the dimensions are whatever the application told.
THEOREM SizesInvariant == Spec => []IInv
<1>1. Init => IInv
    BY InitInv
<1>2. IInv /\ [Next]_vars => IInv'
    BY NextInv
<1> QED BY <1>1, <1>2, PTL DEF Spec

\* The variables keep their types: the sizes stay among the application's, and
\* what is stored of an int product is a uint32_t.
THEOREM TypeCorrect == Spec => []TypeOK
<1>1. IInv => TypeOK
    BY DEF IInv
<1> QED BY <1>1, SizesInvariant, PTL

\* In every mode and format, at every even size, each plane that render reads
\* from an offset of its own begins where the one before it ends, or after it,
\* but for the gaps between rows; a mapped frame's unit 0, which is the whole
\* frame, is not compared with its chroma planes (render's offsets).  Nothing is
\* bounded here.
THEOREM PlanesDoNotOverlap == Spec => []PlanesApart
<1>1. IInv => PlanesApart
    BY DEF IInv
<1> QED BY <1>1, SizesInvariant, PTL

\* As long as the bytes of the sizes drawn can be counted in the integers, no
\* draw has GL or CUDA read past the memory of its frame by more than the gaps
\* between its rows: whatever the application tells put_frame_data when the
\* buffers are mapped, and otherwise when it tells the bytes of a frame of the
\* dimensions it tells, or dimensions within those the pool was created for.
THEOREM NoReadPastTheFrame == Spec /\ []NoOverflow(tex) => []UploadInBounds
<1>1. Init /\ NoOverflow(tex) => Counted /\ UploadInBounds
    BY InitInv DEF Init, Counted
<1>2. IInv /\ Counted /\ UploadInBounds /\ NoOverflow(tex) /\ [Next]_vars
          => Counted' /\ UploadInBounds'
    BY NextReads
<1> QED BY <1>1, <1>2, SizesInvariant, PTL DEF Spec

\* What put_frame_data's check lets pass fits the buffer open mapped, in a
\* session opened for a size whose bytes can be counted, when the rows need no
\* gaps.
THEOREM PoolWithinBuffers == Spec => [](NoOverflow(ini) => PoolFitsBuffers)
<1>1. Init => (NoOverflow(ini) => PoolFitsBuffers)
    BY InitInv
<1>2. IInv /\ (NoOverflow(ini) => PoolFitsBuffers) /\ [Next]_vars
          => (NoOverflow(ini) => PoolFitsBuffers)'
    BY NextFits
<1> QED BY <1>1, <1>2, SizesInvariant, PTL DEF Spec

\* A pool created after frames of fewer pixels than that takes every frame of up
\* to the size of the one drawn last (create_framebuffer and put_frame_data).
THEOREM NoFrameRefused == Spec /\ []NoOverflow(tex) => PoolTakesFrames
<1>1. IInv /\ NoOverflow(tex)
          => [CreateFrameBuffer =>
                 \A size \in Sizes : Fits(size, tex)
                     => PutBytes(e_render_mode, size.width, size.height) <= m_u32_size']_vars
    <2> SUFFICES ASSUME IInv, NoOverflow(tex), CreateFrameBuffer,
                        NEW size \in Sizes, Fits(size, tex)
                 PROVE  PutBytes(e_render_mode, size.width, size.height) <= m_u32_size'
        OBVIOUS
    <2>1. e_render_mode \in Formats /\ tex \in Sizes
        BY DEF IInv, TypeOK
    <2> QED BY <2>1, ImageHolds DEF CreateFrameBuffer
<1> QED BY <1>1, SizesInvariant, PTL DEF PoolTakesFrames
=============================================================================
