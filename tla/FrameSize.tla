------------------------------ MODULE FrameSize ------------------------------
(***************************************************************************)
(* The sizes of a frame: what open allocates for a mapped buffer, what      *)
(* create_framebuffer takes a buffer of the pool to hold and put_frame_data *)
(* checks, and which bytes of the buffer render has GL and CUDA read.  The  *)
(* three are computed in different places from the texture's width and      *)
(* height, which a draw of a resized session changes.                       *)
(*                                                                          *)
(* GL reads rows at multiples of 4 bytes (the initial GL_UNPACK_ALIGNMENT,  *)
(* which nothing changes), CUDA without gaps.  The application lays its     *)
(* frames out where render expects the planes, without gaps; what it puts   *)
(* into a pool has a size in bytes and dimensions that it tells apart, and  *)
(* nothing in the code holds one to the other.  One session, one buffer of  *)
(* the pool; the queues are FramePool's.                                    *)
(***************************************************************************)
EXTENDS Integers

CONSTANTS
    Formats,       \* the members of mw_colorformat_e in use
    Dimensions,    \* the widths and heights the application uses, even:
                   \* open and render refuse an odd one
    MaxTexture,    \* gli32_max_texture_size
    Word           \* 2^32, the numbers of a uint32_t

Packed24 == {"BGR24", "V308"}
Packed32 == {"RGBA", "BGRA", "RGB10", "V408", "Y410"}
Packed16 == {"YUY2", "UYVY"}
Packed   == Packed24 \cup Packed32 \cup Packed16
Planar8  == {"NV12", "NV16", "I420", "I422"}
Planar16 == {"P010", "P210"}

ASSUME FrameSizeAssumption ==
    /\ Formats \subseteq Packed \cup Planar8 \cup Planar16
    /\ Dimensions \subseteq {n \in Nat \ {0} : n % 2 = 0}
    /\ MaxTexture \in Nat /\ Word \in Nat \ {0}

(***************************************************************************)
(* mwcalacsize.h, in int, and open's frame_size, in uint32_t.               *)
(***************************************************************************)
uint32(n) == n % Word
int(n) == IF 2 * uint32(n) < Word THEN uint32(n) ELSE uint32(n) - Word

Align4(n) == ((n + 3) \div 4) * 4

fmt_get_bpp(fmt) ==
    CASE fmt \in Packed16 -> 16 [] fmt \in Packed24 -> 24 [] fmt \in Packed32 -> 32

\* The bytes of a row of the first plane.
Line(fmt, cx) ==
    CASE fmt \in Packed   -> (cx * fmt_get_bpp(fmt)) \div 8
      [] fmt \in Planar16 -> cx * 2
      [] fmt \in Planar8  -> cx

fmt_calcminstride(fmt, cx) == Align4(Line(fmt, cx))

\* Mutant of fmt_calcimagesize: a planar image as large as its first plane.
fmt_calcimagesizeLuma(fmt, cx, cy, cbStride) == int(cbStride * cy)

\* Its refusals (0) need an odd height, an odd stride or one below the row.
fmt_calcimagesize(fmt, cx, cy, cbStride) ==
    CASE fmt \in Packed                   -> int(cbStride * cy)
      [] fmt \in {"NV12", "I420", "P010"} -> int(cbStride * cy * 4) \div 2
      [] fmt \in {"NV16", "I422", "P210"} -> int(cbStride * cy * 2)

\* Mutant of BytesPerPixel: the 16-bit formats get the bytes of the 8-bit ones.
BytesPerPixelShort(fmt) ==
    CASE fmt \in Packed24            -> 3
      [] fmt \in Packed32            -> 4
      [] fmt \in Packed16 \cup Planar8 \cup Planar16 -> 2

BytesPerPixel(fmt) ==
    CASE fmt \in Packed24            -> 3
      [] fmt \in Packed32 \cup Planar16 -> 4
      [] fmt \in Packed16 \cup Planar8  -> 2

FrameBytes(fmt, w, h) == uint32(w * h * BytesPerPixel(fmt))

(***************************************************************************)
(* render's uploads: rows of row bytes, pitch bytes apart.                  *)
(***************************************************************************)
CudaPlane(row, rows) == [unit |-> 0, offset |-> 0, row |-> row, pitch |-> row, rows |-> rows]
GLPlane(unit, offset, row, rows) ==
    [unit |-> unit, offset |-> offset, row |-> row, pitch |-> Align4(row), rows |-> rows]

\* The last byte of a plane that is read ends here, after the gaps that its
\* pitch leaves between its rows: none when these are of a multiple of 4 bytes.
End(p) == p.offset + (p.rows - 1) * p.pitch + p.row
Gaps(p) == (p.rows - 1) * (p.pitch - p.row)

Modes == {"none", "pixel buffer", "cuda", "intel"}

Rows(mode, fmt, h) == IF mode = "none" \/ fmt \in Packed THEN h ELSE 2 * h

\* Unit 0: a mapped planar frame goes up whole, as one plane of twice its
\* height, another one as its first plane; Intel's texture is the frame.
FirstPlane(mode, fmt, w, h) ==
    CASE mode \in {"none", "pixel buffer"} ->
              {GLPlane(0, 0, Line(fmt, w), Rows(mode, fmt, h))}
      [] mode = "cuda"  -> {CudaPlane(Line(fmt, w), Rows(mode, fmt, h))}
      [] mode = "intel" -> {}

\* Mutant of ChromaPlanes: I422 looks for its third plane where I420 has it.
ChromaPlanesSwapped(fmt, w, h) ==
    CASE fmt \in Packed24 \cup Packed32 -> {}
      [] fmt \in Packed16 -> {GLPlane(1, 0, 4 * (w \div 2), h)}
      [] fmt = "NV12" -> {GLPlane(1, w * h, 2 * (w \div 2), h \div 2)}
      [] fmt = "NV16" -> {GLPlane(1, w * h, 2 * (w \div 2), h)}
      [] fmt = "P010" -> {GLPlane(1, w * h * 2, 4 * (w \div 2), h \div 2)}
      [] fmt = "P210" -> {GLPlane(1, w * h * 2, 4 * (w \div 2), h)}
      [] fmt = "I420" -> {GLPlane(1, w * h, w \div 2, h \div 2),
                          GLPlane(2, (w * h * 5) \div 4, w \div 2, h \div 2)}
      [] fmt = "I422" -> {GLPlane(1, w * h, w \div 2, h),
                          GLPlane(2, (w * h * 5) \div 4, w \div 2, h)}

\* Units 1 and 2, from the frame's memory in every mode.
ChromaPlanes(fmt, w, h) ==
    CASE fmt \in Packed24 \cup Packed32 -> {}
      [] fmt \in Packed16 -> {GLPlane(1, 0, 4 * (w \div 2), h)}
      [] fmt = "NV12" -> {GLPlane(1, w * h, 2 * (w \div 2), h \div 2)}
      [] fmt = "NV16" -> {GLPlane(1, w * h, 2 * (w \div 2), h)}
      [] fmt = "P010" -> {GLPlane(1, w * h * 2, 4 * (w \div 2), h \div 2)}
      [] fmt = "P210" -> {GLPlane(1, w * h * 2, 4 * (w \div 2), h)}
      [] fmt = "I420" -> {GLPlane(1, w * h, w \div 2, h \div 2),
                          GLPlane(2, (w * h * 5) \div 4, w \div 2, h \div 2)}
      [] fmt = "I422" -> {GLPlane(1, w * h, w \div 2, h),
                          GLPlane(2, (w * h * 3) \div 2, w \div 2, h)}

Uploads(mode, fmt, w, h) == FirstPlane(mode, fmt, w, h) \cup ChromaPlanes(fmt, w, h)

\* The bytes of a frame: its planes one after the other.
PutBytes(fmt, w, h) ==
    CASE fmt \in Packed            -> Line(fmt, w) * h
      [] fmt \in {"NV12", "I420"} -> (w * h * 3) \div 2
      [] fmt \in {"NV16", "I422"} -> w * h * 2
      [] fmt = "P010"             -> w * h * 3
      [] fmt = "P210"             -> w * h * 4

-----------------------------------------------------------------------------

Sizes == [width : Dimensions, height : Dimensions]
Fits(s, t) == s.width <= t.width /\ s.height <= t.height

VARIABLES
    b_opened, e_render_mode, gl_map_mode, b_resize,
    ini,           \* u32_ini_width and u32_ini_height, those MWInitRender is given
    tex,           \* u32_tex_width and u32_tex_height
    frame_size,    \* the bytes of each buffer open mapped
    pc_framebuffer,\* is there a pool?
    m_u32_size,    \* what put_frame_data compares a frame's size with
    m_frame,       \* the frames in the pool's buffer, one or none: the
                   \* dimensions and the bytes the application told
    reads,         \* what the last draw read
    held,          \* of memory of how many bytes
    (* History variables, of which no action depends. *)
    pool_size,     \* the width and height the pool was created for
    described      \* was the last frame drawn told truthfully: put with its
                   \* bytes, or of no more than pool_size?

session == <<b_opened, e_render_mode, gl_map_mode, b_resize, ini, frame_size>>
pool    == <<pc_framebuffer, m_u32_size, pool_size>>
drawn   == <<tex, reads, held, described>>
vars    == <<session, pool, m_frame, drawn>>

b_alloc_buf == gl_map_mode # "none"

IntelRefuses(fmt, resize) == fmt \in Packed24 \/ resize
NvidiaRefuses(fmt) == fmt \in Packed24 \cup Planar16 \cup {"RGB10", "Y410"}

Init ==
    /\ b_opened = FALSE /\ gl_map_mode = "none" /\ b_resize = FALSE
    /\ e_render_mode \in Formats
    /\ ini \in Sizes /\ tex = ini
    /\ frame_size = 0
    /\ pc_framebuffer = FALSE /\ m_u32_size = 0 /\ pool_size = ini
    /\ m_frame = {} /\ reads = {} /\ held = 0 /\ described = TRUE

\* MWInitRender with the format and the size of Init, when open accepts them.
Open(mode, resize) ==
    /\ ~b_opened
    /\ mode = "intel" => ~IntelRefuses(e_render_mode, resize)
    /\ mode = "cuda" => ~NvidiaRefuses(e_render_mode)
    /\ Fits(ini, [width |-> MaxTexture, height |-> MaxTexture])
    /\ b_opened' = TRUE
    /\ gl_map_mode' = mode /\ b_resize' = resize
    /\ frame_size' = IF mode = "none" THEN 0
                     ELSE FrameBytes(e_render_mode, tex.width, tex.height)
    /\ UNCHANGED <<e_render_mode, ini, pool, m_frame, drawn>>

\* MWCreateFrameBuffer, replacing the pool there was.
CreateFrameBuffer ==
    /\ b_opened
    /\ pc_framebuffer' = TRUE
    /\ m_u32_size' = uint32(fmt_calcimagesize(e_render_mode, tex.width, tex.height,
                                fmt_calcminstride(e_render_mode, tex.width)))
    /\ pool_size' = tex
    /\ m_frame' = {}
    /\ UNCHANGED <<session, drawn>>

\* The sizes the application tells of its data: of a frame of one size or
\* another.
DataSizes == {uint32(PutBytes(e_render_mode, s.width, s.height)) : s \in Sizes}

\* MWPutFrameBufferQueue: put_frame_data checks the bytes and stores the
\* dimensions, by default 1920 x 1080, as they come.
PutFrame(size, bytes) ==
    /\ pc_framebuffer
    /\ bytes # 0 /\ bytes <= m_u32_size
    /\ m_frame' = {[size |-> size, bytes |-> bytes]}
    /\ UNCHANGED <<session, pool, drawn>>

\* Mutant of Resized: the mapped buffers are not held to the initial size.
ResizedMapped(size) ==
    /\ b_resize
    /\ Fits(size, ini) \/ ~pc_framebuffer
    /\ Fits(size, [width |-> MaxTexture, height |-> MaxTexture])

\* render takes the size of the frame over, or returns MW_VIDEORENDER_SIZE_ERROR.
Resized(size) ==
    /\ b_resize
    /\ Fits(size, ini) \/ ~(b_alloc_buf \/ pc_framebuffer)
    /\ Fits(size, [width |-> MaxTexture, height |-> MaxTexture])

\* Mutant of Upload: the doubled height of a planar texture is kept.
UploadDoubled(size, capacity) ==
    /\ tex' = [size EXCEPT !.height = Rows(gl_map_mode, e_render_mode, size.height)]
    /\ reads' = Uploads(gl_map_mode, e_render_mode, size.width, size.height)
    /\ held' = capacity

Upload(size, capacity) ==
    /\ tex' = size
    /\ reads' = Uploads(gl_map_mode, e_render_mode, size.width, size.height)
    /\ held' = capacity

\* What render_frame draws of a waiting frame: its dimensions are heeded by
\* a session that resizes only.
DrawnSize(frame) == IF b_resize THEN frame.size ELSE tex

\* MWRenderFrame from the pool.
DrawFrame ==
    \E frame \in m_frame :
        LET size == DrawnSize(frame) IN
        /\ b_resize => Resized(size)
        /\ Upload(size, IF b_alloc_buf THEN frame_size ELSE m_u32_size)
        /\ described' = \/ PutBytes(e_render_mode, size.width, size.height) <= frame.bytes
                        \/ Fits(size, pool_size)
        /\ m_frame' = {}
        /\ UNCHANGED <<session, pool>>

DrawRefused ==
    /\ \E frame \in m_frame : b_resize /\ ~Resized(frame.size)
    /\ m_frame' = {}
    /\ UNCHANGED <<session, pool, drawn>>

\* MWRenderFrame with data: a mapped buffer or a frame of the application's own.
DrawData(size) ==
    /\ b_opened
    /\ IF b_resize THEN Resized(size) ELSE size = tex
    /\ Upload(size, IF b_alloc_buf THEN frame_size
                    ELSE PutBytes(e_render_mode, size.width, size.height))
    /\ described' = TRUE
    /\ UNCHANGED <<session, pool, m_frame>>

Next ==
    \/ \E mode \in Modes, resize \in BOOLEAN : Open(mode, resize)
    \/ CreateFrameBuffer \/ DrawFrame \/ DrawRefused
    \/ \E size \in Sizes, bytes \in DataSizes : PutFrame(size, bytes)
    \/ \E size \in Sizes : DrawData(size)

Spec == Init /\ [][Next]_vars

-----------------------------------------------------------------------------

\* The types of the variables: the sizes stay among the application's, and
\* mwcalacsize.h's int results are stored as the uint32_t they came from.
TypeOK ==
    /\ b_opened \in BOOLEAN /\ b_resize \in BOOLEAN /\ pc_framebuffer \in BOOLEAN
    /\ e_render_mode \in Formats /\ gl_map_mode \in Modes
    /\ ini \in Sizes /\ tex \in Sizes /\ pool_size \in Sizes
    /\ m_frame \subseteq [size : Sizes, bytes : 1 .. Word - 1]
    /\ frame_size \in 0 .. Word - 1 /\ m_u32_size \in 0 .. Word - 1
    /\ described \in BOOLEAN

\* No draw, of whatever sizes and after whatever draws and puts, has GL or CUDA
\* read past the memory it was given, by more than the gaps between rows that
\* the frame does not have: past the mapped buffer, whatever the application
\* tells of its frames; past the pool's buffer, when it tells the bytes of a
\* frame of the dimensions it tells, or dimensions within those the pool was
\* created for; past the application's own frame.  (render 1353-1365 and
\* 1430-1893 against create_framebuffer 1952-1953, put_frame_data 141-152 and
\* open's frame_size.)
UploadInBounds ==
    b_alloc_buf \/ described => \A p \in reads : End(p) <= held + Gaps(p)

\* The planes of a draw are read apart, one ending where the next begins, but
\* for the gaps between rows (render's offsets, 1715-1887): the first plane and
\* the chroma planes of an unmapped frame, and the chroma planes of a mapped
\* one, whose unit 0 takes the whole frame in.  The second plane of YUY2 and
\* UYVY is the first one again, from offset 0.
PlanesApart ==
    \A p, q \in reads :
        /\ p.unit < q.unit /\ q.offset # 0
        /\ p.unit = 0 => ~b_alloc_buf
        => End(p) <= q.offset + Gaps(p)

\* What put_frame_data lets into a buffer fits the buffer open mapped, when the
\* rows need no gaps (mwcalacsize.h against open's frame_size): memcpy is held
\* to m_u32_size only.
PoolFitsBuffers ==
    pc_framebuffer /\ b_alloc_buf /\ Line(e_render_mode, ini.width) % 4 = 0
        => m_u32_size <= frame_size

\* PoolFitsBuffers without its condition on the rows: "may check the size", say
\* the copies of put_frame_data (mwvideoframebuffer.cpp:172).
PoolFitsBuffersAtEverySize ==
    pc_framebuffer /\ b_alloc_buf => m_u32_size <= frame_size

\* A pool takes every frame of up to the size it is created for: none is refused
\* with MW_VIDEORENDER_BUF_ERR.  (That size is tex, the last one drawn, and not
\* ini, up to which render would go on to draw.)
PoolTakesFrames ==
    [][CreateFrameBuffer =>
          \A size \in Sizes : Fits(size, tex)
              => PutBytes(e_render_mode, size.width, size.height) <= m_u32_size']_vars

=============================================================================
