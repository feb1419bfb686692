------------------------------- MODULE Painting -------------------------------
(***************************************************************************)
(* Pictures of vrt-viz: a line drawn step by step, the trail each track    *)
(* leaves on the plan, frame by frame, and the copies that put masks and   *)
(* pictures of one size into a picture of another. What a pixel looks like *)
(* is left out; where it is and whose it is, is not.                       *)
(***************************************************************************)
EXTENDS Integers, Sequences, FiniteSets

CONSTANTS
    Ends,           \* end points of lines, on the frame or off it
    Id,             \* identities of tracks
    Places,         \* metric (X, Z) of a track on the plan or off it
    OnPlan(_),      \* within the span and the depth of the plan
    MAX_LEN, TTL,   \* points of a trail, frames it outlives its track
    FrameModulus,   \* where the frame counter wraps
    MaxUpdates,     \* bound: frames followed
    Sizes           \* <<width, height>> of masks, pictures and frames

VARIABLES
    line,           \* [from, to], and what is drawn: "line", "trails", "copies"
    pen,            \* [x, y, err]
    frame,          \* TrailStore: the frame counter
    trails,         \* id -> [pts, last]
    past,           \* history: what each frame has confirmed, id -> place
    sizes           \* [from, to]: a copy

paintVars == <<line, pen, frame, trails, past, sizes>>

Abs(a) == IF a < 0 THEN -a ELSE a
LesserOf(a, b) == IF a <= b THEN a ELSE b
LargerOf(a, b) == IF a >= b THEN a ELSE b
------------------------------------------------------------------------------
(* draw_line: Bresenham.                                                   *)
Dx == Abs(line.to[1] - line.from[1])
Dy == -Abs(line.to[2] - line.from[2])
Toward(a, b) == IF a < b THEN 1 ELSE -1

FirstErr(from, to) == Abs(to[1] - from[1]) - Abs(to[2] - from[2])

Arrived == <<pen.x, pen.y>> = line.to

(* One turn of the loop: a step along x, along y, or both.                 *)
StepPen ==
    LET e2 == 2 * pen.err
        sideways == e2 >= Dy
        upwards == e2 <= Dx
    IN  /\ line.job = "line" /\ ~Arrived
        /\ pen' = [x |-> IF sideways THEN pen.x + Toward(line.from[1], line.to[1]) ELSE pen.x,
                   y |-> IF upwards THEN pen.y + Toward(line.from[2], line.to[2]) ELSE pen.y,
                   err |-> pen.err + (IF sideways THEN Dy ELSE 0) + (IF upwards THEN Dx ELSE 0)]
        /\ UNCHANGED <<line, frame, trails, past, sizes>>
------------------------------------------------------------------------------
(* TrailStore::update: a point for each confirmed track, then trails that  *)
(* have outlived their track by more than TTL go.                          *)
Extended(id, place) ==
    LET pts == Append(IF id \in DOMAIN trails THEN trails[id].pts ELSE <<>>, place)
    IN  [pts |-> IF Len(pts) > MAX_LEN THEN Tail(pts) ELSE pts, last |-> frame']

(* Frames since a trail was last extended. Fault: as if the counter never  *)
(* wrapped.                                                                *)
AgeFault(last) == LargerOf(frame' - last, 0)
Age(last) == (frame' - last) % FrameModulus

UpdateTrails(confirmed) ==
    /\ line.job = "trails"
    /\ Len(past) < MaxUpdates
    /\ frame' = (frame + 1) % FrameModulus
    /\ LET held == [id \in DOMAIN trails \cup DOMAIN confirmed |->
                       IF id \in DOMAIN confirmed THEN Extended(id, confirmed[id]) ELSE trails[id]]
           live == {id \in DOMAIN held : Age(held[id].last) <= TTL}
       IN  trails' = [id \in live |-> held[id]]
    /\ past' = Append(past, confirmed)
    /\ UNCHANGED <<line, pen, sizes>>

(* render_bev: the points of a path that a stroke joins, found one by one: *)
(* a stroke comes from the last point on the plan, which is forgotten at   *)
(* one off the plan.                                                       *)
Strokes(path) ==
    LET drawn[n \in 0 .. Len(path)] ==
            IF n = 0 THEN [prev |-> 0, strokes |-> {}]
            ELSE IF ~OnPlan(path[n]) THEN [drawn[n - 1] EXCEPT !.prev = 0]
            ELSE [prev |-> n,
                  strokes |-> drawn[n - 1].strokes \cup {<<p, n>> : p \in {drawn[n - 1].prev} \ {0}}]
    IN  drawn[Len(path)].strokes
------------------------------------------------------------------------------
SCALE == 2
GLYPH_W == 5
GLYPH_H == 7
Picture(size) == (0 .. size[1] - 1) \X (0 .. size[2] - 1)

(* downscale and tint_mask: the pixel of one grid another's pixel is read  *)
(* from.                                                                   *)
Nearest(q, from, to) == <<(q[1] * from[1]) \div to[1], (q[2] * from[2]) \div to[2]>>

(* stack_v: where the pixels of the two pictures go.                       *)
StackedSize(top, bot) == <<LargerOf(top[1], bot[1]), top[2] + bot[2]>>
Placed(q, size, down, width) == <<q[1] + (width - size[1]) \div 2, q[2] + down>>
Stacked(top, bot) ==
    LET w == StackedSize(top, bot)[1]
    IN  <<{Placed(q, top, 0, w) : q \in Picture(top)}, {Placed(q, bot, top[2], w) : q \in Picture(bot)}>>

(* fill_tri: the pixels between the corners, on one side of all edges.     *)
Side3(a, b, c) == (b[1] - a[1]) * (c[2] - a[2]) - (b[2] - a[2]) * (c[1] - a[1])
FilledTri(a, b, c, size) ==
    {q \in Picture(size) :
        LET w == {Side3(b, c, q), Side3(c, a, q), Side3(a, b, q)}
        IN  /\ \A d \in {1, 2} : \E lo, hi \in {a, b, c} : lo[d] <= q[d] /\ q[d] <= hi[d]
            /\ (\A k \in w : k >= 0) \/ (\A k \in w : k <= 0)}

(* draw_box and rect_outline: the lines an outline is drawn with.          *)
BoxEdges(b) ==
    {<< <<b[1], b[2]>>, <<b[3], b[2]>> >>, << <<b[3], b[2]>>, <<b[3], b[4]>> >>,
     << <<b[3], b[4]>>, <<b[1], b[4]>> >>, << <<b[1], b[4]>>, <<b[1], b[2]>> >>}
RectEdges(at, size) ==
    LET x == at[1]  y == at[2]  rw == size[1]  rh == size[2]
    IN  {<< <<x, y>>, <<x + rw, y>> >>, << <<x, y + rh>>, <<x + rw, y + rh>> >>,
         << <<x, y>>, <<x, y + rh>> >>, << <<x + rw, y>>, <<x + rw, y + rh>> >>}
(* The pixels of a line along an axis.                                     *)
OnEdge(e) ==
    (LesserOf(e[1][1], e[2][1]) .. LargerOf(e[1][1], e[2][1])) \X (LesserOf(e[1][2], e[2][2]) .. LargerOf(e[1][2], e[2][2]))

(* fill_rect_alpha and the backdrop of draw_label, cut at the frame.       *)
Clipped(at, size, frameSize) ==
    (LargerOf(at[1], 0) .. (LesserOf(at[1] + size[1], frameSize[1]) - 1))
        \X (LargerOf(at[2], 0) .. (LesserOf(at[2] + size[2], frameSize[2]) - 1))
Backdrop(at, chars, frameSize) ==
    Clipped(<<at[1] - 1, at[2] - 1>>, <<(GLYPH_W + 1) * SCALE * chars + 2, GLYPH_H * SCALE + 2>>, frameSize)

(* draw_label: the pixels the glyphs of a text may set.                    *)
GlyphPixels(at, chars, frameSize) ==
    {q \in Picture(frameSize) :
        \E k \in 0 .. (chars - 1), col \in 0 .. (GLYPH_W - 1), row \in 0 .. (GLYPH_H - 1), sx, sy \in 0 .. (SCALE - 1) :
            q = <<at[1] + k * (GLYPH_W + 1) * SCALE + col * SCALE + sx, at[2] + row * SCALE + sy>>}
------------------------------------------------------------------------------
NoLine(job) == [job |-> job, from |-> <<0, 0>>, to |-> <<0, 0>>]
NoPen == [x |-> 0, y |-> 0, err |-> 0]

PaintInit ==
    /\ \/ \E from, to \in Ends :
              /\ line = [job |-> "line", from |-> from, to |-> to]
              /\ pen = [x |-> from[1], y |-> from[2], err |-> FirstErr(from, to)]
              /\ sizes = <<>>
       \/ line = NoLine("trails") /\ pen = NoPen /\ sizes = <<>>
       \/ /\ line = NoLine("copies") /\ pen = NoPen
          /\ sizes \in [from : Sizes, to : Sizes]
    /\ frame = 0 /\ trails = <<>> /\ past = <<>>

Confirmed == UNION {[ids -> Places] : ids \in SUBSET Id}
PaintNext == StepPen \/ \E confirmed \in Confirmed : UpdateTrails(confirmed)

PaintOff ==
    line = NoLine("none") /\ pen = NoPen /\ frame = 0 /\ trails = <<>> /\ past = <<>> /\ sizes = <<>>

-----------------------------------------------------------------------------
(***************************************************************************)
(* What the pictures may be relied on to show.                             *)
(***************************************************************************)

(* The pen stays between the ends of its line and within half a pixel of   *)
(* it, so that what is drawn on the frame is the line however much of it   *)
(* is off the frame, and no loop runs past its end.                        *)
Between(k, a, b) == (a <= k /\ k <= b) \/ (b <= k /\ k <= a)
LineStraight ==
    line.job = "line" =>
        /\ Between(pen.x, line.from[1], line.to[1]) /\ Between(pen.y, line.from[2], line.to[2])
        /\ 2 * Abs(Side3(line.from, line.to, <<pen.x, pen.y>>)) <= LargerOf(Dx, -Dy)

(* A trail is the recent path of its track: there is one for exactly the   *)
(* tracks confirmed in the last TTL frames, of the latest MAX_LEN points   *)
(* since the track was last away for longer, also when the counter wraps.  *)
Seen(id) == {k \in DOMAIN past : id \in DOMAIN past[k]}
Recent(id) == {k \in Seen(id) : Len(past) - k <= TTL}
Since(id) ==    \* frames of the current stay
    {k \in Seen(id) : \A j \in k .. (Len(past) - 1) : \E s \in Seen(id) : j - TTL <= s /\ s <= j}
TrailIsRecentPath ==
    /\ DOMAIN trails = {id \in Id : Recent(id) # {}}
    /\ \A id \in DOMAIN trails :
          LET pts == trails[id].pts
              stay == Since(id)
          IN  /\ Len(pts) = LesserOf(Cardinality(stay), MAX_LEN)
              /\ \A n \in DOMAIN pts :
                    \E k \in stay : /\ Cardinality({j \in stay : j > k}) = Len(pts) - n
                                    /\ pts[n] = past[k][id]

(* The strokes on the plan are the path as far as it is on the plan: they  *)
(* join all successive points of it, and none across a place off the plan, *)
(* past which nobody knows how the track went.                             *)
NoStrokeAcross ==
    \A id \in DOMAIN trails :
        LET pts == trails[id].pts
            on == {n \in DOMAIN pts : OnPlan(pts[n])}
        IN  Strokes(pts) = {<<n, n + 1>> : n \in {n \in on : n + 1 \in on}}

(* No copy reads or writes past a picture, whatever the sizes; a stack     *)
(* keeps both pictures apart and whole; a picture is its own downscale;    *)
(* a triangle is filled whichever way its corners turn. Both ways to draw  *)
(* an outline trace the same pixels, a box inside out has the outline of   *)
(* the box it is, a fill is within its outline, and a text, of which part  *)
(* may be off the picture, on its backdrop.                                *)
CopiesWithin ==
    line.job = "copies" =>
        LET a == sizes.from
            b == sizes.to
            both == Stacked(a, b)
        IN  /\ \A q \in Picture(b) : Nearest(q, a, b) \in Picture(a)
            /\ \A q \in Picture(a) : Nearest(q, a, a) = q
            /\ both[1] \cap both[2] = {}
            /\ both[1] \cup both[2] \subseteq Picture(StackedSize(a, b))
            /\ Cardinality(both[1]) = a[1] * a[2] /\ Cardinality(both[2]) = b[1] * b[2]
            /\ FilledTri(<<0, 0>>, a, <<a[1], 0>>, b) = FilledTri(<<a[1], 0>>, a, <<0, 0>>, b)
            /\ LET at == <<b[1] - 3, b[2] - 2>>
                   far == <<at[1] + a[1], at[2] + a[2]>>
                   Outline(edges) == UNION {OnEdge(e) : e \in edges}
                   border == Outline(RectEdges(at, a))
               IN  /\ border = Outline(BoxEdges(<<at[1], at[2], far[1], far[2]>>))
                   /\ border = Outline(BoxEdges(<<far[1], far[2], at[1], at[2]>>))
                   /\ Clipped(at, a, b) = Picture(b) \cap ((at[1] .. (far[1] - 1)) \X (at[2] .. (far[2] - 1)))
                   /\ GlyphPixels(at, 2, b) \subseteq Backdrop(at, 2, b)

(* A picture shows what happened where it happened: trails of the recent   *)
(* path and of nothing between, straight lines, and copies and outlines    *)
(* that keep to their picture.                                             *)
DrawnInPlace == TrailIsRecentPath /\ NoStrokeAcross /\ LineStraight /\ CopiesWithin
==============================================================================
