------------------------- MODULE FramebufferProofs -------------------------
(***************************************************************************)
(* The desktop stays inside the framebuffer and is complete when           *)
(* kernel_main halts, for every framebuffer that is no smaller than the    *)
(* taskbar and the start button.                                           *)
(***************************************************************************)
EXTENDS Framebuffer, TLAPS

\* A number below 2^32 is its own remainder.
LEMMA SmallMod ==
    ASSUME NEW i \in Nat, i < WORD PROVE i % WORD = i
  BY FramebufferConstants, Z3

\* Half of 2^32, the first number an int does not hold.
LEMMA HalfWord == WORD \div 2 \in Nat /\ 2 * (WORD \div 2) <= WORD
  BY FramebufferConstants

\* The conversions between int and uint32_t keep every number below 2^31.
LEMMA Kept ==
    ASSUME NEW i \in Nat, i < WORD \div 2
    PROVE  ToUnsigned(i) = i /\ ToInt(i) = i
<1>1. i < WORD BY HalfWord, FramebufferConstants
<1> QED BY <1>1, SmallMod, HalfWord, FramebufferConstants DEF ToUnsigned, ToInt

\* Multiplication keeps the order of natural numbers.
LEMMA ProductMono ==
    ASSUME NEW a \in Nat, NEW b \in Nat, NEW c \in Nat, a <= b
    PROVE  a * c <= b * c
  OBVIOUS

\* A pixel whose coordinates are on the screen is in the buffer.
LEMMA Inside ==
    ASSUME NEW x \in Nat, NEW y \in Nat, x < fb_width, y < fb_height
    PROVE  y * fb_width + x \in Index
<1>1. y + 1 <= fb_height
  BY FramebufferConstants
<1>2. (y + 1) * fb_width <= fb_height * fb_width
  BY <1>1, ProductMono, FramebufferConstants
<1>3. (y + 1) * fb_width = y * fb_width + fb_width
  BY FramebufferConstants
<1>4. fb_height * fb_width = fb_width * fb_height /\ y * fb_width \in Nat
  BY FramebufferConstants
<1> QED BY <1>2, <1>3, <1>4, FramebufferConstants DEF Index

Fits(r) == /\ r.x \in Nat /\ r.y \in Nat /\ r.w \in Nat /\ r.h \in Nat
           /\ r.x + r.w <= fb_width /\ r.y + r.h <= fb_height

\* Rect keeps its arguments, so it fits the screen where they do.
LEMMA RectFits ==
    ASSUME NEW x \in Nat, NEW y \in Nat, NEW w \in Nat, NEW h \in Nat, NEW color,
           x + w <= fb_width, y + h <= fb_height
    PROVE  Fits(Rect(x, y, w, h, color))
<1>1. /\ x < WORD \div 2 /\ y < WORD \div 2 /\ w < WORD \div 2 /\ h < WORD \div 2
  BY HalfWord, FramebufferConstants
<1>2. Rect(x, y, w, h, color) =
        [x |-> x, y |-> y, w |-> w, h |-> h, color |-> color]
  BY <1>1, Kept DEF Rect
<1> QED BY <1>2 DEF Fits

\* The three rectangles fit, and their colours are colours.
LEMMA AllFit ==
    /\ Len(kernel_main) = 3
    /\ \A j \in 1 .. 3 : Fits(kernel_main[j]) /\ kernel_main[j].color \in 0 .. ACCENT
<1>1. Fits(Rect(0, 0, fb_width, fb_height, DARK_BG))
  BY RectFits, FramebufferConstants
<1>2. Fits(Rect(0, fb_height - TASKBAR, fb_width, TASKBAR, PANEL_BG))
  BY RectFits, FramebufferConstants
<1>3. Fits(Rect(BUTTON_X, fb_height - BUTTON_UP, BUTTON_W, BUTTON_H, ACCENT))
  BY RectFits, FramebufferConstants
<1>4. \A x, y, w, h : \A color \in 0 .. 3 : Rect(x, y, w, h, color).color \in 0 .. 3
  BY DEF Rect
<1> QED BY <1>1, <1>2, <1>3, <1>4 DEF kernel_main, DARK_BG, PANEL_BG, ACCENT

(***************************************************************************)
(* The loop variables stay within the rectangle being drawn, one past its  *)
(* last column and row at most.                                            *)
(***************************************************************************)
LoopInv ==
    /\ job \in 1 .. 4 /\ stray = FALSE /\ fb \in [Index -> 0 .. ACCENT]
    /\ xx \in 0 .. fb_width /\ yy \in 0 .. fb_height
    /\ job <= 3 => /\ xx \in kernel_main[job].x .. kernel_main[job].x + kernel_main[job].w
                   /\ yy \in kernel_main[job].y .. kernel_main[job].y + kernel_main[job].h

\* The first rectangle's loops start in its upper left corner.
LEMMA LoopStart == Init => LoopInv
<1> SUFFICES ASSUME Init PROVE LoopInv
  OBVIOUS
<1>1. Fits(kernel_main[1])
  BY AllFit
<1>2. fb \in [Index -> 0 .. ACCENT]
  BY DEF Init, ACCENT
<1>3. xx \in 0 .. fb_width /\ yy \in 0 .. fb_height
  BY <1>1, FramebufferConstants DEF Init, Fits
<1> QED BY <1>1, <1>2, <1>3 DEF Init, LoopInv, Fits

\* Every step of draw_rect and kernel_main keeps the loops inside.
LEMMA LoopStep == LoopInv /\ [Next]_vars => LoopInv'
<1> SUFFICES ASSUME LoopInv, [Next]_vars PROVE LoopInv'
  OBVIOUS
<1>1. CASE DrawPixel
  <2> DEFINE r == kernel_main[job]
  <2>1. /\ job \in 1 .. 3 /\ Fits(r) /\ r.color \in 0 .. ACCENT
        /\ xx \in Nat /\ yy \in Nat /\ xx < fb_width /\ yy < fb_height
    BY <1>1, AllFit, FramebufferConstants DEF DrawPixel, LoopInv, Fits, Rows, Columns
  <2>2. yy * fb_width + xx \in Index
    BY <2>1, Inside
  <2>3. ToUnsigned(yy) = yy /\ ToUnsigned(xx) = xx
    BY <2>1, Kept, HalfWord, FramebufferConstants
  <2>4. ToUnsigned(yy * fb_width + xx) = yy * fb_width + xx
    <3>1. /\ yy * fb_width + xx \in Nat
          /\ yy * fb_width + xx < fb_width * fb_height
      BY <2>1, <2>2, FramebufferConstants DEF Index
    <3>2. yy * fb_width + xx < WORD \div 2
      BY <3>1, HalfWord, FramebufferConstants
    <3> QED BY <3>1, <3>2, Kept
  <2>5. stray' = FALSE /\ fb' = [fb EXCEPT ![yy * fb_width + xx] = r.color]
    BY <1>1, <2>2, <2>3, <2>4 DEF DrawPixel, put_pixel, LoopInv
  <2>6. xx' = xx + 1 /\ job' = job /\ yy' = yy /\ xx \in Columns(r)
    BY <1>1 DEF DrawPixel
  <2>7. fb' \in [Index -> 0 .. ACCENT]
    BY <2>1, <2>2, <2>5 DEF LoopInv
  <2>8. xx' \in 0 .. fb_width /\ yy' \in 0 .. fb_height
    BY <2>1, <2>6, FramebufferConstants
  <2>9. /\ xx' \in r.x .. r.x + r.w /\ yy' \in r.y .. r.y + r.h
    BY <2>1, <2>6 DEF LoopInv, Fits, Columns
  <2> QED BY <2>1, <2>5, <2>6, <2>7, <2>8, <2>9 DEF LoopInv
<1>2. CASE NextRow
  <2> DEFINE r == kernel_main[job]
  <2>1. job \in 1 .. 3 /\ Fits(r) /\ yy \in Rows(r)
    BY <1>2, AllFit DEF NextRow, LoopInv
  <2>2. yy' = yy + 1 /\ xx' = r.x /\ UNCHANGED <<fb, job, stray>>
    BY <1>2 DEF NextRow
  <2>3. /\ xx' \in r.x .. r.x + r.w /\ yy' \in r.y .. r.y + r.h
        /\ xx' \in 0 .. fb_width /\ yy' \in 0 .. fb_height
    BY <2>1, <2>2, FramebufferConstants DEF Fits, Rows
  <2> QED BY <2>1, <2>2, <2>3 DEF LoopInv
<1>3. CASE NextRect
  <2>1. job' = job + 1 /\ UNCHANGED <<fb, stray>> /\ job \in 1 .. 3
    BY <1>3, AllFit DEF NextRect, LoopInv
  <2>2. CASE job < 3
    <3> DEFINE r == kernel_main[job + 1]
    <3>1. xx' = r.x /\ yy' = r.y /\ Fits(r)
      BY <1>3, <2>1, <2>2, AllFit DEF NextRect
    <3>2. /\ xx' \in r.x .. r.x + r.w /\ yy' \in r.y .. r.y + r.h
          /\ xx' \in 0 .. fb_width /\ yy' \in 0 .. fb_height
      BY <3>1, FramebufferConstants DEF Fits
    <3> QED BY <2>1, <2>2, <3>2 DEF LoopInv
  <2>3. CASE job >= 3
    BY <1>3, <2>1, <2>3, AllFit DEF NextRect, LoopInv
  <2> QED BY <2>1, <2>2, <2>3
<1>4. CASE UNCHANGED vars
  BY <1>4 DEF vars, LoopInv
<1> QED BY <1>1, <1>2, <1>3, <1>4 DEF Next

(***************************************************************************)
(* kernel_main's drawing never leaves the framebuffer: no subtraction from *)
(* fb_height, sum in draw_rect or product in put_pixel wraps, whatever the *)
(* sizes are that leave room for taskbar and button.                       *)
(***************************************************************************)
THEOREM DesktopStaysInside == Spec => []StoresInFramebuffer
<1>1. LoopInv => StoresInFramebuffer
  BY DEF LoopInv, StoresInFramebuffer
<1> QED BY <1>1, LoopStart, LoopStep, PTL DEF Spec

\* Every pixel is a colour and draw_rect's loop variables are on the screen.
THEOREM FramebufferTypeCorrect == Spec => []TypeOK
<1>1. LoopInv => TypeOK
  <2> SUFFICES ASSUME LoopInv PROVE TypeOK
    OBVIOUS
  <2>1. stray \in BOOLEAN
    BY Zenon DEF LoopInv
  <2> QED BY <2>1, AllFit DEF LoopInv, TypeOK
<1> QED BY <1>1, LoopStart, LoopStep, PTL DEF Spec

-----------------------------------------------------------------------------
(***************************************************************************)
(* What is on the screen at every moment.  Rectangle j shows at (x, y) if  *)
(* it covers the pixel and its loops have passed it; the last rectangle    *)
(* that shows there is on top.                                             *)
(***************************************************************************)
Covers(j, x, y) ==
    /\ kernel_main[j].x <= x /\ x < kernel_main[j].x + kernel_main[j].w
    /\ kernel_main[j].y <= y /\ y < kernel_main[j].y + kernel_main[j].h

Passed(j, x, y) ==
    \/ j < job
    \/ j = job /\ y < yy
    \/ j = job /\ y = yy /\ x < xx

Shows(j, x, y) == Covers(j, x, y) /\ Passed(j, x, y)

Shade(x, y) ==
    IF Shows(3, x, y) THEN ACCENT
    ELSE IF Shows(2, x, y) THEN PANEL_BG
    ELSE IF Shows(1, x, y) THEN DARK_BG ELSE 0

Across == 0 .. fb_width - 1
Down   == 0 .. fb_height - 1

PaintInv == \A x \in Across, y \in Down : fb[y * fb_width + x] = Shade(x, y)

\* The rectangles kernel_main draws, no conversion having changed them.
LEMMA Rectangles ==
    /\ kernel_main[1] = [x |-> 0, y |-> 0, w |-> fb_width, h |-> fb_height, color |-> DARK_BG]
    /\ kernel_main[2] = [x |-> 0, y |-> fb_height - TASKBAR, w |-> fb_width, h |-> TASKBAR,
                         color |-> PANEL_BG]
    /\ kernel_main[3] = [x |-> BUTTON_X, y |-> fb_height - BUTTON_UP, w |-> BUTTON_W,
                         h |-> BUTTON_H, color |-> ACCENT]
<1>1. ASSUME NEW x \in Nat, NEW y \in Nat, NEW w \in Nat, NEW h \in Nat, NEW color,
             x + w <= fb_width, y + h <= fb_height
      PROVE  Rect(x, y, w, h, color) = [x |-> x, y |-> y, w |-> w, h |-> h, color |-> color]
  <2>1. /\ x < WORD \div 2 /\ y < WORD \div 2 /\ w < WORD \div 2 /\ h < WORD \div 2
    BY <1>1, HalfWord, FramebufferConstants
  <2> QED BY <2>1, Kept DEF Rect
<1>2. Rect(0, 0, fb_width, fb_height, DARK_BG) =
        [x |-> 0, y |-> 0, w |-> fb_width, h |-> fb_height, color |-> DARK_BG]
  BY <1>1, FramebufferConstants
<1>3. Rect(0, fb_height - TASKBAR, fb_width, TASKBAR, PANEL_BG) =
        [x |-> 0, y |-> fb_height - TASKBAR, w |-> fb_width, h |-> TASKBAR, color |-> PANEL_BG]
  BY <1>1, FramebufferConstants
<1>4. Rect(BUTTON_X, fb_height - BUTTON_UP, BUTTON_W, BUTTON_H, ACCENT) =
        [x |-> BUTTON_X, y |-> fb_height - BUTTON_UP, w |-> BUTTON_W, h |-> BUTTON_H,
         color |-> ACCENT]
  BY <1>1, FramebufferConstants
<1> QED BY <1>2, <1>3, <1>4 DEF kernel_main

\* Two pixels of the screen are never stored in the same place.
LEMMA PixelUnique ==
    ASSUME NEW x \in Across, NEW y \in Down, NEW u \in Across, NEW v \in Down,
           y * fb_width + x = v * fb_width + u
    PROVE  x = u /\ y = v
<1>1. ASSUME NEW a \in Nat, NEW b \in Nat, a < b, NEW c \in Nat, NEW d \in Across
      PROVE  a * fb_width + d < b * fb_width + c
  <2>1. (a + 1) * fb_width <= b * fb_width
    BY <1>1, ProductMono, FramebufferConstants
  <2>2. (a + 1) * fb_width = a * fb_width + fb_width /\ a * fb_width \in Nat
        /\ b * fb_width \in Nat
    BY <1>1, FramebufferConstants
  <2> QED BY <1>1, <2>1, <2>2, FramebufferConstants DEF Across
<1>2. x \in Nat /\ u \in Nat /\ y \in Nat /\ v \in Nat /\ fb_width \in Nat
      /\ y * fb_width \in Nat /\ v * fb_width \in Nat
  BY FramebufferConstants DEF Across, Down
<1>3. ~(y < v) /\ ~(v < y)
  <2>1. y < v => y * fb_width + x < v * fb_width + u
    BY <1>1, <1>2
  <2>2. v < y => v * fb_width + u < y * fb_width + x
    BY <1>1, <1>2
  <2> QED BY <1>2, <2>1, <2>2
<1>4. y = v
  BY <1>2, <1>3
<1> QED BY <1>2, <1>4

\* Before the first pixel nothing shows.
LEMMA PaintStart == Init => PaintInv
<1> SUFFICES ASSUME Init, NEW x \in Across, NEW y \in Down
             PROVE  fb[y * fb_width + x] = Shade(x, y)
  BY DEF PaintInv
<1>1. job = 1 /\ xx = 0 /\ yy = 0
  BY Rectangles DEF Init
<1>2. x \in Nat /\ y \in Nat /\ x < fb_width /\ y < fb_height
  BY FramebufferConstants DEF Across, Down
<1>3. ~Passed(1, x, y) /\ ~Passed(2, x, y) /\ ~Passed(3, x, y)
  BY <1>1, <1>2 DEF Passed
<1>4. y * fb_width + x \in Index
  BY <1>2, Inside
<1> QED BY <1>3, <1>4 DEF Init, Shade, Shows

\* The pixel draw_rect stores is the one that starts to show.
LEMMA DrawnPixel ==
    ASSUME LoopInv, DrawPixel
    PROVE  /\ job \in 1 .. 3 /\ xx \in Across /\ yy \in Down /\ Covers(job, xx, yy)
           /\ fb' = [fb EXCEPT ![yy * fb_width + xx] = kernel_main[job].color]
           /\ xx' = xx + 1 /\ yy' = yy /\ job' = job
<1> DEFINE r == kernel_main[job]
<1>1. /\ job \in 1 .. 3 /\ Fits(r) /\ yy \in Rows(r) /\ xx \in Columns(r)
      /\ xx \in Nat /\ yy \in Nat /\ xx < fb_width /\ yy < fb_height
  BY AllFit, FramebufferConstants DEF DrawPixel, LoopInv, Fits, Rows, Columns
<1>2. xx \in Across /\ yy \in Down
  BY <1>1, FramebufferConstants DEF Across, Down
<1>3. Covers(job, xx, yy)
  BY <1>1 DEF Covers, Rows, Columns, Fits
<1>4. ToUnsigned(yy) = yy /\ ToUnsigned(xx) = xx
  BY <1>1, Kept, HalfWord, FramebufferConstants
<1>5. ToUnsigned(yy * fb_width + xx) = yy * fb_width + xx
  <2>1. yy * fb_width + xx \in Index
    BY <1>1, Inside
  <2>2. yy * fb_width + xx \in Nat /\ yy * fb_width + xx < fb_width * fb_height
    BY <1>1, <2>1, FramebufferConstants DEF Index
  <2>3. yy * fb_width + xx < WORD \div 2
    BY <2>2, HalfWord, FramebufferConstants
  <2> QED BY <2>2, <2>3, Kept
<1>6. fb' = [fb EXCEPT ![yy * fb_width + xx] = r.color] /\ xx' = xx + 1 /\ yy' = yy /\ job' = job
  BY <1>4, <1>5 DEF DrawPixel, put_pixel
<1> QED BY <1>1, <1>2, <1>3, <1>6

\* Colours of the rectangles, by number.
LEMMA ColorOf ==
    /\ kernel_main[1].color = DARK_BG /\ kernel_main[2].color = PANEL_BG
    /\ kernel_main[3].color = ACCENT
  BY Rectangles

\* DrawPixel changes what is on the screen in one place.
LEMMA PaintDraw == LoopInv /\ PaintInv /\ DrawPixel => PaintInv'
<1> SUFFICES ASSUME LoopInv, PaintInv, DrawPixel, NEW x \in Across, NEW y \in Down
             PROVE  fb'[y * fb_width + x] = Shade(x, y)'
  BY DEF PaintInv
<1>1. /\ job \in 1 .. 3 /\ xx \in Across /\ yy \in Down /\ Covers(job, xx, yy)
      /\ fb' = [fb EXCEPT ![yy * fb_width + xx] = kernel_main[job].color]
      /\ xx' = xx + 1 /\ yy' = yy /\ job' = job
  BY DrawnPixel
<1>2. /\ x \in Nat /\ y \in Nat /\ xx \in Nat /\ yy \in Nat
      /\ x < fb_width /\ y < fb_height /\ xx < fb_width /\ yy < fb_height
  BY <1>1, FramebufferConstants DEF Across, Down
<1>3. y * fb_width + x \in Index /\ yy * fb_width + xx \in Index
  BY <1>2, Inside
<1>4. fb \in [Index -> 0 .. ACCENT]
  BY DEF LoopInv
<1>5. CASE x = xx /\ y = yy
  <2>1. fb'[y * fb_width + x] = kernel_main[job].color
    BY <1>1, <1>3, <1>4, <1>5
  <2>2. Covers(job, x, y)' /\ Passed(job, x, y)'
    BY <1>1, <1>2, <1>5 DEF Passed, Covers
  <2>3. \A k \in 1 .. 3 : k > job => ~Passed(k, x, y)'
    BY <1>1, <1>2 DEF Passed
  <2>4. CASE job = 1
    <3>1. Shows(1, x, y)' /\ ~Shows(2, x, y)' /\ ~Shows(3, x, y)'
      BY <2>2, <2>3, <2>4, <1>1 DEF Shows
    <3> QED BY <2>1, <2>4, <3>1, ColorOf DEF Shade
  <2>5. CASE job = 2
    <3>1. Shows(2, x, y)' /\ ~Shows(3, x, y)'
      BY <2>2, <2>3, <2>5, <1>1 DEF Shows
    <3> QED BY <2>1, <2>5, <3>1, ColorOf DEF Shade
  <2>6. CASE job = 3
    <3>1. Shows(3, x, y)'
      BY <2>2, <2>6, <1>1 DEF Shows
    <3> QED BY <2>1, <2>6, <3>1, ColorOf DEF Shade
  <2> QED BY <1>1, <2>4, <2>5, <2>6
<1>6. CASE ~(x = xx /\ y = yy)
  <2>1. y * fb_width + x # yy * fb_width + xx
    BY <1>1, <1>6, PixelUnique
  <2>2. fb'[y * fb_width + x] = fb[y * fb_width + x]
    BY <1>1, <1>3, <1>4, <2>1
  <2>3. \A j \in 1 .. 3 : Passed(j, x, y)' <=> Passed(j, x, y)
    BY <1>1, <1>2, <1>6 DEF Passed
  <2>4. \A j \in 1 .. 3 : Shows(j, x, y)' <=> Shows(j, x, y)
    BY <2>3 DEF Shows, Covers
  <2>5. Shade(x, y)' = Shade(x, y)
    BY <2>4 DEF Shade
  <2> QED BY <2>2, <2>5 DEF PaintInv
<1> QED BY <1>5, <1>6

\* What shows decides what is on the screen.
LEMMA PaintSame ==
    ASSUME PaintInv, fb' = fb,
           \A x \in Across, y \in Down : \A j \in 1 .. 3 : Shows(j, x, y)' <=> Shows(j, x, y)
    PROVE  PaintInv'
<1> SUFFICES ASSUME NEW x \in Across, NEW y \in Down
             PROVE  fb'[y * fb_width + x] = Shade(x, y)'
  BY DEF PaintInv
<1>1. Shade(x, y)' = Shade(x, y)
  <2>1. /\ Shows(1, x, y)' <=> Shows(1, x, y)
        /\ Shows(2, x, y)' <=> Shows(2, x, y)
        /\ Shows(3, x, y)' <=> Shows(3, x, y)
    OBVIOUS
  <2> QED BY <2>1 DEF Shade
<1> QED BY <1>1 DEF PaintInv

\* A row ends where its rectangle does, so the next row adds nothing.
LEMMA PaintRow == LoopInv /\ PaintInv /\ NextRow => PaintInv'
<1> SUFFICES ASSUME LoopInv, PaintInv, NextRow PROVE PaintInv'
  OBVIOUS
<1> DEFINE r == kernel_main[job]
<1>1. /\ job \in 1 .. 3 /\ Fits(r) /\ yy \in Rows(r) /\ xx \notin Columns(r)
      /\ xx \in r.x .. r.x + r.w
  BY AllFit DEF NextRow, LoopInv
<1>2. yy' = yy + 1 /\ xx' = r.x /\ fb' = fb /\ job' = job
  BY DEF NextRow
<1>3. xx = r.x + r.w /\ yy \in Nat /\ xx \in Nat
  BY <1>1 DEF Fits, Rows, Columns
<1>4. ASSUME NEW x \in Across, NEW y \in Down, NEW j \in 1 .. 3
      PROVE  Shows(j, x, y)' <=> Shows(j, x, y)
  <2>1. x \in Nat /\ y \in Nat
    BY FramebufferConstants DEF Across, Down
  <2>2. CASE j = job
    <3>1. Covers(j, x, y) => r.x <= x /\ x < xx
      BY <1>3, <2>2 DEF Covers
    <3>2. Covers(j, x, y) => (Passed(j, x, y) <=> (y < yy \/ y = yy))
      BY <1>1, <2>2, <3>1 DEF Passed
    <3>3. Covers(j, x, y) => (Passed(j, x, y)' <=> y < yy + 1)
      <4>1. Covers(j, x, y) => ~(x < r.x)
        BY <1>1, <2>1, <3>1 DEF Fits
      <4> QED BY <1>1, <1>2, <2>2, <4>1 DEF Passed
    <3>4. Covers(j, x, y) => (Passed(j, x, y)' <=> Passed(j, x, y))
      BY <1>3, <2>1, <3>2, <3>3
    <3> QED BY <3>4 DEF Shows, Covers
  <2>3. CASE j # job
    BY <1>2, <2>3 DEF Shows, Covers, Passed
  <2> QED BY <2>2, <2>3
<1> QED BY <1>2, <1>4, PaintSame

\* A rectangle ends with its last row, so the next one starts with nothing new.
LEMMA PaintRect == LoopInv /\ PaintInv /\ NextRect => PaintInv'
<1> SUFFICES ASSUME LoopInv, PaintInv, NextRect PROVE PaintInv'
  OBVIOUS
<1> DEFINE r == kernel_main[job]
<1>1. /\ job \in 1 .. 3 /\ Fits(r) /\ yy \notin Rows(r) /\ yy \in r.y .. r.y + r.h
  BY AllFit DEF NextRect, LoopInv
<1>2. job' = job + 1 /\ fb' = fb
  BY DEF NextRect
<1>3. yy = r.y + r.h /\ yy \in Nat
  BY <1>1 DEF Fits, Rows
<1>4. job < 3 => xx' = kernel_main[job + 1].x /\ yy' = kernel_main[job + 1].y
  BY <1>1, AllFit DEF NextRect
<1>5. ASSUME NEW x \in Across, NEW y \in Down, NEW j \in 1 .. 3
      PROVE  Shows(j, x, y)' <=> Shows(j, x, y)
  <2>1. x \in Nat /\ y \in Nat
    BY FramebufferConstants DEF Across, Down
  <2>2. CASE j < job
    BY <1>1, <1>2, <2>2 DEF Shows, Covers, Passed
  <2>3. CASE j = job
    <3>1. Covers(j, x, y) => y < yy
      BY <1>3, <2>3 DEF Covers
    <3>2. Passed(j, x, y)'
      BY <1>1, <1>2, <2>3 DEF Passed
    <3>3. y < yy => Passed(j, x, y)
      BY <2>3 DEF Passed
    <3> QED BY <3>1, <3>2, <3>3 DEF Shows, Covers
  <2>4. CASE j = job + 1
    <3>1. job < 3 /\ Fits(kernel_main[j])
      BY <1>1, <2>4, AllFit
    <3>2. xx' = kernel_main[j].x /\ yy' = kernel_main[j].y
      BY <1>4, <2>4, <3>1
    <3>3. ~Passed(j, x, y)
      BY <1>1, <2>4 DEF Passed
    <3>4. Passed(j, x, y)' => y < kernel_main[j].y \/ (y = kernel_main[j].y /\ x < kernel_main[j].x)
      BY <1>1, <1>2, <2>4, <3>2 DEF Passed
    <3>5. Covers(j, x, y) => ~Passed(j, x, y)'
      BY <2>1, <3>1, <3>4 DEF Covers, Fits
    <3> QED BY <3>3, <3>5 DEF Shows, Covers
  <2>5. CASE j > job + 1
    BY <1>1, <1>2, <2>5 DEF Shows, Covers, Passed
  <2> QED BY <1>1, <2>2, <2>3, <2>4, <2>5
<1> QED BY <1>2, <1>5, PaintSame

\* Every step keeps what is on the screen in agreement with the loops.
LEMMA PaintStep == LoopInv /\ PaintInv /\ [Next]_vars => PaintInv'
<1> SUFFICES ASSUME LoopInv, PaintInv, [Next]_vars PROVE PaintInv'
  OBVIOUS
<1>1. CASE UNCHANGED vars
  <2>1. \A x \in Across, y \in Down : \A j \in 1 .. 3 : Shows(j, x, y)' <=> Shows(j, x, y)
    BY <1>1 DEF vars, Shows, Covers, Passed
  <2> QED BY <1>1, <2>1, PaintSame DEF vars
<1> QED BY <1>1, PaintDraw, PaintRow, PaintRect DEF Next

\* Every place of the buffer is a pixel of the screen.
LEMMA PlaceIsPixel ==
    ASSUME NEW i \in Index
    PROVE  \E x \in Across, y \in Down :
              x = i % fb_width /\ y = i \div fb_width /\ i = y * fb_width + x
<1>1. fb_width \in Nat /\ fb_height \in Nat /\ i \in Nat /\ i < fb_width * fb_height
  BY FramebufferConstants DEF Index
<1>2. fb_width > 0
  BY <1>1
<1>3. PICK q : q = i \div fb_width
  OBVIOUS
<1>4. PICK m : m = i % fb_width
  OBVIOUS
<1>5. q \in Int /\ m \in 0 .. fb_width - 1 /\ i = fb_width * q + m
  BY <1>1, <1>2, <1>3, <1>4, Z3
<1>6. q >= 0
  <2>1. SUFFICES ASSUME q <= -1 PROVE FALSE
    BY <1>5
  <2>2. fb_width * q <= fb_width * (-1)
    BY <1>1, <1>5, <2>1
  <2> QED BY <1>1, <1>5, <2>2
<1>7. q < fb_height
  <2>1. SUFFICES ASSUME fb_height <= q PROVE FALSE
    BY <1>1, <1>5
  <2>2. fb_height * fb_width <= q * fb_width
    BY <1>1, <1>5, <1>6, <2>1, ProductMono
  <2>3. fb_height * fb_width = fb_width * fb_height /\ q * fb_width = fb_width * q
        /\ fb_width * q \in Int /\ fb_width * fb_height \in Int
    BY <1>1, <1>5
  <2> QED BY <1>1, <1>5, <2>2, <2>3
<1>8. i = q * fb_width + m
  BY <1>1, <1>5
<1>9. m \in Across /\ q \in Down
  BY <1>1, <1>5, <1>6, <1>7 DEF Across, Down
<1> QED BY <1>3, <1>4, <1>8, <1>9, Zenon

\* The desktop, by the coordinates of its pixels.
Final(x, y) ==
    IF /\ x >= BUTTON_X /\ x < BUTTON_X + BUTTON_W
       /\ fb_height - y <= BUTTON_UP /\ fb_height - y > BUTTON_UP - BUTTON_H
    THEN ACCENT ELSE IF fb_height - y <= TASKBAR THEN PANEL_BG ELSE DARK_BG

\* The desktop's picture in the buffer is the one on the screen.
LEMMA DesktopPixel ==
    ASSUME NEW i \in Index PROVE Desktop[i] = Final(i % fb_width, i \div fb_width)
  BY DEF Desktop, Final

\* Which pixels the three rectangles cover.
LEMMA Coverage ==
    ASSUME NEW x \in Across, NEW y \in Down
    PROVE  /\ Covers(1, x, y)
           /\ Covers(2, x, y) <=> fb_height - y <= TASKBAR
           /\ Covers(3, x, y) <=> /\ x >= BUTTON_X /\ x < BUTTON_X + BUTTON_W
                                  /\ fb_height - y <= BUTTON_UP
                                  /\ fb_height - y > BUTTON_UP - BUTTON_H
<1>1. /\ x \in Nat /\ y \in Nat /\ x < fb_width /\ y < fb_height
      /\ fb_width \in Nat /\ fb_height \in Nat
  BY FramebufferConstants DEF Across, Down
<1>2. Covers(1, x, y)
  <2>1. /\ kernel_main[1].x = 0 /\ kernel_main[1].y = 0
        /\ kernel_main[1].w = fb_width /\ kernel_main[1].h = fb_height
    BY Rectangles
  <2> QED BY <1>1, <2>1 DEF Covers
<1>3. Covers(2, x, y) <=> fb_height - y <= TASKBAR
  <2>1. /\ kernel_main[2].x = 0 /\ kernel_main[2].y = fb_height - TASKBAR
        /\ kernel_main[2].w = fb_width /\ kernel_main[2].h = TASKBAR
    BY Rectangles
  <2>2. Covers(2, x, y) <=> /\ 0 <= x /\ x < 0 + fb_width
                            /\ fb_height - TASKBAR <= y /\ y < fb_height - TASKBAR + TASKBAR
    BY <2>1 DEF Covers
  <2> QED BY <1>1, <2>2, FramebufferConstants
<1>4. Covers(3, x, y) <=> /\ x >= BUTTON_X /\ x < BUTTON_X + BUTTON_W
                          /\ fb_height - y <= BUTTON_UP
                          /\ fb_height - y > BUTTON_UP - BUTTON_H
  <2>1. /\ kernel_main[3].x = BUTTON_X /\ kernel_main[3].y = fb_height - BUTTON_UP
        /\ kernel_main[3].w = BUTTON_W /\ kernel_main[3].h = BUTTON_H
    BY Rectangles
  <2>2. Covers(3, x, y) <=> /\ BUTTON_X <= x /\ x < BUTTON_X + BUTTON_W
                            /\ fb_height - BUTTON_UP <= y
                            /\ y < fb_height - BUTTON_UP + BUTTON_H
    BY <2>1 DEF Covers
  <2> QED BY <1>1, <2>2, FramebufferConstants
<1> QED BY <1>2, <1>3, <1>4

\* Once all three rectangles are drawn, the picture is the desktop.
LEMMA AllDrawn ==
    ASSUME LoopInv, PaintInv, job > Len(kernel_main) PROVE fb = Desktop
<1>1. job = 4
  BY AllFit DEF LoopInv
<1>2. ASSUME NEW x \in Across, NEW y \in Down PROVE Shade(x, y) = Final(x, y)
  <2>1. Passed(1, x, y) /\ Passed(2, x, y) /\ Passed(3, x, y)
    BY <1>1 DEF Passed
  <2> QED BY <2>1, Coverage DEF Shade, Shows, Final
<1>3. ASSUME NEW i \in Index PROVE fb[i] = Desktop[i]
  <2>1. PICK x \in Across, y \in Down :
           x = i % fb_width /\ y = i \div fb_width /\ i = y * fb_width + x
    BY PlaceIsPixel, Zenon
  <2>2. fb[i] = Final(x, y)
    <3>1. fb[y * fb_width + x] = Shade(x, y)
      BY Zenon DEF PaintInv
    <3> QED BY <1>2, <2>1, <3>1, Zenon
  <2> QED BY <2>1, <2>2, DesktopPixel, Zenon
<1> QED BY <1>3 DEF LoopInv, Desktop

(***************************************************************************)
(* kernel_main halts with the desktop on the screen, whatever the sizes of *)
(* framebuffer, taskbar and button: every pixel was drawn, in the colour   *)
(* of the topmost rectangle over it, and none was drawn in another's       *)
(* place.                                                                  *)
(***************************************************************************)
THEOREM DesktopIsComplete == Spec => []HaltsOnDesktop
<1>1. Init => LoopInv /\ PaintInv
  BY LoopStart, PaintStart
<1>2. LoopInv /\ PaintInv /\ [Next]_vars => LoopInv' /\ PaintInv'
  BY LoopStep, PaintStep
<1>3. LoopInv /\ PaintInv => HaltsOnDesktop
  BY AllDrawn DEF HaltsOnDesktop
<1> QED BY <1>1, <1>2, <1>3, PTL DEF Spec

=============================================================================
