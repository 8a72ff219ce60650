---------------------------- MODULE Framebuffer ----------------------------
(***************************************************************************)
(* The desktop of kernel/kernel.c: kernel_main() paints three rectangles,  *)
(* one over the other, pixel by pixel into the linear framebuffer, and     *)
(* halts.  Sizes are uint32_t, draw_rect()'s coordinates are int, and      *)
(* put_pixel() converts them back: each conversion is kept.                *)
(***************************************************************************)
EXTENDS Integers, Sequences

CONSTANTS
    fb_width, fb_height,                    \* 800 and 600
    TASKBAR,                                \* height of the taskbar, 40
    BUTTON_X, BUTTON_UP, BUTTON_W, BUTTON_H,\* 10, 35, 80, 30
    WORD                                    \* 2^32

ASSUME FramebufferConstants ==
    /\ WORD \in Nat \ {0} /\ fb_width \in Nat /\ fb_height \in Nat
    /\ TASKBAR \in Nat /\ BUTTON_X \in Nat /\ BUTTON_UP \in Nat
    /\ BUTTON_W \in Nat /\ BUTTON_H \in Nat
    /\ fb_width * fb_height < WORD \div 2
    /\ fb_width < WORD \div 2 /\ fb_height < WORD \div 2
    /\ TASKBAR <= fb_height /\ BUTTON_UP <= TASKBAR
    /\ BUTTON_X + BUTTON_W <= fb_width /\ BUTTON_H <= BUTTON_UP

VARIABLES
    fb,                 \* the pixels; 0 before anything is drawn
    job,                \* the rectangle being drawn; past the last, the halt
    xx, yy,             \* draw_rect's loop variables
    stray               \* history: a pixel was stored outside the framebuffer

vars == <<fb, job, xx, yy, stray>>

DARK_BG  == 1
PANEL_BG == 2
ACCENT   == 3

Index == 0 .. fb_width * fb_height - 1

\* uint32_t to int and back.
ToInt(u)      == IF u >= WORD \div 2 THEN u - WORD ELSE u
ToUnsigned(i) == i % WORD

Rect(x, y, w, h, color) ==
    [x |-> ToInt(ToUnsigned(x)), y |-> ToInt(ToUnsigned(y)),
     w |-> ToInt(w), h |-> ToInt(h), color |-> color]

ButtonFirst ==
    << Rect(0, 0, fb_width, fb_height, DARK_BG),
       Rect(BUTTON_X, fb_height - BUTTON_UP, BUTTON_W, BUTTON_H, ACCENT),
       Rect(0, fb_height - TASKBAR, fb_width, TASKBAR, PANEL_BG) >>

\* The three calls of kernel_main: background, taskbar, start button.
kernel_main ==
    << Rect(0, 0, fb_width, fb_height, DARK_BG),
       Rect(0, fb_height - TASKBAR, fb_width, TASKBAR, PANEL_BG),
       Rect(BUTTON_X, fb_height - BUTTON_UP, BUTTON_W, BUTTON_H, ACCENT) >>

Init ==
    /\ fb = [i \in Index |-> 0]
    /\ job = 1 /\ xx = kernel_main[1].x /\ yy = kernel_main[1].y
    /\ stray = FALSE

\* fb[y * fb_width + x] = color
put_pixel(x, y, color) ==
    LET at == ToUnsigned(ToUnsigned(y) * fb_width + ToUnsigned(x)) IN
    /\ fb' = [fb EXCEPT ![at] = color]
    /\ stray' = (stray \/ at \notin Index)

StopsARowEarly(r) == r.y .. r.y + r.h - 2
Rows(r)    == r.y .. r.y + r.h - 1
OneColumnMore(r) == r.x .. r.x + r.w
Columns(r) == r.x .. r.x + r.w - 1

\* The body of draw_rect's inner loop.
DrawPixel ==
    LET r == kernel_main[job] IN
    /\ job <= Len(kernel_main) /\ yy \in Rows(r) /\ xx \in Columns(r)
    /\ put_pixel(xx, yy, r.color)
    /\ xx' = xx + 1
    /\ UNCHANGED <<job, yy>>

\* The inner loop ends: the next row.
NextRow ==
    LET r == kernel_main[job] IN
    /\ job <= Len(kernel_main) /\ yy \in Rows(r) /\ xx \notin Columns(r)
    /\ yy' = yy + 1 /\ xx' = r.x
    /\ UNCHANGED <<fb, job, stray>>

\* draw_rect returns to kernel_main, which draws the next one or halts.
NextRect ==
    /\ job <= Len(kernel_main) /\ yy \notin Rows(kernel_main[job])
    /\ job' = job + 1
    /\ IF job < Len(kernel_main)
       THEN xx' = kernel_main[job + 1].x /\ yy' = kernel_main[job + 1].y
       ELSE UNCHANGED <<xx, yy>>
    /\ UNCHANGED <<fb, stray>>

Next == DrawPixel \/ NextRow \/ NextRect

\* No interrupt is enabled: the processor runs kernel_main to its end.
Spec == Init /\ [][Next]_vars /\ WF_vars(Next)

-----------------------------------------------------------------------------
TypeOK ==
    /\ fb \in [Index -> 0 .. ACCENT]
    /\ job \in 1 .. Len(kernel_main) + 1
    /\ xx \in 0 .. fb_width /\ yy \in 0 .. fb_height
    /\ stray \in BOOLEAN

(***************************************************************************)
(* No pixel is stored outside a framebuffer that has room for taskbar and  *)
(* button: neither fb_height - 40 nor the sums in draw_rect wrap, and the  *)
(* last pixel of the last row is the last of the buffer.                   *)
(***************************************************************************)
StoresInFramebuffer == ~stray

(***************************************************************************)
(* kernel_main ends with the desktop on the screen and leaves it there:    *)
(* the start button lies inside the taskbar, the taskbar on the lower edge *)
(* of the background, and no pixel is left undrawn or drawn over.          *)
(***************************************************************************)
Desktop ==
    [i \in Index |->
        LET x == i % fb_width
            up == fb_height - (i \div fb_width)     \* 1 for the lowest row
        IN  CASE /\ x >= BUTTON_X /\ x < BUTTON_X + BUTTON_W
                 /\ up <= BUTTON_UP /\ up > BUTTON_UP - BUTTON_H -> ACCENT
              [] OTHER -> IF up <= TASKBAR THEN PANEL_BG ELSE DARK_BG]

DesktopAppears == <>[](job > Len(kernel_main) /\ fb = Desktop)

(***************************************************************************)
(* Once kernel_main has drawn its last rectangle, and is about to halt for *)
(* good, every pixel of the framebuffer is the desktop's.                  *)
(***************************************************************************)
HaltsOnDesktop == job > Len(kernel_main) => fb = Desktop

=============================================================================
