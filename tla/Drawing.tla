------------------------------- MODULE Drawing -------------------------------
(***************************************************************************)
(* What the drawing functions write (FrameBuffer.cpp): sets of pixels       *)
(* <<x, y>>, which drawPixel turns into offsets without any check.          *)
(***************************************************************************)
EXTENDS Integers

FONT_WIDTH == 8
FONT_HEIGHT == 8

\* The frame buffer FBInit asks for, in pixels; 200 lines more than are shown.
Screen == [width |-> 1920, height |-> 1080 + 200]

\* drawPixel: a pixel of 4 bytes; the offset in pixels when a line has no padding.
Offset(pixel) == pixel[2] * Screen.width + pixel[1]

\* The loop of drawLine, from any x, y and p on: the pixels it draws.
LineLoop(x2, dx, dy) ==
    LET loop[s \in Int \X Int \X Int] ==
            LET x == s[1]
                y == s[2]
                p == s[3]
            IN  IF x >= x2 THEN {}
                ELSE {<<x, y>>} \cup loop[IF p >= 0 THEN <<x + 1, y + 1, p + 2 * dy - 2 * dx>>
                                                    ELSE <<x + 1, y, p + 2 * dy>>]
    IN  loop

drawLine(x1, y1, x2, y2) ==
    LET dx == x2 - x1
        dy == y2 - y1
    IN  LineLoop(x2, dx, dy)[<<x1, y1, 2 * dy - dx>>]

\* One turn of drawCircle: four lines when it fills, and eight pixels.
Turn(x0, y0, x, y, fill) ==
    (IF fill
     THEN drawLine(x0 - y, y0 + x, x0 + y, y0 + x) \cup drawLine(x0 - x, y0 + y, x0 + x, y0 + y)
          \cup drawLine(x0 - x, y0 - y, x0 + x, y0 - y) \cup drawLine(x0 - y, y0 - x, x0 + y, y0 - x)
     ELSE {})
    \cup ({x0 - y, x0 + y} \X {y0 - x, y0 + x}) \cup ({x0 - x, x0 + x} \X {y0 - y, y0 + y})

\* x, y and err of drawCircle after a turn.
NextTurn(x, y, err) ==
    LET y1 == IF err <= 0 THEN y + 1 ELSE y
        err1 == IF err <= 0 THEN err + 2 * y1 + 1 ELSE err
        x1 == IF err1 > 0 THEN x - 1 ELSE x
    IN  <<x1, y1, IF err1 > 0 THEN err1 - (2 * x1 + 1) ELSE err1>>

\* The loop of drawCircle, from any x, y and err on: the pixels it draws.
CircleLoop(x0, y0, fill) ==
    LET loop[s \in Int \X Int \X Int] ==
            LET x == s[1]
                y == s[2]
            IN  IF x < y THEN {}
                ELSE Turn(x0, y0, x, y, fill) \cup loop[NextTurn(x, y, s[3])]
    IN  loop

drawCircle(x0, y0, radius, fill) == CircleLoop(x0, y0, fill)[<<radius, 0, 0>>]

drawChar(x, y) == (x .. x + FONT_WIDTH - 1) \X (y .. y + FONT_HEIGHT - 1)

\* The labels FBInit draws: six characters for each of four cores.
Labels == UNION {drawChar(860 + c * 50 + k * FONT_WIDTH, 0) : c \in 0 .. 3, k \in 0 .. 5}

\* Mutant: the lines left for the labels are forgotten.
BugCircleAt(hashX, hashY, hashR) ==
    [x |-> hashX % 1920, y |-> hashY % 1080, radius |-> (hashR % 10) + 3]

\* The circle kernelTask makes of three hash values.
CircleAt(hashX, hashY, hashR) ==
    [x |-> hashX % 1920, y |-> (hashY % 1080) + 32, radius |-> (hashR % 10) + 3]

=============================================================================
