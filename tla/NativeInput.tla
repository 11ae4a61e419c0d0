----------------------------- MODULE NativeInput ------------------------------
(***************************************************************************)
(* What the two input controllers of the Linux host make of one event of   *)
(* the browser: input.rs for the desktop portal of Wayland, x11.rs for     *)
(* XTEST.  The names of keys are those of KeyboardEvent.code; a name that  *)
(* is not in the domain of a table is not injected.  Pointer positions are *)
(* whole fractions of the picture, scroll distances whole pixels.          *)
(***************************************************************************)
EXTENDS Integers

CONSTANTS
  Distances,      (* scroll distances that the browser may report          *)
  Coordinates,    (* pointer positions that it may report                  *)
  Widths,         (* widths and heights that an X11 screen may have        *)
  WHOLE           (* the fraction of the picture that is all of it         *)

POINTER_X_SPAN == 1920
POINTER_Y_SPAN == 1080
MAX_RELATIVE_POINTER_DELTA == 320
MAX_SCROLL_DELTA == 120
MAX_SCROLL_STEPS == 3
SCROLL_STEP == 40
I16_MAX == 32767
U8_MAX == 255
U16_MAX == 65535

(* x11.rs refuses no width, and names it in 16 bits.                       *)
ASSUME MeasuresAssumption ==
  /\ Distances \subseteq Int
  /\ Coordinates \subseteq Int
  /\ Widths \subseteq 0 .. U16_MAX
  /\ WHOLE \in Nat \ {0}

Lesser(a, b) == IF a <= b THEN a ELSE b

Clamped(v, low, high) == IF v < low THEN low ELSE IF v > high THEN high ELSE v

Magnitude(v) == IF v < 0 THEN -v ELSE v

-----------------------------------------------------------------------------
(* Keys and buttons.                                                       *)

LinuxKeycode ==
  [KeyA |-> 30, KeyB |-> 48, KeyC |-> 46, KeyD |-> 32, KeyE |-> 18, KeyF |-> 33,
   KeyG |-> 34, KeyH |-> 35, KeyI |-> 23, KeyJ |-> 36, KeyK |-> 37, KeyL |-> 38,
   KeyM |-> 50, KeyN |-> 49, KeyO |-> 24, KeyP |-> 25, KeyQ |-> 16, KeyR |-> 19,
   KeyS |-> 31, KeyT |-> 20, KeyU |-> 22, KeyV |-> 47, KeyW |-> 17, KeyX |-> 45,
   KeyY |-> 21, KeyZ |-> 44,
   Digit0 |-> 11, Digit1 |-> 2, Digit2 |-> 3, Digit3 |-> 4, Digit4 |-> 5,
   Digit5 |-> 6, Digit6 |-> 7, Digit7 |-> 8, Digit8 |-> 9, Digit9 |-> 10,
   Enter |-> 28, Escape |-> 1, Backspace |-> 14, Tab |-> 15, Space |-> 57,
   ArrowUp |-> 103, ArrowDown |-> 108, ArrowLeft |-> 105, ArrowRight |-> 106,
   ShiftLeft |-> 42, ShiftRight |-> 54, ControlLeft |-> 29,
   ControlRight |-> 97, AltLeft |-> 56, AltRight |-> 100, MetaLeft |-> 125,
   MetaRight |-> 126, Delete |-> 111, Home |-> 102, End |-> 107,
   PageUp |-> 104, PageDown |-> 109]

X11Evdev ==
  [KeyA |-> 30, KeyB |-> 48, KeyC |-> 46, KeyD |-> 32, KeyE |-> 18, KeyF |-> 33,
   KeyG |-> 34, KeyH |-> 35, KeyI |-> 23, KeyJ |-> 36, KeyK |-> 37, KeyL |-> 38,
   KeyM |-> 50, KeyN |-> 49, KeyO |-> 24, KeyP |-> 25, KeyQ |-> 16, KeyR |-> 19,
   KeyS |-> 31, KeyT |-> 20, KeyU |-> 22, KeyV |-> 47, KeyW |-> 17, KeyX |-> 45,
   KeyY |-> 21, KeyZ |-> 44, Enter |-> 28, Escape |-> 1, Backspace |-> 14,
   Tab |-> 15, Space |-> 57, ArrowUp |-> 103, ArrowDown |-> 108,
   ArrowLeft |-> 105, ArrowRight |-> 106, ShiftLeft |-> 42, ShiftRight |-> 54,
   ControlLeft |-> 29, ControlRight |-> 97, AltLeft |-> 56, AltRight |-> 100,
   MetaLeft |-> 125, MetaRight |-> 126, Delete |-> 111, Home |-> 102,
   End |-> 107, PageUp |-> 104, PageDown |-> 109,
   Digit0 |-> 11, Digit1 |-> 2, Digit2 |-> 3, Digit3 |-> 4, Digit4 |-> 5,
   Digit5 |-> 6, Digit6 |-> 7, Digit7 |-> 8, Digit8 |-> 9, Digit9 |-> 10]

EvdevAsKeycode(evdev) == evdev

(* Core keycodes start eight above those of evdev; a code fits in a byte.  *)
CoreKeycode(evdev) == evdev + 8

X11Keycode ==
  [code \in {c \in DOMAIN X11Evdev : CoreKeycode(X11Evdev[c]) <= U8_MAX} |->
     CoreKeycode(X11Evdev[code])]

LinuxButton == [left |-> 272, right |-> 273, middle |-> 274]

X11Button == [left |-> 1, middle |-> 2, right |-> 3]

-----------------------------------------------------------------------------
(* The pointer.                                                            *)

(* PointerMapper of input.rs, along one axis that is "span" pixels long,   *)
(* positions in these pixels: how far the browser's pointer has moved from *)
(* the position "last" that the mapper keeps.  It keeps the new one whole, *)
(* whatever the desktop portal is told of the motion.                      *)
UnclampedDelta(last, position, span) == position - last

Delta(last, position, span) == Clamped(position, 0, span) - last

(* What the desktop portal is told of it.                                  *)
RelativeMotion(last, position, span) ==
  Clamped(Delta(last, position, span),
          -MAX_RELATIVE_POINTER_DELTA, MAX_RELATIVE_POINTER_DELTA)

UnclampedPixel(part, whole, width) == (part * width) \div whole

(* move_pointer of x11.rs: the pixel of part/whole on a screen of a width, *)
(* cut off to a whole number that saturates at 16 bits.                    *)
Pixel(part, whole, width) ==
  Lesser((Clamped(part, 0, whole) * (IF width = 0 THEN 0 ELSE width - 1)) \div whole,
         I16_MAX)

-----------------------------------------------------------------------------
(* The wheel.                                                              *)

(* What the desktop portal is told of one axis.                            *)
Scrolled(delta) == Clamped(delta, -MAX_SCROLL_DELTA, MAX_SCROLL_DELTA)

StepsRoundedDown(delta) ==
  Lesser(Magnitude(delta) \div SCROLL_STEP, MAX_SCROLL_STEPS)

(* Clicks of an X11 wheel button for one axis.                             *)
Steps(delta) ==
  Lesser((Magnitude(delta) + SCROLL_STEP - 1) \div SCROLL_STEP, MAX_SCROLL_STEPS)

(* The buttons that click, up and left for what is negative.               *)
WheelButton(axis, delta) ==
  IF axis = "y" THEN IF delta < 0 THEN 4 ELSE 5
                ELSE IF delta < 0 THEN 6 ELSE 7

-----------------------------------------------------------------------------
(* Properties.                                                             *)

(* The two hand-written tables name the same keys and buttons, the codes   *)
(* of one are those of the other in the numbering of the core protocol,    *)
(* and no two keys share a code: x11.rs keeps what it holds down by code,  *)
(* so that letting go of one key would let go of the other.  Wheel buttons *)
(* are none of those that can be held.                                     *)
TablesAgree ==
  /\ DOMAIN X11Keycode = DOMAIN LinuxKeycode
  /\ DOMAIN X11Button = DOMAIN LinuxButton
  /\ \A c \in DOMAIN LinuxKeycode : X11Keycode[c] = LinuxKeycode[c] + 8
  /\ \A c, d \in DOMAIN X11Keycode : X11Keycode[c] = X11Keycode[d] => c = d
  /\ \A b \in DOMAIN X11Button, axis \in {"x", "y"}, delta \in {-1, 1} :
       X11Button[b] # WheelButton(axis, delta)

(* Whatever distance the browser reports, both controllers scroll the same *)
(* bounded way: X11 clicks once for each started step of what the desktop  *)
(* portal is told, and not at all when that is nothing, with the button of *)
(* the same direction: 4 and 6 are up and left.                            *)
ScrollsAlike(delta) ==
  /\ Scrolled(delta) < 0 <=> WheelButton("y", delta) = 4
  /\ Scrolled(delta) < 0 <=> WheelButton("x", delta) = 6
  /\ Steps(delta) = (Magnitude(Scrolled(delta)) + SCROLL_STEP - 1) \div SCROLL_STEP
  /\ Steps(delta) = 0 <=> delta = 0

(* What a motion is longer than the limit: the pointer does not make it up *)
(* later.                                                                  *)
Excess(asked) ==
  IF Magnitude(asked) > MAX_RELATIVE_POINTER_DELTA
  THEN Magnitude(asked) - MAX_RELATIVE_POINTER_DELTA ELSE 0

(* The pointer of the desktop is wherever the motions so far have led it.  *)
(* One more takes it the browser's way, at most the limit far, and leaves  *)
(* it as far from the browser's pointer as it was, but for what is cut off *)
(* a longer motion.  That is: only cuts add to the distance between the    *)
(* two, each no more than itself.                                          *)
KeepsPace(pointer, last, position, span) ==
  LET asked == Delta(last, position, span)
      told == RelativeMotion(last, position, span)
      before == last - pointer
      after == Clamped(position, 0, span) - (pointer + told)
  IN /\ Magnitude(told) <= MAX_RELATIVE_POINTER_DELTA
     /\ IF asked >= 0 THEN 0 <= told /\ told <= asked ELSE asked <= told /\ told < 0
     /\ Magnitude(after - before) = Excess(asked)
     /\ Magnitude(after) <= Magnitude(before) + Excess(asked)

(* An absolute position is a pixel of the screen, whatever the fraction.   *)
PixelOnScreen(part, whole, width) ==
  Pixel(part, whole, width) \in 0 .. (IF width = 0 THEN 0 ELSE width - 1)
=============================================================================
