----------------------------- MODULE InputHandler -----------------------------
(***************************************************************************)
(* src/InputHandler.cpp: what event, if any, is made of the client's input *)
(* PDU.  A PDU is the callback it arrives at, the set of its flags, the    *)
(* low byte of a mouse PDU's flags (the wheel's rotation), and the key.    *)
(* Positions only matter to the sessions, which scale them.                *)
(***************************************************************************)
EXTENDS Integers

CONSTANTS
  NoKey,      \* no button, or a character without a keysym
  Keysyms     \* the characters that have a keysym

NoEvent == [type |-> "none"]

\* The callback returns false, which FreeRDP takes for a failure of the connection.
Failure == [type |-> "failure"]

Event(type, device, code, angle) ==
  [type |-> type, device |-> device, code |-> code, angle |-> angle]

\* WheelRotationMask takes nine bits: the rotation and PTR_FLAGS_WHEEL_NEGATIVE
\* above it, in two's complement.  Qt counts the other way round.
Mask == 511
\* Mutant: the complement of the rotation, without the one to add.
OnesComplement(flags, rotation) ==
  IF "negative" \in flags THEN Mask - (rotation + 256) ELSE -rotation
Angle(flags, rotation) ==
  IF "negative" \in flags THEN (Mask - (rotation + 256)) + 1 ELSE -rotation

Button(flags) ==
  IF "button1" \in flags THEN "left"
  ELSE IF "button2" \in flags THEN "right"
  ELSE IF "button3" \in flags THEN "middle" ELSE NoKey

\* PTR_FLAGS_WHEEL_NEGATIVE alone makes a wheel event too: a horizontal wheel
\* turned to the left is taken for the vertical one.
mouseEvent(flags, rotation) ==
  IF flags \cap {"wheel", "negative"} # {}
    THEN Event("wheel", "wheel", NoKey, Angle(flags, rotation))
    ELSE Event(IF "down" \in flags THEN "press"
               ELSE IF "move" \in flags THEN "move" ELSE "release",
               "button", Button(flags), 0)

extendedMouseEvent(flags) ==
  LET type == IF "down" \in flags THEN "press" ELSE "release"
  IN IF "move" \in flags THEN mouseEvent({"move"}, 0)
     ELSE IF "xbutton1" \in flags THEN Event(type, "button", "back", 0)
     ELSE IF "xbutton2" \in flags THEN Event(type, "button", "forward", 0)
     ELSE Failure

KeyType(flags) == IF "release" \in flags THEN "release" ELSE "press"

keyboardEvent(code, flags) == Event(KeyType(flags), "scancode", code, 0)

unicodeKeyboardEvent(code, flags) ==
  IF code \in Keysyms THEN Event(KeyType(flags), "keysym", code, 0) ELSE NoEvent

\* The event, if any, of a PDU of a client that has been elected to control.
EventOf(pdu) ==
  CASE pdu.callback = "mouse" -> mouseEvent(pdu.flags, pdu.rotation)
    [] pdu.callback = "extended" -> extendedMouseEvent(pdu.flags)
    [] pdu.callback = "keyboard" -> keyboardEvent(pdu.code, pdu.flags)
    [] pdu.callback = "unicode" -> unicodeKeyboardEvent(pdu.code, pdu.flags)
=============================================================================
