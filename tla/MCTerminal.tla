----------------------------- MODULE MCTerminal ------------------------------
(* Model checking of Terminal: a key of each kind.                          *)
EXTENDS Terminal

MCKeys == {"a", "enter", "back", "esc", "lshift", "rshift", "ctrl", "rctrl", "caps"}
MCkeytable ==
  [k \in MCKeys |->
     CASE k = "lshift" -> "KT_LSHIFT" [] k = "rshift" -> "KT_RSHIFT"
       [] k \in {"ctrl", "rctrl"} -> "KT_LCTRL"    \* one scan code, two keys
       [] k = "caps" -> "KT_NONE" [] OTHER -> "KT_NORMAL"]
MCkbdus ==
  [k \in MCKeys |->
     CASE k = "a" -> "a" [] k = "enter" -> "newline" [] k = "back" -> "backspace"
       [] OTHER -> "other"]
MCshift_kbdus == [MCkbdus EXCEPT !["a"] = "A"]
=============================================================================
