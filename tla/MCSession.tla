------------------------------- MODULE MCSession -------------------------------
(* A modifier, a character of the second level, one without a keysym, a move, and *)
(* a mouse PDU that says nothing.                                                *)
EXTENDS Session

Keyboard(callback, code, flags) ==
  [callback |-> callback, flags |-> flags, rotation |-> 0, code |-> code]
Mouse(callback, flags) ==
  [callback |-> callback, flags |-> flags, rotation |-> 0, code |-> NoKey]

MCPdus ==
  {Keyboard("keyboard", "ctrl", f) : f \in {{}, {"release"}}} \cup
  {Keyboard("unicode", "upper", f) : f \in {{}, {"release"}}} \cup
  {Keyboard("unicode", "unknown", {}), Mouse("extended", {}), Mouse("extended", {"move"})}

MCKeymap ==
  <<[code |-> "ctrl", levels |-> <<{}>>],
    [code |-> "a", levels |-> <<{"lower"}, {"upper"}>>],
    [code |-> "last", levels |-> <<{"upper"}>>]>>
=============================================================================
