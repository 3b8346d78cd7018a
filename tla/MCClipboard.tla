----------------------------- MODULE MCClipboard -----------------------------
EXTENDS Clipboard
\* A client with applications that offer their texts in both formats or in the
\* plain one only, and one that copies pictures.
Rich == {<<Other, Text, Unicode>>, <<Text>>, <<Other>>}
=============================================================================
