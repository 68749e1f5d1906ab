------------------------------- MODULE MCKeys -------------------------------
EXTENDS Keys

\* A short term, the two sides of key_sprint's buffer, the two sides of the
\* signed char, and the two sides of its wrap.
MCTerm == {"a", "b", "long", "len126", "len127", "len255", "len260"}
MCLength(t) ==
    CASE t \in {"a", "b"} -> 4
      [] t = "long" -> 94
      [] t = "len126" -> 126
      [] t = "len127" -> 127
      [] t = "len255" -> 255
      [] t = "len260" -> 260
=============================================================================
