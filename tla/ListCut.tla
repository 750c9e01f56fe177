------------------------------ MODULE ListCut -------------------------------
(* Taking one element out of a slice or of a container/list, as the message *)
(* feed and the answer cache do.                                            *)
EXTENDS Integers, Sequences

\* The list without its i-th element.
CutAt(s, i) == SubSeq(s, 1, i - 1) \o SubSeq(s, i + 1, Len(s))
=============================================================================
