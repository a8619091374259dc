------------------------------ MODULE Segments ------------------------------
(***************************************************************************)
(* web/lib/segments.ts: the title or the lead of an article cut at the     *)
(* ends of the reported spans.  Offsets are Python's: they count from 0    *)
(* and the end is exclusive.                                               *)
(***************************************************************************)
EXTENDS Integers, Sequences

\* An offset brought into a text of n characters.
Clamp(n, i) == IF i < 0 THEN 0 ELSE IF i > n THEN n ELSE i

Boundaries(n, spans) ==
  {0, n} \cup UNION {{Clamp(n, spans[k].start), Clamp(n, spans[k].end)} :
                       k \in {k \in DOMAIN spans : spans[k].start < spans[k].end}}

\* The spans that cover the piece [from, to).
MarksOf(spans, from, to) ==
  {k \in DOMAIN spans : /\ spans[k].start <= from /\ to <= spans[k].end
                        /\ spans[k].start < spans[k].end}

\* Neighbouring boundaries.
Cuts(n, spans) ==
  {c \in Boundaries(n, spans) \X Boundaries(n, spans) :
     c[1] < c[2] /\ ~\E z \in Boundaries(n, spans) : c[1] < z /\ z < c[2]}

\* The pieces between them.  Their order on the page is that of their offsets.
Pieces(n, spans) ==
  {[from |-> c[1], to |-> c[2], marks |-> MarksOf(spans, c[1], c[2])] : c \in Cuts(n, spans)}

=============================================================================
