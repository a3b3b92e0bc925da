------------------------------- MODULE Redaction -------------------------------
(***************************************************************************)
(* Removal of secret values from text that fnox passes on.                 *)
(*                                                                         *)
(* Text is a sequence of characters.  redact.rs looks for a set of         *)
(* patterns, leftmost and longest first, in a whole text (MCP server) or   *)
(* in a stream that arrives in chunks (fnox exec).  The credential proxy   *)
(* has its own search, proxy.rs:304-347 and 1612-1638: an ordered list of  *)
(* values, some of which are also found when the characters are percent-   *)
(* or plus-encoded; there a character is a record [c, esc].                *)
(***************************************************************************)
EXTENDS Naturals, Sequences, FiniteSets, FiniteSetsExt

CONSTANTS MARKER,             \* the character that stands for "[REDACTED]"
          Whitespace,         \* characters that do not count at the ends of a value
          MIN_REDACT_LENGTH   \* shorter values are left alone

(* p occurs in s at position i. *)
At(s, i, p) == i + Len(p) - 1 <= Len(s) /\ SubSeq(s, i, i + Len(p) - 1) = p

Occurs(s, p) == \E i \in 1..Len(s) : At(s, i, p)

(* str::trim. *)
trim(v) ==
  LET ink == {k \in 1..Len(v) : v[k] \notin Whitespace}
  IN  IF ink = {} THEN <<>> ELSE SubSeq(v, Min(ink), Max(ink))

redactable(v) == Len(trim(v)) >= MIN_REDACT_LENGTH

(* Redactor::new: the values worth a search, without the white space around them. *)
Patterns(values) == {trim(v) : v \in {w \in values : redactable(w)}}

(* The longest pattern that occurs at i: the automaton's leftmost-longest match. *)
Longest(ps, s, i) ==
  LET found == {p \in ps : At(s, i, p)}
  IN  CHOOSE p \in found : \A q \in found : Len(q) <= Len(p)

Found(ps, s, i) == \E p \in ps : At(s, i, p)

(* One pass over s from its start; it stops at the first place beyond end. *)
Pass(ps, s, end) ==
  LET walk[i \in 1..Len(s) + 1] ==
        IF i > end THEN [out |-> <<>>, pos |-> i]
        ELSE IF Found(ps, s, i)
             THEN LET rest == walk[i + Len(Longest(ps, s, i))]
                  IN  [rest EXCEPT !.out = <<MARKER>> \o @]
             ELSE LET rest == walk[i + 1] IN [rest EXCEPT !.out = <<s[i]>> \o @]
  IN  walk[1]

redact_all(ps, s) == Pass(ps, s, Len(s)).out

(* Mutant of SafeEnd: a stream that holds nothing back. *)
SafeEndNone(ps, s) == Len(s)

(* The characters at the end of s that may be the start of a value: the first *)
(* suffix, no longer than the longest pattern less one, that begins a pattern. *)
SafeEnd(ps, s) ==
  LET longest == Max({Len(p) : p \in ps})
      from == IF Len(s) > longest - 1 THEN Len(s) - (longest - 1) ELSE 0
      begins == {i \in from..Len(s) - 1 : \E p \in ps :
                   Len(p) >= Len(s) - i /\ At(p, 1, SubSeq(s, i + 1, Len(s)))}
  IN  IF begins = {} THEN Len(s) ELSE Min(begins)

(* Stream::push: what of a chunk can be passed on, and what is held back. *)
Push(ps, pending, chunk) ==
  LET s == pending \o chunk
      pass == Pass(ps, s, SafeEnd(ps, s))
  IN  [out |-> pass.out, pending |-> SubSeq(s, pass.pos, Len(s))]

(* Stream::finish. *)
Finish(ps, pending) == redact_all(ps, pending)

--------------------------------------------------------------------------------
(* The proxy's redactions: r is [value, placeholder, lenient]. *)

match_lenient(v, s, i) ==
  /\ i + Len(v) - 1 <= Len(s)
  /\ \A k \in 1..Len(v) : s[i + k - 1].c = v[k]

match_len(r, s, i) ==
  /\ match_lenient(r.value, s, i)
  /\ r.lenient \/ \A k \in i..i + Len(r.value) - 1 : ~s[k].esc

(* The characters of a placeholder as text of a response. *)
Raw(s) == [i \in DOMAIN s |-> [c |-> s[i], esc |-> FALSE]]

redact_bytes(rs, s) ==
  LET walk[i \in 1..Len(s) + 1] ==
        IF i > Len(s) THEN <<>>
        ELSE LET hits == {k \in DOMAIN rs : match_len(rs[k], s, i)}
             IN  IF hits = {} THEN <<s[i]>> \o walk[i + 1]
                 ELSE LET r == rs[Min(hits)]
                      IN  Raw(r.placeholder) \o walk[i + Len(r.value)]
  IN  walk[1]
================================================================================
