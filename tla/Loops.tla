------------------------------- MODULE Loops -------------------------------
(***************************************************************************)
(* Loops that move forward over the positions of a text and append to a     *)
(* result, such as the one of percent_decode in src/http/request.rs, and    *)
(* the iterator chains that come down to one.                               *)
(***************************************************************************)
EXTENDS Integers, Sequences

(* What a loop appends from each position on: at n it appends parts[n], and  *)
(* it goes on at next[n].                                                    *)
From(parts, next) ==
  LET from[n \in 1..(Len(parts) + 1)] ==
        IF n > Len(parts) THEN <<>> ELSE parts[n] \o from[next[n]]
  IN  from

Walk(parts, next) == From(parts, next)[1]

(* One after the other.                                                      *)
Joined(parts) == Walk(parts, [n \in DOMAIN parts |-> n + 1])

(* filter, keeping what is not x.                                            *)
Without(s, x) == Joined([n \in DOMAIN s |-> IF s[n] = x THEN <<>> ELSE <<s[n]>>])
=============================================================================
