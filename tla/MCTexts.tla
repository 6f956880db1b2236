------------------------------ MODULE MCTexts ------------------------------
(* The texts, and the ways to cut them, that the runs of both parsers use. *)
EXTENDS Registers, SexpGrammar

(* Every word of n characters of an alphabet. *)
Words(n, alphabet) == [1..n -> alphabet]

EveryCut(s) == 2..(Len(s) + 1)
NoCut(s) == {Len(s) + 1}

(* Lists and atoms; quoting and strings; comments. *)
ListTexts == Words(6, {"lp", "rp", "sp", "a"})
QuoteTexts == Words(5, {"lp", "rp", "sp", "a", "dq", "sq"})
CommentTexts == Words(5, {"lp", "rp", "semi", "nl", "a"})
(* Texts with escapes, outside and inside a list, but not what the parser   *)
(* does not handle: a backslash right before white space leaves esc set, a  *)
(* chunk that ends right after an escaped character is overrun.             *)
Closed(s) == \A i \in 1..(Len(s) - 1) : s[i] = "bs" => s[i + 1] # "sp"
EscapeWords == Words(4, {"lp", "rp", "bs", "a", "dq", "sq"})
EscapeTexts ==
  {s \in {w \o <<"sp">> : w \in EscapeWords}
        \cup {<<"lp">> \o w \o <<"rp", "sp">> : w \in EscapeWords} : Closed(s)}
SyntaxTexts == ListTexts \cup QuoteTexts \cup CommentTexts \cup EscapeTexts
CutOutsideEscape(s) ==
  {k \in EveryCut(s) : ~(k > 2 /\ s[k - 2] = "bs" /\ s[k - 1] \in Escapable)}
=============================================================================
