----------------------------- MODULE SexpGrammar -----------------------------
(***************************************************************************)
(* What the expressions of a text are, by recursive descent over the whole *)
(* text at once and with no states, no chunks and no buffers: the          *)
(* reference the parser of Parser.tla is checked against.  It gives the    *)
(* expressions that are complete, in order, up to the end of the text or   *)
(* to a parenthesis that closes nothing.                                   *)
(***************************************************************************)
EXTENDS Integers, Sequences, FiniteSets, FiniteSetsExt, SequencesExt

LOCAL Blank == {"sp", "nl"}
LOCAL Special == {"dq", "lp", "rp", "sq", "bs"}
LOCAL Plain == {"semi", "bs", "hash", "b", "0", "1", "2", "-", "a"}

ListTree(kids) == [ty |-> "LIST", aty |-> "NONE", val |-> << >>, kids |-> kids]
AtomTree(aty, val) == [ty |-> "VALUE", aty |-> aty, val |-> val, kids |-> << >>]

(* The first position from i on that satisfies P, 0 if none does. *)
First(s, i, P(_)) ==
  LET found == {j \in i..Len(s) : P(j)} IN IF found = {} THEN 0 ELSE Min(found)

(* A comment runs from a semicolon to the end of its line. *)
RECURSIVE Skip(_, _)
Skip(s, i) ==
  IF i > Len(s) THEN i
  ELSE IF s[i] \in Blank THEN Skip(s, i + 1)
  ELSE IF s[i] # "semi" THEN i
  ELSE LET nl == First(s, i, LAMBDA j : s[j] = "nl")
       IN  IF nl = 0 THEN Len(s) + 1 ELSE Skip(s, nl + 1)

(* Character j of a token that starts at i is escaped when an odd number   *)
(* of backslashes stands right before it.                                  *)
Escaped(s, i, j) ==
  LET run == {k \in i..(j - 1) : \A m \in k..(j - 1) : s[m] = "bs"}
  IN  Cardinality(run) % 2 = 1

(* The characters i..j without the backslashes that escape one of them. *)
Unescaped(s, i, j) ==
  LET kept == {k \in i..j : ~(/\ s[k] = "bs" /\ ~Escaped(s, i, k)
                              /\ k < j /\ s[k + 1] \in Special)}
  IN  [n \in 1..Cardinality(kept) |->
         s[CHOOSE k \in kept : Cardinality({m \in kept : m <= k}) = n]]

(* The end of a bare atom, of a string opened before i, of a quoted list.  *)
AtomEnd(s, i, from) ==
  First(s, from, LAMBDA j : /\ s[j] \notin Plain
                            /\ ~(s[j] \in Special /\ Escaped(s, i, j)))
StringEnd(s, i) == First(s, i, LAMBDA j : s[j] = "dq" /\ ~Escaped(s, i, j))

(* In a quoted list a character is taken literally after any backslash and *)
(* a parenthesis inside a string does not count.                           *)
QuotedEnd(s, i) ==
  LET bare(j) == j = i \/ s[j - 1] # "bs"
      quotes(j) == Cardinality({k \in i..j : s[k] = "dq" /\ bare(k)})
      paren(k, c) == s[k] = c /\ bare(k) /\ quotes(k) % 2 = 0
      count(j, c) == Cardinality({k \in i..j : paren(k, c)})
  IN  First(s, i, LAMBDA j : paren(j, "rp") /\ count(j, "lp") = count(j, "rp"))

Item1(tree, next) == [trees |-> <<tree>>, next |-> next, bad |-> FALSE]
Incomplete == [trees |-> << >>, next |-> 0, bad |-> FALSE]

(* An atom #b#n#data is n bytes of data, whatever they are. *)
LOCAL DigitOf(c) == IF c = "0" THEN 0 ELSE IF c = "1" THEN 1 ELSE 2
IsBinary(s, i) == i + 2 <= Len(s) /\ SubSeq(s, i, i + 2) = <<"hash", "b", "hash">>
BinaryItem(s, i) ==
  LET h == First(s, i + 3, LAMBDA j : s[j] = "hash")
      n == FoldLeft(LAMBDA acc, c : 10 * acc + DigitOf(c), 0, SubSeq(s, i + 3, h - 1))
      last == IF n = 0 THEN h + 1 ELSE h + n
  IN  IF h = 0 THEN Incomplete
      ELSE IF last > Len(s) THEN Incomplete
      ELSE Item1(AtomTree("BINARY", SubSeq(s, h + 1, h + n)), h + n + 1)

RECURSIVE Items(_, _, _, _)
(* The item at i of a text in which binary says whether #b# is special. *)
Item(s, i, binary) ==
  LET quote == s[i] = "sq"
      j == IF quote THEN i + 1 ELSE i
  IN  IF j > Len(s) THEN Incomplete
      ELSE IF s[j] = "lp" /\ ~quote
      THEN LET sub == Items(s, j + 1, TRUE, binary)
           IN  [sub EXCEPT !.trees = IF sub.next = 0 THEN << >> ELSE <<ListTree(@)>>]
      ELSE IF s[j] = "lp"
      THEN LET e == QuotedEnd(s, j)
           IN  IF e = 0 THEN Incomplete
               ELSE Item1(AtomTree("SQUOTE", SubSeq(s, j, e)), e + 1)
      ELSE IF s[j] = "dq"
      THEN LET e == StringEnd(s, j + 1)
               v == Unescaped(s, j + 1, e - 1)
           IN  IF e = 0 THEN Incomplete
               ELSE Item1(IF quote THEN AtomTree("SQUOTE", <<"dq">> \o v \o <<"dq">>)
                          ELSE AtomTree("DQUOTE", v), e + 1)
      ELSE IF binary /\ ~quote /\ IsBinary(s, j) THEN BinaryItem(s, j)
      ELSE LET e == AtomEnd(s, j, IF quote THEN j ELSE j + 1)
           IN  IF e = 0 THEN Incomplete
               ELSE Item1(AtomTree(IF quote THEN "SQUOTE" ELSE "BASIC",
                                   Unescaped(s, j, e - 1)), e)

Items(s, i, inList, binary) ==
  LET p == Skip(s, i)
  IN  IF p > Len(s) THEN Incomplete
      ELSE IF s[p] = "rp" THEN [trees |-> << >>, next |-> p + 1, bad |-> ~inList]
      ELSE LET x == Item(s, p, binary)
           IN  IF x.next = 0 THEN x
               ELSE LET rest == Items(s, x.next, inList, binary)
                    IN  [rest EXCEPT !.trees = x.trees \o @]

Grammar(s, binary) == Items(s, 1, FALSE, binary)

(* The calls an event handler should see for a sequence of trees. *)
RECURSIVE EventsOf(_)
EventsOf(trees) ==
  IF trees = << >> THEN << >>
  ELSE LET x == Head(trees)
           mark(ev) == [ev |-> ev, aty |-> "NONE", val |-> << >>]
       IN  (IF x.ty = "LIST" THEN <<mark("start")>> \o EventsOf(x.kids) \o <<mark("end")>>
            ELSE <<[ev |-> IF x.aty = "BINARY" THEN "binary" ELSE "characters",
                    aty |-> x.aty, val |-> x.val]>>)
           \o EventsOf(Tail(trees))
=============================================================================
