------------------------------ MODULE MCParser ------------------------------
(* Instances of Parser for TLC, and its properties that need the grammar. *)
EXTENDS Parser, MCTexts

(* The texts of the syntax run, cut as there, are such as the theorem about *)
(* InsideChunk takes.                                                       *)
ASSUME SyntaxAssumption ==
  \A s \in SyntaxTexts : WellEscaped(s, CutOutsideEscape(s))

(* A string whose chunk may end right after an escape. *)
StringTexts == {<<"dq", "a", "bs", "dq", "a", "dq", "sp">>}

(* Inline binary data: prefixes that are and are not #b#, sizes 0 to 2 and  *)
(* bytes that mean something outside binary data, NUL among them.           *)
Tokens(n, pieces) == {FlattenSeq(p) : p \in [1..n -> pieces]}
Prefix == <<"hash", "b", "hash">>
Blobs == {Prefix \o <<"0", "hash">>, Prefix \o <<"1", "hash", "nul">>,
          Prefix \o <<"2", "hash", "rp", "bs">>, Prefix \o <<"1", "hash", "hash">>}
BinaryTexts ==
  {<<"lp">> \o x \o <<"rp", "sp">> :
     x \in Tokens(2, Blobs \cup {<<"sp">>, <<"hash", "sp">>, <<"hash", "b", "a", "sp">>})}

(* For runs in which allocations fail: every kind of block, a string cut    *)
(* short by the end of the text right after an escape, nested lists.        *)
FaultTexts ==
  {<<"lp", "lp", "a", "a", "rp", "dq", "a", "dq", "rp", "rp", "sp">>,
   <<"lp", "sq", "lp", "a", "rp", "sq", "dq", "dq", "a", "rp">>,
   <<"lp">> \o Prefix \o <<"1", "hash", "a", "a", "sp", "lp", "rp", "rp">>,
   <<"lp">> \o Prefix \o <<"-", "1", "hash", "a", "rp">>,
   <<"lp", "dq", "a", "bs", "dq">>, <<"lp", "semi", "a", "nl", "rp">>}
  \cup {<<"lp">> \o w \o <<"rp", "rp", "sp">> : w \in Words(4, {"lp", "rp", "sp", "a", "dq", "sq"})}
  \cup BinaryTexts
TopBinaryTexts == {Prefix \o <<"1", "hash", "a", "sp", "lp", "a", "rp">>}
-----------------------------------------------------------------------------
AllConsumed ==
  cc.error = "INCOMPLETE" /\ cc.lastPos = 0 /\ bufEnd = Len(text) + 1

(* However a text is cut into chunks, the caller receives the expressions   *)
(* of the text and nothing else: a prefix of them at any time, all of them  *)
(* once the text is consumed, and SEXP_ERR_BADFORM exactly where a          *)
(* parenthesis closes nothing.                                              *)
DeliversGrammar ==
  pc = "idle" /\ cc.last_sexp = NULL =>
    LET g == Grammar(text, Mode = "INLINE_BINARY")
    IN  /\ IsPrefix(out, g.trees)
        /\ AllConsumed => out = g.trees /\ ~g.bad
        /\ cc.error = "BADFORM" => out = g.trees /\ g.bad

(* The event handlers of the continuation see the same expressions as the   *)
(* caller: outside any list, the calls made to them are those of the trees  *)
(* handed over so far.  Right after an open parenthesis start_sexpr has     *)
(* been called and depth is not yet counted.                                *)
EventsMirrorTrees ==
  (/\ pc = "idle" /\ cc.last_sexp = NULL /\ Sound
   /\ cc.regs.depth = 0 /\ cc.regs.state # 2) => events = EventsOf(out)

(* The parentheses that the text v of a quoted list leaves open: a          *)
(* backslash hides the character after it, a string all that it holds.      *)
Unclosed(v) ==
  LET plain(c) == {i \in DOMAIN v : v[i] = c /\ (i = 1 \/ v[i - 1] # "bs")}
      outside == {i \in DOMAIN v : Cardinality({j \in plain("dq") : j < i}) % 2 = 0}
  IN  Cardinality(plain("lp") \cap outside) - Cardinality(plain("rp") \cap outside)

(* qdepth counts the open parentheses of the quoted list being collected,   *)
(* however calls divide it, and is 0 whenever there is none: the next       *)
(* quoted list neither ends early nor runs on because of an earlier one.    *)
QuoteDepthMatches ==
  Sound => Here.qdepth = IF Here.state \in {8, 10} THEN Unclosed(Here.val) ELSE 0

(* Every call of cparse_sexp returns, however little of the text a case of  *)
(* the switch consumes.                                                     *)
EveryCallReturns == pc = "loop" ~> pc # "loop"
FairSpec == Spec /\ WF_vars(ParserStep)
=============================================================================
