---------------------------- MODULE MCEventParser ----------------------------
(* Instances of EventParser for TLC, and its property against the grammar. *)
EXTENDS EventParser, MCTexts

(* A single quote in a list, other than that of a quoted list, has a run of *)
(* its own.                                                                 *)
QuotesOutside(s) ==
  \A i \in 1..(Len(s) - 1) :
    s[i] = "sq" /\ (\E j \in 1..(i - 1) : s[j] = "lp") => s[i + 1] = "lp"
EventTexts ==
  {s \in SyntaxTexts : QuotesOutside(s)} \cup {<<"lp", "dq", "a", "bs", "dq">>}
EventCuts(s) == CutOutsideEscape(s) \cup {Len(s) + 1}

ListQuoteTexts ==
  {<<"lp", "sq", "dq", "a", "dq", "sp", "a", "rp", "sp">>,
   <<"lp", "sq", "a", "rp", "a", "sp">>}
-----------------------------------------------------------------------------
AllConsumed == cc.error = "OK" /\ cc.lastPos = 0 /\ bufEnd = Len(text) + 1

(* However a text is cut into chunks, the handlers are called for the       *)
(* expressions of the text, in order and with the type and the characters   *)
(* of each atom: outside any list, for a prefix of them; once the text is   *)
(* consumed, for all of them; and the call that meets a parenthesis that    *)
(* closes nothing, and no other, says SEXP_ERR_BADFORM.                     *)
EventsMatchGrammar ==
  pc = "idle" =>
    LET g == Grammar(text, FALSE)
        all == EventsOf(g.trees)
    IN  /\ cc.regs.depth = 0 /\ cc.regs.state # 2 => IsPrefix(events, all)
        /\ AllConsumed => IsPrefix(all, events) /\ ~g.bad
        /\ cc.error = "BADFORM" => events = all /\ g.bad
=============================================================================
