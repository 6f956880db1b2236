------------------------------ MODULE Wrappers ------------------------------
(***************************************************************************)
(* The two functions that drive cparse_sexp for a caller: parse_sexp       *)
(* (parser.c), for one expression in a string, and read_one_sexp (io.c),   *)
(* for the expressions of a file descriptor.  Each composes the steps of   *)
(* Parser.tla with a caller of its own; text is the string parsed, or the  *)
(* bytes of iow->buf that a read ever wrote, with zeros after them.        *)
(***************************************************************************)
EXTENDS Parser

CONSTANTS
  BufSize,   \* BUFSIZ
  MaxCalls   \* bound on the calls of read_one_sexp

ASSUME WrapperAssumption == BufSize \in Nat \ {0} /\ MaxCalls \in Nat

(* read_one_sexp calls cparse_sexp again after every error (io.c:95-116),   *)
(* and after SEXP_ERR_MEMORY the registers of Parser.tla are not those of   *)
(* the code: only the allocation of the continuation may fail here.         *)
ASSUME WrapperFaults == Faults \subseteq {"init"}

VARIABLES
  input,  \* the string passed to parse_sexp, or the whole file
  pos,    \* how much of the file has been read
  cnt,    \* iow->cnt; -1 for the size_t that -1 becomes
  at,     \* where the wrapper is: "out", or the call it waits for
  calls,  \* ghost: calls of read_one_sexp made
  clean   \* ghost: no call has met an error, a return of NULL for lack of
          \* data included, except SEXP_ERR_IO_EMPTY

own == <<input, pos, cnt, at, calls, clean>>
allVars == <<vars, own>>

WInit ==
  /\ Init /\ input = text
  /\ pos = 0 /\ cnt = 0 /\ calls = 0 /\ clean = TRUE
  /\ at \in {"string", "out"}

(* cparse_sexp on the first n bytes of the string s: it goes on at lastPos  *)
(* if that is set, and makes the continuation if there is none.             *)
Parse(s, n) ==
  /\ text' = s /\ bufEnd' = n + 1
  /\ pc' = "loop" /\ rg' = cc.regs /\ elts' = 0 /\ sx' = NULL
  /\ t' = IF cc.lastPos = 0 THEN 1 ELSE cc.lastPos
  /\ blocks' = IF pc = "none" THEN blocks + 1 ELSE blocks
  /\ UNCHANGED <<cc, sexp_errno, stack, heap, live, events, out>>

(* The expression found goes to the caller, who is done with it at once.    *)
(* Blocks freed with it, and with the continuation.                         *)
HandOver(e) ==
  /\ out' = out \o Trees(e)
  /\ Destroyed(Reach(e))
  /\ blocks' = blocks - Buffers(Reach(e))
Waiting == pc = "idle"
-----------------------------------------------------------------------------
(* parse_sexp *)
parse_sexp ==
  /\ at = "string" /\ pc = "none"
  /\ \/ /\ text = << >>
        /\ pc' = "done"
        /\ UNCHANGED <<text, bufEnd, t, rg, elts, sx, cc, sexp_errno, tree, events, out>>
     \/ text # << >> /\ Parse(text, Len(text))
     \/ /\ text # << >> /\ May("init")
        /\ pc' = "done" /\ sexp_errno' = "MEMORY"
        /\ UNCHANGED <<text, bufEnd, t, rg, elts, sx, cc, tree, events, out>>
  /\ UNCHANGED own

(* An atom with nothing after it: a line end is parsed in addition. *)
NeedsBlank_Never == FALSE    \* mutant
NeedsBlank == at = "string" /\ sexp_errno = "INCOMPLETE" /\ cc.lastPos = 0
Blank ==
  /\ Waiting /\ NeedsBlank
  /\ Parse(<<"nl", "nul">>, 2)
  /\ at' = "blank" /\ UNCHANGED <<input, pos, cnt, calls, clean>>

(* last_sexp is the caller's, the rest goes with the continuation: its      *)
(* parse_data_t records, itself the place of one, and the atom in progress. *)
Records_NoVal == Len(stack)    \* mutant: cc->val not freed
Records == Len(stack) + (IF cc.regs.hasval THEN 1 ELSE 0)
                      + (IF cc.regs.hasbin THEN 1 ELSE 0)
Finish ==
  /\ Waiting /\ at \in {"string", "blank"} /\ ~NeedsBlank
  /\ LET all == Reach(cc.last_sexp) \cup OpenElems
     IN  /\ out' = out \o Trees(cc.last_sexp)
         /\ Destroyed(all)
         /\ blocks' = blocks - Buffers(all) - Records
  /\ cc' = [cc EXCEPT !.last_sexp = NULL]
  /\ stack' = << >> /\ pc' = "done"
  /\ UNCHANGED <<text, bufEnd, t, rg, elts, sx, sexp_errno, events, own>>
-----------------------------------------------------------------------------
(* read_one_sexp: what is left of the buffer is parsed first ... *)
read_one_sexp ==
  /\ at = "out" /\ pc \in {"none", "idle"} /\ calls < MaxCalls
  /\ calls' = calls + 1
  /\ IF pc = "idle" /\ cc.lastPos # 0
     THEN Parse(text, cnt) /\ at' = "rest"
     ELSE at' = "fill" /\ UNCHANGED vars
  /\ UNCHANGED <<input, pos, cnt, clean>>

UsedUp_Kept == cnt    \* mutant: cnt not reset
UsedUp == 0
Rest ==
  /\ Waiting /\ at = "rest"
  /\ UNCHANGED <<input, pos, calls>>
  /\ IF cc.last_sexp # NULL
     THEN /\ HandOver(cc.last_sexp) /\ cc' = [cc EXCEPT !.last_sexp = NULL]
          /\ at' = "out" /\ UNCHANGED <<cnt, clean>>
          /\ UNCHANGED <<text, bufEnd, pc, t, rg, elts, sx, sexp_errno, stack, events>>
     ELSE /\ cnt' = UsedUp /\ at' = "fill" /\ UNCHANGED vars
          /\ clean' = (clean /\ cc.error = "INCOMPLETE")

(* ... then the buffer, read anew if cnt is 0.  cparse_sexp that gives no    *)
(* continuation is not noticed.                                             *)
MadeOrNot(s, n) ==
  \/ Parse(s, n)
  \/ pc = "none" /\ May("init") /\ Undefined
Over(new) == new \o SubSeq(text, Len(new) + 1, Len(text))
Buffer == IF pos = 0 THEN << >> ELSE text

Again ==
  /\ at = "fill" /\ cnt # 0
  /\ MadeOrNot(text, cnt)
  /\ at' = "parse" /\ UNCHANGED <<input, pos, cnt, calls, clean>>

Read ==
  /\ at = "fill" /\ cnt = 0
  /\ \E n \in 1..BufSize :
       LET new == SubSeq(input, pos + 1, pos + n)
       IN  /\ pos + n <= Len(input)
           /\ MadeOrNot(IF pos = 0 THEN new ELSE Over(new), n)
           /\ pos' = pos + n /\ cnt' = n
  /\ at' = "parse" /\ UNCHANGED <<input, calls, clean>>

ReadNothing ==
  /\ at = "fill" /\ cnt = 0 /\ pos = Len(input)
  /\ sexp_errno' = "IO_EMPTY" /\ at' = "out"
  /\ UNCHANGED <<text, bufEnd, pc, t, rg, elts, sx, cc, tree, events, out>>
  /\ UNCHANGED <<input, pos, cnt, calls, clean>>

(* An error is taken for a number of bytes: the old ones are parsed, up to  *)
(* a zero, and if the buffer is full what follows it in memory.             *)
ReadError ==
  /\ at = "fill" /\ cnt = 0
  /\ IF Len(Buffer) = BufSize THEN Undefined ELSE MadeOrNot(Buffer, -1)
  /\ at' = "parse" /\ cnt' = -1 /\ clean' = FALSE
  /\ UNCHANGED <<input, pos, calls>>

Judge ==
  /\ Waiting /\ at = "parse"
  /\ UNCHANGED <<input, pos, calls>>
  /\ IF cc.last_sexp # NULL
     THEN /\ HandOver(cc.last_sexp) /\ cc' = [cc EXCEPT !.last_sexp = NULL]
          /\ at' = "out" /\ UNCHANGED <<cnt, clean>>
          /\ UNCHANGED <<text, bufEnd, pc, t, rg, elts, sx, sexp_errno, stack, events>>
     ELSE IF cc.error # "OK"
     THEN /\ sexp_errno' = cc.error /\ at' = "out" /\ clean' = FALSE /\ cnt' = cnt
          /\ UNCHANGED <<text, bufEnd, pc, t, rg, elts, sx, cc, tree, events, out>>
     ELSE at' = "fill" /\ cnt' = 0 /\ UNCHANGED <<vars, clean>>    \* read more

destroy_iowrap ==
  /\ at = "out"
  /\ \/ pc = "idle" /\ DestroyContinuation
     \/ /\ pc = "none" /\ pc' = "done"
        /\ UNCHANGED <<text, bufEnd, t, rg, elts, sx, cc, sexp_errno, tree, events, out>>
  /\ UNCHANGED own

WrapperStep ==
  \/ parse_sexp \/ Blank \/ Finish
  \/ read_one_sexp \/ Rest \/ Again \/ Read \/ ReadNothing \/ ReadError \/ Judge
  \/ destroy_iowrap
WNext ==
  \/ ParserStep /\ UNCHANGED own
  \/ WrapperStep
  \/ Halted /\ UNCHANGED own
WSpec == WInit /\ [][WNext]_allVars
-----------------------------------------------------------------------------
(* cparse_sexp never answers SEXP_ERR_OK without an expression, so that the *)
(* loop of read_one_sexp never reads a second time: what a call reads must  *)
(* complete an expression.                                                  *)
ReadsOnce == at = "parse" /\ pc = "idle" /\ cc.error = "OK" => cc.last_sexp # NULL

(* Whatever read returns, a call of read_one_sexp ends, and so does one of  *)
(* parse_sexp: its first call of cparse_sexp, and the second one with the   *)
(* line end.                                                                *)
CallsEnd == (at \in {"rest", "fill", "parse", "blank"} \/ (at = "string" /\ pc # "none")) ~>
              (at = "out" \/ pc \in {"done", "undefined"})
WFairSpec ==
  WSpec /\ WF_allVars((ParserStep /\ UNCHANGED own) \/ Blank \/ Finish \/ Rest \/ Again
                        \/ Read \/ ReadNothing \/ ReadError \/ Judge)
=============================================================================
