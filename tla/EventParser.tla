----------------------------- MODULE EventParser -----------------------------
(***************************************************************************)
(* The events-only parser of sfsexp, eparse_sexp (event_temp.c), which     *)
(* cparse_sexp calls when the mode of the continuation is                  *)
(* PARSER_EVENTS_ONLY.  It is a second copy of the automaton of Parser.tla *)
(* that builds no tree: it keeps one atom buffer for all atoms, and        *)
(* instead of pushing levels it counts them in the height of an otherwise  *)
(* empty stack.  The mode never being INLINE_BINARY, states 12 to 15 are   *)
(* not reached.  A failed realloc ends the program by an assertion.        *)
(*                                                                         *)
(* The text and the caller are those of Parser.tla.                        *)
(***************************************************************************)
EXTENDS Registers

CONSTANTS
  Texts,        \* the inputs: sequences of characters
  Cuts(_),      \* for a text, the positions at which a chunk of it may end
  ReallocFails  \* whether memory may run out

ASSUME TextsAssumption == Texts \subseteq Seq(Char)
ASSUME CutsAssumption == \A s \in Texts : Cuts(s) \subseteq 2..(Len(s) + 1)
ASSUME ReallocAssumption == ReallocFails \in BOOLEAN

VARIABLES
  text,    \* the whole input
  bufEnd,  \* end of the current chunk: its last position plus one
  pc,      \* "idle" (between calls), "loop", "aborted", "undefined", "done"
  t,       \* the position examined, 0 between calls
  rg,      \* the registers of the loop
  elts,    \* the local no continuation keeps
  cc,      \* the continuation
  height,  \* stack->height
  events   \* ghost: the calls made to the event handlers

vars == <<text, bufEnd, pc, t, rg, elts, cc, height, events>>
-----------------------------------------------------------------------------
CharAt(i) == IF i \in 1..Len(text) THEN text[i] ELSE "nul"
Ch == CharAt(t)

Init ==
  /\ text \in Texts
  /\ bufEnd = 1
  /\ pc = "idle" /\ t = 0 /\ rg = InitRegs /\ elts = 0
  /\ cc = [regs |-> InitRegs, lastPos |-> 0, error |-> "OK"]
  /\ height = 0 /\ events = << >>

(* Leaving an iteration of the loop: go round again, return with what the  *)
(* continuation is given, or end there.                                    *)
Step(r, pos) ==
  rg' = r /\ t' = pos /\ UNCHANGED <<text, bufEnd, pc, cc>>

Return(err, r, pos) ==
  /\ cc' = [regs |-> r, lastPos |-> pos, error |-> err]
  /\ pc' = "idle" /\ t' = 0 /\ rg' = InitRegs /\ elts' = 0
  /\ UNCHANGED <<text, bufEnd>>

Halt(how) == pc' = how /\ UNCHANGED <<text, bufEnd, t, rg, elts, cc, height, events>>

Quiet == UNCHANGED <<elts, height, events>>
GrowAborts(r) == ReallocFails /\ Full(r) /\ Halt("aborted")
StoreChar(r, c, pos) == (Step(Put(r, c), pos) /\ Quiet) \/ GrowAborts(r)

Emit(ev, aty, val) ==
  events' = Append(events, [ev |-> ev, aty |-> aty, val |-> val])

(* The end of an atom.  The buffer is used again; in a list the loop goes  *)
(* on with the registers q at tIn, otherwise the call returns at tTop.     *)
FinishAtom(aty, q, tIn, tTop) ==
  LET r == [q EXCEPT !.val = << >>, !.val_used = 0]
  IN  /\ Emit("characters", aty, q.val)
      /\ height' = height
      /\ IF height < 1
         THEN Return("OK", [r EXCEPT !.squoted = 0, !.esc = 0, !.state = 1], tTop)
         ELSE Step(r, tIn) /\ elts' = elts + 1
-----------------------------------------------------------------------------
Running == Ch # "nul" /\ t # bufEnd    \* in this order, as in cparse_sexp
Case(n) == pc = "loop" /\ t <= Len(text) + 1 /\ Running /\ rg.state = n

Case1 ==
  /\ Case(1)
  /\ \/ /\ Ch \in White
        /\ Step(rg, t + 1) /\ Quiet
     \/ /\ Ch = "semi"
        /\ Step([rg EXCEPT !.state = 11], t + 1) /\ Quiet
     \/ /\ Ch = "lp"
        /\ Step([rg EXCEPT !.state = 2], t + 1)
        /\ Emit("start", "NONE", << >>)
        /\ UNCHANGED <<elts, height>>
     \/ /\ Ch = "rp"
        /\ Step([rg EXCEPT !.state = 3], t) /\ Quiet
     \/ /\ Ch = "dq"
        /\ Step([rg EXCEPT !.state = 5, !.val = << >>], t + 1) /\ Quiet
     \/ /\ Ch = "sq"
        /\ Step([rg EXCEPT !.state = 7], t + 1) /\ Quiet
     \/ /\ Ch \notin White \cup {"semi", "lp", "rp", "dq", "sq"}
        /\ StoreChar([rg EXCEPT !.val = << >>, !.esc = EscFlag(Ch), !.state = 4],
                     Ch, t + 1)

(* An open parenthesis: the first one counts for two levels, as it pushes   *)
(* two in cparse_sexp.                                                      *)
Case2_OneLevel ==    \* mutant
  /\ Case(2)
  /\ Step([rg EXCEPT !.depth = @ + 1, !.state = 1], t)
  /\ height' = height + 1
  /\ elts' = elts + 1 /\ events' = events
Case2 ==
  /\ Case(2)
  /\ Step([rg EXCEPT !.depth = @ + 1, !.state = 1], t)
  /\ height' = (IF height < 1 THEN height + 1 ELSE height) + 1
  /\ elts' = elts + 1 /\ events' = events

(* A closing parenthesis.  Neither return writes cc->squoted. *)
KeepsSquoted(r) == [r EXCEPT !.squoted = cc.regs.squoted, !.esc = 0, !.state = 1]

Case3_Unchecked ==    \* mutant: no test for a parenthesis that closes nothing
  /\ Case(3)
  /\ Emit("end", "NONE", << >>)
  /\ LET r == [rg EXCEPT !.depth = @ - 1, !.state = 1]
     IN  IF r.depth = 0
         THEN height' = 0 /\ Return("OK", KeepsSquoted(r), t + 1)
         ELSE height' = height - 1 /\ Step(r, t + 1) /\ elts' = elts
Case3 ==
  /\ Case(3)
  /\ \/ /\ rg.depth = 0
        /\ Return("BADFORM", KeepsSquoted(rg), t)
        /\ UNCHANGED <<height, events>>
     \/ /\ rg.depth # 0
        /\ Emit("end", "NONE", << >>)
        /\ LET r == [rg EXCEPT !.depth = @ - 1, !.state = 1]
           IN  IF r.depth = 0
               THEN height' = 0 /\ Return("OK", KeepsSquoted(r), t + 1)
               ELSE height' = height - 1 /\ Step(r, t + 1) /\ elts' = elts

Case4 ==
  /\ Case(4)
  /\ LET escaped == rg.esc = 1 /\ Ch \in Escapable
     IN  \/ /\ escaped
            /\ IF rg.val = << >> THEN Halt("undefined")
               ELSE Step(Unescape(rg, Ch), t + 1) /\ Quiet
         \/ /\ ~escaped /\ Ch \in AtomChar
            /\ StoreChar([rg EXCEPT !.esc = EscFlag(Ch)], Ch, t + 1)
         \/ /\ ~escaped /\ Ch \notin AtomChar
            /\ FinishAtom(IF rg.squoted # 0 THEN "SQUOTE" ELSE "BASIC",
                          [rg EXCEPT !.state = IF Ch = "rp" THEN 3 ELSE 1, !.squoted = 0],
                          IF Ch \in White THEN t + 1 ELSE t, t)

(* A string.  In a list squoted stays as it is when the string ends. *)
Case5 ==
  /\ Case(5)
  /\ LET escaped == rg.esc = 1 /\ Ch \in Escapable
         pos == IF escaped THEN t + 1 ELSE t
         r == IF escaped THEN Unescape(rg, Ch) ELSE rg
         c == CharAt(pos)
         quoted == [r EXCEPT !.state = 6]
     IN  IF escaped /\ rg.val = << >> THEN Halt("undefined")
         ELSE \/ /\ c # "dq"
                 /\ StoreChar([r EXCEPT !.esc = EscFlag(c)], c, pos + 1)
              \/ /\ c = "dq" /\ rg.squoted = 0
                 /\ FinishAtom("DQUOTE", quoted, pos + 1, pos + 1)
              \/ /\ c = "dq" /\ rg.squoted = 1
                 /\ \/ FinishAtom("SQUOTE", Put(quoted, "dq"), pos + 1, pos + 1)
                    \/ GrowAborts(quoted)

Case6 == Case(6) /\ Step([rg EXCEPT !.val = << >>, !.state = 1], t) /\ Quiet

Case7 ==
  /\ Case(7)
  /\ \/ /\ Ch = "dq"
        /\ StoreChar([rg EXCEPT !.state = 5, !.val = << >>, !.squoted = 1], "dq", t + 1)
     \/ /\ Ch = "lp"
        /\ Step([rg EXCEPT !.state = 8, !.val = << >>], t) /\ Quiet
     \/ /\ Ch \notin {"dq", "lp"}
        /\ Step([rg EXCEPT !.state = 4, !.val = << >>, !.squoted = 1], t) /\ Quiet

(* A quoted list, with the case 9 it falls through to. *)
Case8 ==
  /\ Case(8)
  /\ LET plain == rg.esc = 0
         closes == plain /\ Ch = "rp"
         r == [rg EXCEPT !.esc = EscFlag(Ch),
                         !.qdepth = IF plain /\ Ch = "lp" THEN (@ + 1) % UIntRange
                                    ELSE IF closes THEN (@ - 1) % UIntRange ELSE @,
                         !.state = IF plain /\ Ch = "dq" THEN 10 ELSE 8]
     IN  \/ /\ ~(closes /\ r.qdepth = 0)
            /\ StoreChar(r, Ch, t + 1)
         \/ /\ closes /\ r.qdepth = 0
            /\ \/ FinishAtom("SQUOTE", [Put(r, Ch) EXCEPT !.state = 1], t + 1, t + 1)
               \/ GrowAborts(r)

Case10 ==
  /\ Case(10)
  /\ StoreChar([rg EXCEPT !.esc = EscFlag(Ch),
                          !.state = IF Ch = "dq" /\ rg.esc = 0 THEN 8 ELSE 10],
               Ch, t + 1)

Case11 ==
  /\ Case(11)
  /\ Step([rg EXCEPT !.state = IF Ch = "nl" THEN 1 ELSE 11], t + 1) /\ Quiet

(* Out of input.  Unlike cparse_sexp, which says SEXP_ERR_INCOMPLETE, this  *)
(* parser says SEXP_ERR_OK whether an expression is open or not.            *)
LoopExit_LosesEsc ==    \* mutant
  /\ pc = "loop" /\ t <= Len(text) + 1 /\ ~Running
  /\ Return("OK", [rg EXCEPT !.esc = 0], IF Ch = "nul" \/ t = bufEnd THEN 0 ELSE t)
  /\ UNCHANGED <<height, events>>
LoopExit ==
  /\ pc = "loop" /\ t <= Len(text) + 1 /\ ~Running
  /\ events' = events
  /\ IF rg.depth = 0 /\ elts > 0
     THEN height' = 0 /\ Return("OK", [rg EXCEPT !.esc = 0, !.state = 1], t)
     ELSE /\ height' = height
          /\ Return("OK", rg, IF Ch = "nul" \/ t = bufEnd THEN 0 ELSE t)

WalkOff == pc = "loop" /\ t > Len(text) + 1 /\ Halt("undefined")

ParserStep ==
  \/ Case1 \/ Case2 \/ Case3 \/ Case4 \/ Case5 \/ Case6 \/ Case7 \/ Case8
  \/ Case10 \/ Case11 \/ LoopExit \/ WalkOff
-----------------------------------------------------------------------------
(* The caller: the same buffer again while lastPos points into it, else the *)
(* next one, until the continuation says SEXP_ERR_BADFORM; NULL strings in  *)
(* between, which cparse_sexp answers; and the end of the continuation.     *)
Resumable == cc.error # "BADFORM"

Call ==
  /\ pc = "idle" /\ Resumable
  /\ \/ /\ cc.lastPos # 0
        /\ t' = cc.lastPos /\ bufEnd' = bufEnd
     \/ /\ cc.lastPos = 0
        /\ bufEnd' \in {k \in Cuts(text) : k > bufEnd} /\ t' = bufEnd
  /\ pc' = "loop" /\ rg' = cc.regs /\ elts' = 0
  /\ UNCHANGED <<text, cc, height, events>>

CallNull ==
  /\ pc = "idle" /\ Resumable
  /\ cc' = [cc EXCEPT !.error = "NULLSTRING"]
  /\ UNCHANGED <<text, bufEnd, pc, t, rg, elts, height, events>>

DestroyContinuation == pc = "idle" /\ Halt("done")

Halted == pc \in {"done", "undefined", "aborted"} /\ UNCHANGED vars

Next == ParserStep \/ Call \/ CallNull \/ DestroyContinuation \/ Halted

Spec == Init /\ [][Next]_vars
-----------------------------------------------------------------------------
(* Registers, continuation and counters have the types of their fields, and *)
(* the state is one that the switch has a case for.                         *)
EventStates == (1..8) \cup {10, 11}
EventRegs == {r \in Regs : r.state \in EventStates}
TypeOK ==
  /\ text \in Texts /\ bufEnd \in 1..(Len(text) + 1) /\ t \in Nat
  /\ pc \in {"idle", "loop", "aborted", "undefined", "done"}
  /\ rg \in EventRegs /\ elts \in Nat /\ height \in Nat
  /\ cc \in [regs : EventRegs, lastPos : Nat, error : {"OK", "BADFORM", "NULLSTRING"}]

Here == IF pc = "loop" THEN rg ELSE cc.regs
HeightOf(depth) == IF depth = 0 THEN 0 ELSE depth + 1

(* The count that stands for the stack agrees with the open parentheses,    *)
(* in the loop and wherever a call returned: an atom is returned on its own *)
(* exactly when it is in no list, and no closing parenthesis takes the      *)
(* count below zero.                                                        *)
HeightAgrees == pc \in {"idle", "loop"} => height = HeightOf(Here.depth)

(* One buffer serves all atoms of a text and is never given back: it has    *)
(* room for the next character and the terminator at every point.           *)
AtomBufferInBounds == pc \in {"idle", "loop"} => Bounded(Here)
=============================================================================
