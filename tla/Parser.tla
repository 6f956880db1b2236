------------------------------- MODULE Parser -------------------------------
(***************************************************************************)
(* The continuation-based parser of sfsexp: cparse_sexp and iparse_sexp    *)
(* (parser.c) working on one continuation, with the tree it builds in a    *)
(* heap of sexp_t elements, and the caller that feeds it a text in chunks, *)
(* takes each finished expression and at some point destroys the           *)
(* continuation.  One iteration of the main loop is one step; a call may   *)
(* return in the middle of anything and is resumed from the continuation.  *)
(*                                                                         *)
(* The chunks of a text are adjacent in memory, as in tests/ctest.c, and a *)
(* NUL follows the last one.                                               *)
(***************************************************************************)
EXTENDS Registers, FiniteSets

CONSTANTS
  Texts,      \* the inputs: sequences of characters
  Cuts(_),    \* for a text, the positions at which a chunk of it may end
  Mode,       \* the continuation's mode: "NORMAL" or "INLINE_BINARY"
  Elem,       \* the sexp_t elements that memory has room for
  NULL,       \* the null sexp_t pointer
  SizeRange,  \* number of values of a size_t, for the cast of atoi's int
  Faults,     \* the allocations that may fail
  NullCalls   \* whether the caller may pass a NULL string

FaultKinds == {"init", "sexp_t", "pd", "push", "val", "grow", "bindata"}

ASSUME TextsAssumption == Texts \subseteq Seq(Char)
ASSUME CutsAssumption == \A s \in Texts : Cuts(s) \subseteq 2..(Len(s) + 1)
ASSUME ElemAssumption == NULL \notin Elem
ASSUME SizeAssumption == SizeRange \in Nat \ {0}
ASSUME OptionsAssumption ==
  /\ Mode \in {"NORMAL", "INLINE_BINARY"}
  /\ Faults \subseteq FaultKinds /\ NullCalls \in BOOLEAN

VARIABLES
  text,        \* the whole input
  bufEnd,      \* end of the current chunk: its last position plus one
  pc,          \* "none", "idle" (between calls), "loop", "undefined", "done"
  t,           \* the position examined, 0 between calls
  rg,          \* the registers of the loop
  elts, sx,    \* the locals that no continuation keeps
  cc,          \* the continuation
  sexp_errno,  \* the global error code
  stack,       \* the parse_data_t records on the faststack, bottom first
  heap, live,  \* the elements, and which of them are allocated
  blocks,      \* ghost: atom buffers, bindata and parse_data_t allocated
  events,      \* ghost: the calls made to the event handlers
  out          \* ghost: the expressions handed to the caller

tree == <<stack, heap, live, blocks>>
vars == <<text, bufEnd, pc, t, rg, elts, sx, cc, sexp_errno, tree, events, out>>
-----------------------------------------------------------------------------
Node(ty, aty, val, used, allocated) ==
  [ty |-> ty, aty |-> aty, val |-> val, val_used |-> used,
   val_allocated |-> allocated, list |-> NULL, next |-> NULL]

FreeNode == Node("LIST", "NONE", << >>, 0, 0)

CharAt(i) == IF i \in 1..Len(text) THEN text[i] ELSE "nul"
Ch == CharAt(t)
Top == stack[Len(stack)]
May(fault) == fault \in Faults

Init ==
  /\ text \in Texts
  /\ bufEnd = 1
  /\ pc = "none" /\ t = 0 /\ rg = InitRegs /\ elts = 0 /\ sx = NULL
  /\ cc = [regs |-> InitRegs, lastPos |-> 0, last_sexp |-> NULL, error |-> "OK"]
  /\ sexp_errno = "OK"
  /\ stack = << >> /\ heap = [e \in Elem |-> FreeNode] /\ live = {} /\ blocks = 0
  /\ events = << >> /\ out = << >>
-----------------------------------------------------------------------------
(* Leaving an iteration of the loop: go round again, or SAVE_CONT_STATE and *)
(* return.  Locals are dead between calls.                                  *)
Step(r, pos) ==
  /\ rg' = r /\ t' = pos
  /\ UNCHANGED <<text, bufEnd, pc, cc, sexp_errno, out>>

(* Mutants: squoted, qdepth or the expression forgotten in SAVE_CONT_STATE. *)
Return_LosesSquoted(err, r, pos, ls) ==
  /\ cc' = [regs |-> [r EXCEPT !.squoted = 0], lastPos |-> pos, last_sexp |-> ls,
            error |-> err]
  /\ sexp_errno' = err
  /\ pc' = "idle" /\ t' = 0 /\ rg' = InitRegs /\ elts' = 0 /\ sx' = NULL
  /\ UNCHANGED <<text, bufEnd, out>>
Return_LosesQdepth(err, r, pos, ls) ==
  /\ cc' = [regs |-> [r EXCEPT !.qdepth = 0], lastPos |-> pos, last_sexp |-> ls,
            error |-> err]
  /\ sexp_errno' = err
  /\ pc' = "idle" /\ t' = 0 /\ rg' = InitRegs /\ elts' = 0 /\ sx' = NULL
  /\ UNCHANGED <<text, bufEnd, out>>
Return_NoLast(err, r, pos, ls) ==
  /\ cc' = [regs |-> r, lastPos |-> pos, last_sexp |-> NULL, error |-> err]
  /\ sexp_errno' = err
  /\ pc' = "idle" /\ t' = 0 /\ rg' = InitRegs /\ elts' = 0 /\ sx' = NULL
  /\ UNCHANGED <<text, bufEnd, out>>

Return(err, r, pos, ls) ==
  /\ cc' = [regs |-> r, lastPos |-> pos, last_sexp |-> ls, error |-> err]
  /\ sexp_errno' = err
  /\ pc' = "idle" /\ t' = 0 /\ rg' = InitRegs /\ elts' = 0 /\ sx' = NULL
  /\ UNCHANGED <<text, bufEnd, out>>

(* A write before the atom buffer, a pop of an empty stack or a read past  *)
(* the memory of the text: C says nothing about what follows.              *)
Undefined ==
  /\ pc' = "undefined"
  /\ UNCHANGED <<text, bufEnd, t, rg, elts, sx, cc, sexp_errno, tree, events, out>>

GrowFails_LosesVal(r, pos) ==    \* mutant: realloc's NULL assigned to val
  /\ May("grow") /\ Full(r)
  /\ Return("MEMORY", [r EXCEPT !.val_used = @ + 1, !.hasval = FALSE], pos, NULL)
  /\ UNCHANGED <<tree, events>>
GrowFails(r, pos) ==
  /\ May("grow") /\ Full(r)
  /\ Return("MEMORY", [r EXCEPT !.val_used = @ + 1], pos, NULL)
  /\ UNCHANGED <<tree, events>>

(* Storing a character and going on at pos, or returning at tFail.         *)
StoreCharAt(r, c, pos, tFail) ==
  \/ Step(Put(r, c), pos) /\ UNCHANGED <<elts, sx, tree, events>>
  \/ GrowFails(r, tFail)
StoreChar(r, c, pos) == StoreCharAt(r, c, pos, t)

(* A call to a handler of the continuation. *)
Emit_SkipsEmpty(ev, aty, val) ==    \* mutant: no call for an empty atom
  events' = IF aty # "NONE" /\ val = << >> THEN events
            ELSE Append(events, [ev |-> ev, aty |-> aty, val |-> val])
Emit(ev, aty, val) ==
  events' = Append(events, [ev |-> ev, aty |-> aty, val |-> val])

-----------------------------------------------------------------------------
(* Allocation of an element, and its place at the end of the innermost     *)
(* open list.  Case 2 tests lst where the atoms test fst: StackShape says  *)
(* that both are null or neither is.                                       *)
NewElem == CHOOSE e \in Elem : e \notin live
Room == live # Elem
NoRoom == May("sexp_t") \/ ~Room

StackWith_NoLast(e) ==    \* mutant: lst not set by the first element
  IF stack = << >> THEN stack
  ELSE [stack EXCEPT ![Len(stack)] =
          [fst |-> IF @.fst = NULL THEN e ELSE @.fst,
           lst |-> IF @.fst = NULL THEN NULL ELSE e]]
StackWith(e) ==
  IF stack = << >> THEN stack
  ELSE [stack EXCEPT ![Len(stack)] =
          [fst |-> IF @.fst = NULL THEN e ELSE @.fst, lst |-> e]]

HeapWith(e, node) ==
  LET h == [heap EXCEPT ![e] = node]
  IN  IF stack = << >> THEN h
      ELSE IF Top.fst = NULL THEN h ELSE [h EXCEPT ![Top.lst].next = e]

(* The end of cases 4, 5 and 9, at position pos.  r are the registers with  *)
(* the terminator written; the buffer goes to the element and the parser    *)
(* gets a new one.  In a list the loop goes on with the registers q at tIn; *)
(* an atom outside any list is returned.                                    *)
(*                                                                          *)
(* Here, and where the buffer cannot grow, the model does not follow which  *)
(* registers were assigned before the allocation that failed, only which    *)
(* buffers they hold: the caller of this module does not resume after       *)
(* SEXP_ERR_MEMORY.  read_one_sexp does, with registers that have no buffer *)
(* or count one character twice, so Wrappers.tla assumes that no allocation *)
(* inside cparse_sexp fails.                                                *)
NewVal(q) == [q EXCEPT !.val = << >>, !.val_used = 0, !.val_allocated = StartSize]

FinishAtom(aty, r, pos, q, tIn, tTop) ==
  LET e == NewElem
  IN  \/ /\ NoRoom
         /\ Return("MEMORY", r, pos, NULL)
         /\ UNCHANGED <<tree, events>>
      \/ /\ Room
         /\ Emit("characters", aty, r.val)
         /\ \/ /\ May("val")
               /\ Return("MEMORY", [r EXCEPT !.hasval = FALSE], pos, NULL)
               /\ blocks' = blocks - 1
               /\ UNCHANGED <<stack, heap, live>>
            \/ /\ live' = live \cup {e}
               /\ blocks' = blocks + 1
               /\ heap' = HeapWith(e, Node("VALUE", aty, r.val, r.val_used,
                                           r.val_allocated))
               /\ stack' = StackWith(e)
               /\ IF stack # << >>
                  THEN Step(NewVal(q), tIn) /\ elts' = elts + 1 /\ sx' = e
                  ELSE Return("OK", [NewVal(r) EXCEPT !.squoted = 0, !.esc = 0,
                                                      !.state = 1], tTop, e)
-----------------------------------------------------------------------------
(* The main loop runs until a NUL, outside binary data, or the end of the   *)
(* chunk.  It tests for the NUL first: outside binary data the byte at      *)
(* bufEnd is read too, the first of the next chunk.  What it is makes no    *)
(* difference, here or in LoopExit: the loop ends at bufEnd in any case.    *)
Running_NulEnds == Ch # "nul" /\ t # bufEnd               \* mutants: NUL ends binary
Running_NoEnd == rg.state = 15 \/ Ch # "nul"              \* data; bufEnd not tested
Running == (rg.state = 15 \/ Ch # "nul") /\ t # bufEnd
Case(n) == pc = "loop" /\ t <= Len(text) + 1 /\ Running /\ rg.state = n
Quiet == UNCHANGED <<elts, sx, tree, events>>

Case1 ==
  /\ Case(1)
  /\ \/ /\ Ch \in White
        /\ Step(rg, t + 1) /\ Quiet
     \/ /\ Ch = "semi"
        /\ Step([rg EXCEPT !.state = 11], t + 1) /\ Quiet
     \/ /\ Ch = "lp"
        /\ Step([rg EXCEPT !.state = 2], t + 1)
        /\ Emit("start", "NONE", << >>)
        /\ UNCHANGED <<elts, sx, tree>>
     \/ /\ Ch = "rp"
        /\ Step([rg EXCEPT !.state = 3], t) /\ Quiet
     \/ /\ Ch = "dq"
        /\ Step([rg EXCEPT !.state = 5, !.val = << >>], t + 1) /\ Quiet
     \/ /\ Ch = "sq"
        /\ Step([rg EXCEPT !.state = 7], t + 1) /\ Quiet
     \/ /\ Ch \notin White \cup {"semi", "lp", "rp", "dq", "sq"}
        /\ LET r == [rg EXCEPT !.val = << >>, !.esc = EscFlag(Ch)]
               n == IF Ch = "hash" /\ Mode = "INLINE_BINARY" THEN 12 ELSE 4
           IN  \/ Step([Put(r, Ch) EXCEPT !.state = n], t + 1) /\ Quiet
               \/ /\ May("grow") /\ Full(r)    \* here realloc's NULL replaces val
                  /\ Return("MEMORY", [r EXCEPT !.val_used = @ + 1,
                                                !.hasval = FALSE], t, NULL)
                  /\ UNCHANGED <<tree, events>>

(* Open parenthesis: the element of the new list goes to the innermost open *)
(* list, or to a new bottom level, and an empty level is pushed for its     *)
(* contents.  The results of push are not looked at.                        *)
PushFailures == IF May("push") THEN SUBSET {1, 2} ELSE {{}}
Pushed(s, level, failed) == IF failed THEN s ELSE Append(s, level)

Case2 ==
  /\ Case(2)
  /\ events' = events
  /\ LET e == NewElem
         r == [rg EXCEPT !.depth = @ + 1]
         bottom == stack = << >>
     IN  \/ /\ NoRoom \/ (bottom /\ May("pd"))
            /\ Return("MEMORY", r, t, NULL)
            /\ UNCHANGED tree
         \/ \E failed \in PushFailures :
            LET s1 == IF bottom
                      THEN Pushed(stack, [fst |-> e, lst |-> e], 1 \in failed)
                      ELSE StackWith(e)
                n1 == IF bottom THEN 1 ELSE 0
            IN  /\ Room
                /\ live' = live \cup {e}
                /\ heap' = HeapWith(e, FreeNode)
                /\ \/ /\ May("pd")
                      /\ Return("MEMORY", r, t, NULL)
                      /\ stack' = s1 /\ blocks' = blocks + n1
                   \/ /\ stack' = Pushed(s1, [fst |-> NULL, lst |-> NULL], 2 \in failed)
                      /\ blocks' = blocks + n1 + 1
                      /\ Step([r EXCEPT !.state = 1], t)
                      /\ elts' = elts + 1 /\ sx' = e

(* Close parenthesis: the contents become the list of the element that      *)
(* opened it; at depth 0 every level is popped and the expression returned. *)
Case3 ==
  /\ Case(3)
  /\ \/ /\ rg.depth = 0
        /\ Return("BADFORM", [rg EXCEPT !.esc = 0, !.state = 1], t, NULL)
        /\ UNCHANGED <<tree, events>>
     \/ /\ rg.depth # 0
        /\ IF stack = << >> THEN Undefined
           ELSE LET below == SubSeq(stack, 1, Len(stack) - 1)
                    r == [rg EXCEPT !.depth = @ - 1]
                IN  /\ live' = live
                    /\ IF below = << >>
                       THEN /\ Return("BAD_STACK", r, t + 1, NULL)
                            /\ stack' = below /\ blocks' = blocks - 1
                            /\ UNCHANGED <<heap, events>>
                       ELSE /\ heap' = [heap EXCEPT ![below[Len(below)].lst].list = Top.fst]
                            /\ Emit("end", "NONE", << >>)
                            /\ IF r.depth = 0
                               THEN /\ Return("OK", [r EXCEPT !.esc = 0, !.state = 1],
                                              t + 1, stack[1].fst)
                                    /\ stack' = << >>
                                    /\ blocks' = blocks - Len(stack)
                               ELSE /\ Step([r EXCEPT !.state = 1], t + 1)
                                    /\ stack' = below /\ blocks' = blocks - 1
                                    /\ sx' = Top.fst /\ elts' = elts

(* An atom, single-quoted or not. *)
Case4 ==
  /\ Case(4)
  /\ \/ /\ rg.esc = 1 /\ Ch \in Escapable
        /\ IF rg.val = << >> THEN Undefined
           ELSE Step(Unescape(rg, Ch), t + 1) /\ Quiet
     \/ /\ ~(rg.esc = 1 /\ Ch \in Escapable) /\ Ch \in AtomChar
        /\ StoreChar([rg EXCEPT !.esc = EscFlag(Ch)], Ch, t + 1)
     \/ /\ ~(rg.esc = 1 /\ Ch \in Escapable) /\ Ch \notin AtomChar
        /\ FinishAtom(IF rg.squoted # 0 THEN "SQUOTE" ELSE "BASIC",
                      [rg EXCEPT !.val_used = @ + 1], t,
                      [rg EXCEPT !.state = IF Ch = "rp" THEN 3 ELSE 1, !.squoted = 0],
                      IF Ch \in White THEN t + 1 ELSE t, t)

(* A double-quoted string.  After an escaped character the next one is      *)
(* handled in the same iteration, wherever the chunk ends.                  *)
Case5 ==
  /\ Case(5)
  /\ LET escaped == rg.esc = 1 /\ Ch \in Escapable
         pos == IF escaped THEN t + 1 ELSE t
         r == IF escaped THEN Unescape(rg, Ch) ELSE rg
         c == CharAt(pos)
         quoted == [r EXCEPT !.state = 6]
     IN  IF escaped /\ rg.val = << >> THEN Undefined
         ELSE \/ /\ c # "dq"
                 /\ StoreCharAt([r EXCEPT !.esc = EscFlag(c)], c, pos + 1, pos)
              \/ /\ c = "dq" /\ rg.squoted = 0
                 /\ FinishAtom("DQUOTE", [quoted EXCEPT !.val_used = @ + 1], pos,
                               quoted, pos + 1, pos + 1)
              \/ /\ c = "dq" /\ rg.squoted = 1
                 /\ \/ FinishAtom("SQUOTE", [Put(quoted, "dq") EXCEPT !.val_used = @ + 1],
                                  pos, [quoted EXCEPT !.squoted = 0], pos + 1, pos + 1)
                    \/ GrowFails(quoted, pos)

(* Mutants: no case for state 6; state 6 left as it is. *)
Case6_Missing == Case(6) /\ Return("UNKNOWN_STATE", rg, t, NULL) /\ UNCHANGED <<tree, events>>
Case6_Stuck == Case(6) /\ Step([rg EXCEPT !.val = << >>], t) /\ Quiet

Case6 == Case(6) /\ Step([rg EXCEPT !.val = << >>, !.state = 1], t) /\ Quiet

(* After a single quote: a string, a quoted list or an atom. *)
Case7 ==
  /\ Case(7)
  /\ \/ /\ Ch = "dq"
        /\ StoreCharAt([rg EXCEPT !.state = 5, !.val = << >>, !.squoted = 1], "dq",
                       t + 1, t + 1)
     \/ /\ Ch = "lp"
        /\ Step([rg EXCEPT !.state = 8, !.val = << >>], t) /\ Quiet
     \/ /\ Ch \notin {"dq", "lp"}
        /\ Step([rg EXCEPT !.state = 4, !.val = << >>, !.squoted = 1], t) /\ Quiet

(* The text of a quoted list, falling through to case 9 at a parenthesis   *)
(* that closes.                                                            *)
Case8 ==
  /\ Case(8)
  /\ LET plain == rg.esc = 0
         closes == plain /\ Ch = "rp"
         r == [rg EXCEPT !.esc = EscFlag(Ch),
                         !.qdepth = IF plain /\ Ch = "lp" THEN (@ + 1) % UIntRange
                                    ELSE IF closes THEN (@ - 1) % UIntRange ELSE @,
                         !.state = IF plain /\ Ch = "dq" THEN 10 ELSE 8]
     IN  \/ /\ ~(closes /\ r.qdepth = 0)
            /\ StoreChar(r, Ch, t + 1)
         \/ /\ closes /\ r.qdepth = 0
            /\ \/ FinishAtom("SQUOTE", [Put(r, Ch) EXCEPT !.state = 1], t + 1,
                             [r EXCEPT !.state = 1], t + 1, t + 1)
               \/ GrowFails(r, t)

Case10 ==
  /\ Case(10)
  /\ StoreChar([rg EXCEPT !.esc = EscFlag(Ch),
                          !.state = IF Ch = "dq" /\ rg.esc = 0 THEN 8 ELSE 10],
               Ch, t + 1)

Case11 ==
  /\ Case(11)
  /\ Step([rg EXCEPT !.state = IF Ch = "nl" THEN 1 ELSE 11], t + 1) /\ Quiet

(* Inline binary: the b, then the second #, of the prefix #b#. *)
Case12 ==
  /\ Case(12)
  /\ \/ Ch = "b" /\ StoreChar([rg EXCEPT !.esc = 0, !.state = 13], Ch, t + 1)
     \/ Ch # "b" /\ Step([rg EXCEPT !.state = 4], t) /\ Quiet

Case13 ==
  /\ Case(13)
  /\ LET r == [rg EXCEPT !.esc = 0]
     IN  \/ /\ Ch = "hash"
            /\ \/ Step([Put(r, Ch) EXCEPT !.state = 14, !.val = << >>, !.val_used = 0],
                       t + 1) /\ Quiet
               \/ GrowFails(r, t)
         \/ Ch # "hash" /\ Step([rg EXCEPT !.state = 4], t) /\ Quiet

(* C's atoi: blanks, a sign, digits, and what follows is ignored. *)
Digit == [d \in {"0", "1", "2"} |-> IF d = "0" THEN 0 ELSE IF d = "1" THEN 1 ELSE 2]
Atoi(s) ==
  LET number[i \in 1..(Len(s) + 1), n \in Nat] ==
        IF i > Len(s) THEN n
        ELSE IF s[i] \in DOMAIN Digit THEN number[i + 1, 10 * n + Digit[s[i]]] ELSE n
      blanks[i \in 1..(Len(s) + 1)] ==
        IF i > Len(s) THEN i ELSE IF s[i] \in White THEN blanks[i + 1] ELSE i
      from == blanks[1]
  IN  IF from > Len(s) THEN 0
      ELSE IF s[from] = "-" THEN 0 - number[from + 1, 0] ELSE number[from, 0]

(* The size, up to a #.  A negative one is an enormous size_t, which malloc *)
(* refuses.                                                                 *)
Case14 ==
  /\ Case(14)
  /\ \/ Ch # "hash" /\ StoreChar([rg EXCEPT !.esc = EscFlag(Ch)], Ch, t + 1)
     \/ /\ Ch = "hash"
        /\ LET n == Atoi(rg.val)
               r == [rg EXCEPT !.state = 15, !.binexpected = n % SizeRange,
                               !.bindata = << >>]
           IN  /\ n \in Int    \* atoi returns an int
               /\ \/ /\ n = 0
                     /\ Step(r, t + 1) /\ Quiet
                  \/ /\ n > 0
                     /\ Step([r EXCEPT !.hasbin = TRUE], t + 1)
                     /\ blocks' = blocks + 1
                     /\ UNCHANGED <<elts, sx, stack, heap, live, events>>
                  \/ /\ n < 0 \/ (n > 0 /\ May("bindata"))
                     /\ Return("MEMORY", r, t + 1, NULL)
                     /\ UNCHANGED <<tree, events>>

(* One byte of binary data; the last one makes the atom, which a list      *)
(* takes and nobody takes outside one.                                     *)
Case15 ==
  /\ Case(15)
  /\ LET more == Len(rg.bindata) < rg.binexpected
         r == IF more THEN [rg EXCEPT !.bindata = Append(@, Ch)] ELSE rg
         pos == IF more THEN t + 1 ELSE t
         e == NewElem
     IN  \/ /\ Len(r.bindata) # r.binexpected
            /\ Step(r, pos) /\ Quiet
         \/ /\ Len(r.bindata) = r.binexpected
            /\ \/ /\ NoRoom
                  /\ Return("MEMORY", r, pos, NULL)
                  /\ UNCHANGED <<tree, events>>
               \/ /\ Room
                  /\ live' = live \cup {e}
                  /\ heap' = HeapWith(e, Node("VALUE", "BINARY", r.bindata, 0, 0))
                  /\ stack' = StackWith(e)
                  /\ blocks' = blocks
                  /\ Emit("binary", "BINARY", r.bindata)
                  /\ Step([r EXCEPT !.bindata = << >>, !.binexpected = 0,
                                    !.hasbin = FALSE, !.state = 1,
                                    !.val = << >>, !.val_used = 0], pos)
                  /\ elts' = elts + 1 /\ sx' = e

(* Out of input: an expression that ended without a return (a binary atom  *)
(* outside any list) is returned now, otherwise more data is needed.       *)
Finished_AnyDepth == elts > 0    \* mutant
Finished == rg.depth = 0 /\ elts > 0

LoopExit ==
  /\ pc = "loop" /\ t <= Len(text) + 1 /\ ~Running
  /\ UNCHANGED <<heap, live, events>>
  /\ IF Finished
     THEN /\ Return("OK", [rg EXCEPT !.esc = 0, !.state = 1], t,
                    IF stack = << >> THEN sx ELSE stack[1].fst)
          /\ stack' = << >> /\ blocks' = blocks - Len(stack)
     ELSE /\ Return("INCOMPLETE", rg,
                    IF Ch = "nul" \/ t = bufEnd THEN 0 ELSE t, NULL)
          /\ UNCHANGED <<stack, blocks>>

WalkOff == pc = "loop" /\ t > Len(text) + 1 /\ Undefined

ParserStep ==
  \/ Case1 \/ Case2 \/ Case3 \/ Case4 \/ Case5 \/ Case6 \/ Case7 \/ Case8
  \/ Case10 \/ Case11 \/ Case12 \/ Case13 \/ Case14 \/ Case15
  \/ LoopExit \/ WalkOff
-----------------------------------------------------------------------------
(* The caller.  A first call makes the continuation; its error and         *)
(* last_sexp are not initialised there, and no path reads them before      *)
(* SAVE_CONT_STATE or the NULL-string path has set them.                   *)
NewContinuation ==
  /\ pc = "none"
  /\ \/ /\ pc' = "idle" /\ blocks' = blocks + 1 /\ sexp_errno' = sexp_errno
     \/ /\ May("init")
        /\ pc' = "done" /\ sexp_errno' = "MEMORY" /\ blocks' = blocks
  /\ UNCHANGED <<text, bufEnd, t, rg, elts, sx, cc, stack, heap, live, events, out>>

Resumable == cc.error \in {"OK", "INCOMPLETE", "NULLSTRING"} /\ cc.last_sexp = NULL

(* The same buffer again while lastPos points into it, else the next one. *)
Call ==
  /\ pc = "idle" /\ Resumable
  /\ \/ /\ cc.lastPos # 0
        /\ t' = cc.lastPos /\ bufEnd' = bufEnd
     \/ /\ cc.lastPos = 0
        /\ bufEnd' \in {k \in Cuts(text) : k > bufEnd} /\ t' = bufEnd
  /\ pc' = "loop" /\ rg' = cc.regs /\ elts' = 0 /\ sx' = NULL
  /\ UNCHANGED <<text, cc, sexp_errno, tree, events, out>>

CallNull ==
  /\ NullCalls /\ pc = "idle" /\ Resumable
  /\ cc' = [cc EXCEPT !.error = "NULLSTRING", !.last_sexp = NULL]
  /\ UNCHANGED <<text, bufEnd, pc, t, rg, elts, sx, sexp_errno, tree, events, out>>

(* What destroy_sexp visits, and the trees of a chain of siblings. *)
Reach(e) ==
  LET r[x \in Elem \cup {NULL}] ==
        IF x = NULL THEN {} ELSE {x} \cup r[heap[x].list] \cup r[heap[x].next]
  IN  r[e]

Trees(e) ==
  LET f[x \in Elem \cup {NULL}] ==
        IF x = NULL THEN << >>
        ELSE <<[ty |-> heap[x].ty, aty |-> heap[x].aty, val |-> heap[x].val,
                kids |-> f[heap[x].list]]>> \o f[heap[x].next]
  IN  f[e]

(* destroy_sexp frees the buffer of an atom: val, or bindata unless empty. *)
OwnsBuffer(e) ==
  heap[e].ty = "VALUE" /\ ~(heap[e].aty = "BINARY" /\ heap[e].val = << >>)
Buffers(S) == Cardinality({e \in S : OwnsBuffer(e)})
Destroyed(S) ==
  /\ live' = live \ S
  /\ heap' = [e \in Elem |-> IF e \in S THEN FreeNode ELSE heap[e]]

(* The caller takes the expression, as iparse_sexp hands it over, and      *)
(* destroys it when done.                                                  *)
Take ==
  /\ pc = "idle" /\ cc.last_sexp # NULL
  /\ out' = out \o Trees(cc.last_sexp)
  /\ Destroyed(Reach(cc.last_sexp))
  /\ blocks' = blocks - Buffers(Reach(cc.last_sexp))
  /\ cc' = [cc EXCEPT !.last_sexp = NULL]
  /\ UNCHANGED <<text, bufEnd, pc, t, rg, elts, sx, sexp_errno, stack, events>>

(* destroy_continuation, at any point between two calls, walks the levels. *)
OpenElems_TopOnly == IF stack = << >> THEN {} ELSE Reach(Top.fst)    \* mutant
OpenElems == UNION {Reach(stack[i].fst) : i \in 1..Len(stack)}

DestroyContinuation ==
  /\ pc = "idle" /\ cc.last_sexp = NULL
  /\ Destroyed(OpenElems)
  /\ blocks' = blocks - Buffers(OpenElems) - Len(stack)
                      - (IF cc.regs.hasval THEN 1 ELSE 0)
                      - (IF cc.regs.hasbin THEN 1 ELSE 0)
  /\ stack' = << >> /\ pc' = "done"
  /\ UNCHANGED <<text, bufEnd, t, rg, elts, sx, cc, sexp_errno, events, out>>

Halted == pc \in {"done", "undefined"} /\ UNCHANGED vars

Next ==
  \/ ParserStep \/ NewContinuation \/ Call \/ CallNull
  \/ Take \/ DestroyContinuation \/ Halted

Spec == Init /\ [][Next]_vars
-----------------------------------------------------------------------------
ErrCode == {"OK", "MEMORY", "BADFORM", "BAD_STACK", "NULLSTRING", "INCOMPLETE"}
Ptr == Elem \cup {NULL}
Nodes ==
  [ty : {"LIST", "VALUE"}, aty : {"NONE", "BASIC", "SQUOTE", "DQUOTE", "BINARY"},
   val : Seq(Char), val_used : Nat, val_allocated : Nat, list : Ptr, next : Ptr]
Levels == [fst : Ptr, lst : Ptr]

(* The continuation and the loop hold values of the types their fields      *)
(* have; in particular state is a case of the switch, so that cparse_sexp   *)
(* never returns SEXP_ERR_UNKNOWN_STATE.                                    *)
ControlOK ==
  /\ text \in Texts /\ bufEnd \in 1..(Len(text) + 1) /\ t \in Nat
  /\ pc \in {"none", "idle", "loop", "undefined", "done"}
  /\ rg \in Regs
  /\ cc \in [regs : Regs, lastPos : Nat, last_sexp : Ptr, error : ErrCode]
  /\ sexp_errno \in ErrCode
TreeOK ==
  /\ elts \in Nat /\ sx \in Ptr
  /\ stack \in Seq(Levels) /\ heap \in [Elem -> Nodes] /\ live \subseteq Elem
TypeOK == ControlOK /\ TreeOK

(* The registers wherever they are at the moment, and whether they can     *)
(* still be resumed: a call that ran out of memory leaves them half-way.   *)
Here == IF pc = "loop" THEN rg ELSE cc.regs
Sound == pc = "loop" \/ (pc = "idle" /\ cc.error \notin {"MEMORY", "BAD_STACK"})

(* pcont_t.depth is the number of open parentheses, and the stack agrees    *)
(* with it: one level for the whole expression and one for the contents of  *)
(* each open list.  Under every level lies a list, the last element of the  *)
(* level below, whose contents are not linked yet; a level has both a first *)
(* and a last element or neither.  So cparse_sexp never pops an empty       *)
(* stack, never returns SEXP_ERR_BAD_STACK and never links through NULL.    *)
StackShape ==
  Sound =>
    /\ Len(stack) = (IF Here.depth = 0 THEN 0 ELSE Here.depth + 1)
    /\ \A i \in 1..Len(stack) : (stack[i].fst = NULL) <=> (stack[i].lst = NULL)
    /\ \A i \in 1..Len(stack) : stack[i].lst # NULL => stack[i].lst \in live
    /\ \A i \in 1..(Len(stack) - 1) :
         /\ stack[i].lst # NULL
         /\ heap[stack[i].lst].ty = "LIST" /\ heap[stack[i].lst].list = NULL

(* The atom buffer always has room for the character at vcur and for the    *)
(* terminator: whatever StartSize, GrowSize and the points at which calls   *)
(* return, vcur[0] is inside val.                                           *)
AtomBufferInBounds == Sound => Bounded(Here)

(* Every element the parser allocated and the caller did not yet destroy   *)
(* is referred to from exactly one place: the next or list of another      *)
(* element, the first of a level, or last_sexp.  So destroy_sexp and       *)
(* destroy_continuation free each element once, whatever point of a parse  *)
(* they come at and whichever allocation failed, and none is leaked.       *)
Referrers(e) ==
  Cardinality({x \in live : heap[x].next = e}) +
  Cardinality({x \in live : heap[x].list = e}) +
  Cardinality({i \in 1..Len(stack) : stack[i].fst = e}) +
  (IF cc.last_sexp = e THEN 1 ELSE 0)
OwnedOnce ==
  /\ \A e \in live : Referrers(e) = 1
  /\ pc = "done" => live = {}

(* The same for atom buffers, binary data and parse_data_t records: each is *)
(* held by the registers, a level or an atom, and destroy_continuation      *)
(* leaves none.                                                             *)
BlocksAccounted ==
  /\ pc \in {"idle", "loop"} =>
       blocks = Buffers(live) + Len(stack) + (IF Here.hasval THEN 1 ELSE 0)
                                           + (IF Here.hasbin THEN 1 ELSE 0)
  /\ pc \in {"none", "done"} => blocks = 0

(* last_sexp is a full expression: when a call hands one over, every        *)
(* parenthesis that was opened is closed.                                   *)
FullExpression == cc.last_sexp # NULL => cc.regs.depth = 0

(* The parser keeps to the chunk it was given: it never steps over bufEnd,  *)
(* so that no case of the switch takes a character that is not of the       *)
(* chunk, and the loop's own tests, which look at the character before they *)
(* compare t with bufEnd (parser.c:744, 1664, 1682), read the one byte      *)
(* there and none behind it.  Nor does it pop an empty stack or overwrite   *)
(* the character before an empty atom.                                      *)
InsideChunk ==
  /\ pc # "undefined"
  /\ pc = "loop" => t <= bufEnd

(* The texts of which InsideChunk holds.  The backslashes that escape what  *)
(* follows are every other one of a run of them.                            *)
Escapes(s) ==
  {i \in 1..Len(s) :
     \E j \in 1..i : /\ \A k \in j..i : s[k] = "bs"
                     /\ j = 1 \/ s[j - 1] # "bs"
                     /\ (i - j) % 2 = 0}

(* No NUL inside the text, no escape before white space or a control        *)
(* character, which would end the atom and leave esc set for the next one,  *)
(* and none of the ends of chunks right after an escaped character.         *)
WellEscaped(s, ends) ==
  /\ \A i \in 1..Len(s) : s[i] # "nul"
  /\ \A i \in Escapes(s) : i < Len(s) =>
       /\ s[i + 1] \notin White \cup {"ctl"}
       /\ s[i + 1] \in Escapable => i + 2 \notin ends
=============================================================================
