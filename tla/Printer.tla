------------------------------ MODULE Printer ------------------------------
(***************************************************************************)
(* print_sexp and print_sexp_cstr (sexp.c): the walk over an expression    *)
(* with an explicit stack, one iteration of the main loop per step, and    *)
(* what it writes into a buffer of fixed size or adds to a CSTRING.        *)
(*                                                                         *)
(* A level of the stack is what is left of a list, the element its data    *)
(* points to first.  val_used counts the terminator, so it is not 0 for a  *)
(* text atom.  The characters that matter have the names they have in      *)
(* Registers.tla.  push is taken to succeed: neither function looks at     *)
(* what it returns.                                                        *)
(***************************************************************************)
EXTENDS Expressions

CONSTANTS
  Decimal(_),  \* the digits that printf writes for a number
  Jobs,        \* the calls: the function, the expression (<< >> for NULL), the
               \* size of the buffer and what the CSTRING passed in holds
  NULL

Marks == {"lp", "rp", "dq", "sq", "bs", "sp", "hash", "b"}

ASSUME CharAssumption ==
  LET T == Tree
  IN  /\ Marks \subseteq Char
      /\ \A x \in T : x.aty = "BINARY" => Decimal(Len(x.val)) \in Seq(Char)
ASSUME JobsAssumption ==
  LET T == Tree
  IN  \A j \in Jobs : /\ j.fn \in {"print_sexp", "print_sexp_cstr"}
                      /\ j.size \in Nat /\ j.sx \in Seq(T) /\ Len(j.sx) <= 1
                      /\ j.old \in Seq(Char) \cup {NULL}
ASSUME NullAssumption == NULL \notin Seq(Char)

VARIABLES
  job,         \* the call
  str,         \* *s of print_sexp_cstr
  pc,          \* "call", "print" or "cstr" (in the loop), "done", "undefined"
  stack,       \* the levels, bottom first
  depth,
  tc,          \* the next character of the atom being copied, 0 outside one
  b,           \* what stands in the buffer before b, without the terminator
  left,
  ret,         \* the value returned
  sexp_errno

vars == <<job, str, pc, stack, depth, tc, b, left, ret, sexp_errno>>

Init ==
  /\ job \in Jobs /\ str = job.old
  /\ pc = "call" /\ stack = << >> /\ depth = 0 /\ tc = 0
  /\ b = << >> /\ left = job.size /\ ret = 0 /\ sexp_errno = "OK"
-----------------------------------------------------------------------------
Top == stack[Len(stack)]
Below == SubSeq(stack, 1, Len(stack) - 1)
At(kind) == stack # << >> /\ Top # << >> /\ Top[1].ty = kind
Text == At("VALUE") /\ Top[1].aty # "BINARY"
Bytes == At("VALUE") /\ Top[1].aty = "BINARY"

(* top->data = top->data->next, and a blank if something is there. *)
Advance(s) == [s EXCEPT ![Len(s)] = Tail(@)]
Blank_Always(rest) == <<"sp">>    \* mutant
Blank(rest) == IF rest = << >> THEN << >> ELSE <<"sp">>

(* What is written before, for and after the characters of a text atom.     *)
(* Escapes are for double-quoted atoms only.                                *)
Opening == CASE Top[1].aty = "DQUOTE" -> <<"dq">>
             [] Top[1].aty = "SQUOTE" -> <<"sq">>
             [] OTHER -> << >>
Character_NoEscape == <<Top[1].val[tc]>>    \* mutant
Character ==
  IF Top[1].aty = "DQUOTE" /\ Top[1].val[tc] \in {"dq", "bs"}
  THEN <<"bs", Top[1].val[tc]>> ELSE <<Top[1].val[tc]>>
Ending == (IF Top[1].aty = "DQUOTE" THEN <<"dq">> ELSE << >>) \o Blank(Tail(Top))

Prefix == <<"hash", "b", "hash">>
Size == Decimal(Len(Top[1].val)) \o <<"hash">>

(* The end of a list, whose element on the level below is left behind. *)
Closing == IF depth > 0 THEN <<"rp">> ELSE << >>
Closed ==
  IF Below = << >> THEN [text |-> Closing, stack |-> Below]
  ELSE [text |-> Closing \o Blank(Tail(Below[Len(Below)])), stack |-> Advance(Below)]
Up_Kept == depth    \* mutant
Up == IF depth > 0 THEN depth - 1 ELSE 0
Opened == stack \o <<Top[1].kids>>
-----------------------------------------------------------------------------
(* print_sexp.  w is what has been written: the last character makes room   *)
(* for the terminator, and there is none before the first.                  *)
OutOfSpace(w) ==
  /\ UNCHANGED <<job, str, stack, depth, tc, left>>
  /\ IF w = << >>
     THEN pc' = "undefined" /\ UNCHANGED <<b, ret, sexp_errno>>
     ELSE /\ b' = SubSeq(w, 1, Len(w) - 1)
          /\ pc' = "done" /\ ret' = -1 /\ sexp_errno' = "BUFFER_FULL"

(* add_char_break_full for each character of cs, after w was written and    *)
(* with room for n characters; then stack, depth and tc are s, d and k.     *)
Add_OneMore(w, n, cs, s, d, k) ==    \* mutant: full only when there was no room
  IF Len(cs) > n
  THEN OutOfSpace(w \o SubSeq(cs, 1, n))
  ELSE /\ b' = w \o cs /\ left' = n - Len(cs)
       /\ stack' = s /\ depth' = d /\ tc' = k
       /\ UNCHANGED <<job, str, pc, ret, sexp_errno>>
Add(w, n, cs, s, d, k) ==
  IF Len(cs) >= n
  THEN OutOfSpace(w \o SubSeq(cs, 1, n))
  ELSE /\ b' = w \o cs /\ left' = n - Len(cs)
       /\ stack' = s /\ depth' = d /\ tc' = k
       /\ UNCHANGED <<job, str, pc, ret, sexp_errno>>

Overrun ==
  /\ pc' = "undefined"
  /\ UNCHANGED <<job, str, stack, depth, tc, b, left, ret, sexp_errno>>

(* copy_sexp for the head of the expression, which has no memory to copy    *)
(* for a binary atom of length 0 and reports that as SEXP_ERR_MEMORY, and   *)
(* make_stack.                                                              *)
CannotStart == sexp_errno' = "MEMORY" /\ ret' = -1 /\ pc' = "done"
EmptyBinary(x) == x.ty = "VALUE" /\ x.aty = "BINARY" /\ x.val = << >>

(* The terminator for NULL is written before the size is looked at. *)
print_sexp ==
  /\ pc = "call" /\ job.fn = "print_sexp"
  /\ UNCHANGED <<job, str, depth, tc, b, left>>
  /\ \/ /\ job.sx = << >> /\ job.size >= 1
        /\ pc' = "done" /\ UNCHANGED <<stack, ret, sexp_errno>>
     \/ /\ job.sx = << >> /\ job.size < 1
        /\ pc' = "undefined" /\ UNCHANGED <<stack, ret, sexp_errno>>
     \/ /\ job.sx # << >> /\ job.size < 1
        /\ pc' = "done" /\ ret' = -1 /\ UNCHANGED <<stack, sexp_errno>>
     \/ /\ job.sx # << >> /\ job.size >= 1
        /\ CannotStart /\ UNCHANGED stack
     \/ /\ job.sx # << >> /\ job.size >= 1 /\ ~EmptyBinary(job.sx[1])
        /\ pc' = "print" /\ stack' = <<job.sx>> /\ UNCHANGED <<ret, sexp_errno>>

PrintClose ==
  /\ pc = "print" /\ stack # << >> /\ Top = << >>
  /\ Add(b, left, Closed.text, Closed.stack, Up, 0)

PrintAtom ==
  /\ pc = "print" /\ Text
  /\ \/ tc = 0 /\ Add(b, left, Opening, stack, depth, 1)
     \/ tc \in 1..Len(Top[1].val) /\ Add(b, left, Character, stack, depth, tc + 1)
     \/ tc = Len(Top[1].val) + 1 /\ Add(b, left, Ending, Advance(stack), depth, 0)

(* The size and the bytes are tested against what is left before they are   *)
(* written, the blank that follows only after it was.                       *)
Fits_OneLess(n, room) == n <= room + 1    \* mutant
Fits(n, room) == n <= room
PrintBinary ==
  /\ pc = "print" /\ Bytes
  /\ LET val == Top[1].val
         room == left - 3 - Len(Size)
     IN  IF left <= 3 THEN OutOfSpace(b)
         ELSE IF room <= 0 THEN OutOfSpace(b \o Prefix)
         ELSE IF ~Fits(Len(val), room) THEN OutOfSpace(b \o Prefix \o Size)
         ELSE IF room <= Len(val) THEN Overrun
         ELSE Add(b \o Prefix \o Size \o val, room - Len(val),
                  <<"sp">> \o Blank(Tail(Top)), Advance(stack), depth, 0)

PrintList ==
  /\ pc = "print" /\ At("LIST")
  /\ Add(b, left, <<"lp">>, Opened, depth + 1, 0)

(* Lists still open are closed here; none is. *)
PrintEnd ==
  /\ pc = "print" /\ stack = << >> /\ depth = 0
  /\ pc' = "done" /\ ret' = job.size - left
  /\ UNCHANGED <<job, str, stack, depth, tc, b, left, sexp_errno>>
-----------------------------------------------------------------------------
(* print_sexp_cstr.  b is the string _s, or NULL once an addition failed;   *)
(* the string itself is then out of reach.                                  *)
print_sexp_cstr ==
  /\ pc = "call" /\ job.fn = "print_sexp_cstr"
  /\ UNCHANGED <<job, str, depth, tc, left>>
  /\ \/ /\ job.sx = << >>
        /\ pc' = "done" /\ ret' = -1 /\ UNCHANGED <<stack, b, sexp_errno>>
     \/ /\ job.sx # << >>
        /\ CannotStart /\ UNCHANGED <<stack, b>>
     \/ /\ job.sx # << >> /\ ~EmptyBinary(job.sx[1])
        /\ pc' = "cstr" /\ stack' = <<job.sx>> /\ ret' = ret
        /\ \/ b' = (IF str = NULL THEN << >> ELSE str) /\ UNCHANGED sexp_errno
           \/ str = NULL /\ b' = NULL /\ sexp_errno' = "MEMORY"    \* snew failed

(* sadd and saddch for the characters cs. *)
Sadd(cs, s, d, k) ==
  /\ stack' = s /\ depth' = d /\ tc' = k
  /\ UNCHANGED <<job, str, pc, left, ret>>
  /\ \/ b # NULL /\ b' = b \o cs /\ UNCHANGED sexp_errno
     \/ b # NULL /\ cs # << >> /\ b' = NULL /\ sexp_errno' = "MEMORY"
     \/ b = NULL /\ b' = NULL /\ UNCHANGED sexp_errno

CstrClose ==
  /\ pc = "cstr" /\ stack # << >> /\ Top = << >>
  /\ Sadd(Closed.text, Closed.stack, Up, 0)

CstrAtom ==
  /\ pc = "cstr" /\ Text
  /\ \/ tc = 0 /\ Sadd(Opening, stack, depth, 1)
     \/ tc \in 1..Len(Top[1].val) /\ Sadd(Character, stack, depth, tc + 1)
     \/ tc = Len(Top[1].val) + 1 /\ Sadd(Ending, Advance(stack), depth, 0)

CstrBinary_NoBlank ==    \* mutant: no blank after the data
  /\ pc = "cstr" /\ Bytes
  /\ Sadd(Prefix \o Size \o Top[1].val \o Blank(Tail(Top)), Advance(stack), depth, 0)
CstrBinary ==
  /\ pc = "cstr" /\ Bytes
  /\ Sadd(Prefix \o Size \o Top[1].val \o <<"sp">> \o Blank(Tail(Top)),
          Advance(stack), depth, 0)

CstrList ==
  /\ pc = "cstr" /\ At("LIST")
  /\ Sadd(<<"lp">>, Opened, depth + 1, 0)

CstrEnd ==
  /\ pc = "cstr" /\ stack = << >> /\ depth = 0
  /\ pc' = "done" /\ str' = b /\ ret' = IF b = NULL THEN 0 ELSE Len(b)
  /\ UNCHANGED <<job, stack, depth, tc, b, left, sexp_errno>>

Next ==
  \/ print_sexp \/ PrintClose \/ PrintAtom \/ PrintBinary \/ PrintList \/ PrintEnd
  \/ print_sexp_cstr \/ CstrClose \/ CstrAtom \/ CstrBinary \/ CstrList \/ CstrEnd

Spec == Init /\ [][Next]_vars
-----------------------------------------------------------------------------
(* print_sexp writes nothing outside the buffer it was given (sexp.c:84).   *)
InsideBuffer == pc # "undefined"

(* As long as it runs print_sexp knows how much of the buffer is left and   *)
(* keeps room for the terminator.                                           *)
BufferCounted == pc = "print" => left >= 1 /\ Len(b) + left = job.size

(* Both printers keep one level per open parenthesis and one for the whole, *)
(* so that they never look below an empty stack and end with every          *)
(* parenthesis closed: the loops that close what is left open do nothing.   *)
ParensMatchLevels ==
  pc \in {"print", "cstr"} =>
    \/ stack = << >> /\ depth = 0
    \/ Len(stack) = depth + 1 /\ \A i \in 1..depth : stack[i] # << >>
=============================================================================
