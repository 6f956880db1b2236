# Verification of sfsexp

sfsexp (the "small, fast s-expression library") parses s-expressions from C
strings that may arrive in pieces, builds trees of `sexp_t`, and prints, copies
and searches them.  This directory holds TLA+ models of it, the TLC runs that
check them on small instances and TLAPS proofs for all instances.  Line numbers
are those of `src/src/`.

## Inventory

| part | state | operations | hard about it |
|---|---|---|---|
| parser (`parser.c`, `cparse_sexp`) | a continuation `pcont_t`: DFA state, depths, flags, atom buffer, binary buffer, stack of `parse_data_t` | parse a chunk; return an expression, an error or "incomplete" at any point and be resumed | save and restore in the middle of every token; buffer growth, in nine copies of the code; ownership of buffers and elements when one allocation of several fails |
| wrappers (`iparse_sexp`, `parse_sexp`, `init_continuation`, `destroy_continuation`) | none of their own | make and destroy a continuation, pop one expression | destroying a half-built expression |
| faststack (`faststack.c`) | doubly linked levels, `top`, `bottom`, `height` | make, push, pop, destroy | levels above the top are recycled; two tests for emptiness |
| element caches (`parser.c` 95-318) | two global faststacks, or nothing in the default build | allocate, deallocate, cleanup | a failing push replaces the cache by NULL |
| trees (`sexp.c`) | `sexp_t` linked by `list` and `next` | constructors, `destroy_sexp` | which buffer an atom owns |
| printing (`sexp.c`, `print_pcont`) | a position in a bounded buffer, or a CSTRING | `print_sexp`, `print_sexp_cstr` | truncation in the middle of any construct; round trip with the parser |
| event parser (`event_temp.c`) | the parser's, without the tree | `eparse_sexp` | a second copy of the DFA |
| CSTRING (`cstring.c`) | base, len, curlen | snew, sadd, saddch, strim, sempty, sdestroy | growth at the boundary, failure of realloc |
| I/O wrapper (`io.c`) | a continuation, a buffer, a byte count | `read_one_sexp` | stale `lastPos` and `cnt` after an incomplete read, failing reads |
| memory limiter (`sexp_memory.c`) | used and maximum bytes | malloc, calloc, realloc, free with sizes | unsigned arithmetic, sizes that must match |
| tree operations (`sexp_ops.c`) | none | find, breadth-first find, length, copy | copying after a failed allocation |

The parts interact by calls only; the library starts no threads, and a
continuation is used by one thread at a time.  What is concurrent is the
division of the input: the caller decides where a chunk ends, so a call may
return, and the next one resume, between any two characters.  Allocation may
fail at any call of malloc, calloc or realloc.

## Modules

* `Registers.tla` is what the two parsers share: the characters they distinguish,
  the registers a continuation saves, and the code that stores a character in the
  atom buffer and lets it grow.
* `Parser.tla` models `cparse_sexp` together with its caller.  `rg` holds the
  local registers that a continuation saves, `cc` the continuation, `stack` the
  `parse_data_t` levels, `heap` and `live` the `sexp_t` elements.  One iteration
  of the main loop is one step: `Case1` to `Case15` are the cases of the switch
  (8 falls through to 9 and is one action with it), `LoopExit` is the code after
  the loop, `Return` is SAVE_CONT_STATE.  The caller's actions are
  `NewContinuation` (`init_continuation`), `Call`, `CallNull`, `Take`
  (`iparse_sexp` handing over the expression, then `destroy_sexp`) and
  `DestroyContinuation`.  `Undefined` stands for what C leaves undefined: a write
  before the atom buffer, a pop of an empty stack, reading past the text.
  Characters are classes: each one the parser distinguishes has a name
  (`lp`, `rp`, `dq`, `sq`, `bs`, `semi`, `hash`, `b`, digits, `nul`), the others
  are `a` (legal in atoms) and `ctl` (not).  White space is `sp` and `nl`.
  `blocks`, `events` and `out` are ghosts: how many buffers and records are
  allocated, the handler calls made, the expressions delivered.  A continuation
  in error is not resumed, as the comment of `pcont_t.error` says of it, except
  after a NULL string; what the registers are after SEXP_ERR_MEMORY is therefore not
  followed.  The test of the loop (`Running`) looks at the character before it compares
  `t` with `bufEnd`, as in the code; whatever byte stands at `bufEnd`, the loop ends.
  In the model event handlers are always installed.
* `SexpGrammar.tla` is the reference: the expressions of a whole text by recursive
  descent, with no states, chunks or buffers, and the events of a list of trees.
  It is for TLC only (it is recursive).
* `EventParser.tla` models `eparse_sexp`, the parser of mode PARSER_EVENTS_ONLY,
  with the same caller.  It differs from `Parser` in what it keeps: no tree, one
  buffer for all atoms, a count (`height`) in place of the stack, and returns that
  each save a different set of fields (`KeepsSquoted` is what those of case 3
  forget).  A failed realloc is an assertion (`aborted`).  Its copies of states 12
  to 15 are left out: they are entered in INLINE_BINARY mode only, in which
  `cparse_sexp` does not call it.
* `Wrappers.tla` composes the steps of `Parser` with two callers of their own:
  `parse_sexp`, which parses a line end after an atom that nothing follows
  (`Blank`) and keeps `last_sexp` when it destroys the continuation (`Finish`), and
  `read_one_sexp`, whose steps are its two calls of `cparse_sexp` and what comes
  between them: `Rest` (what is left of the buffer), `Read`, `ReadNothing`,
  `ReadError` or `Again` (the buffer that is parsed), `Judge` (the test of the loop).
  `text` is what was ever written to `iow->buf`, with zeros behind, so that what a
  read of one byte leaves of an earlier read of three is there.  A read gives any
  number of bytes up to BUFSIZ, nothing at the end of the file, or an error, which
  is cast to `size_t`.  `read_one_sexp` calls the parser again after every error, so
  `WrapperFaults` assumes that no allocation inside `cparse_sexp` fails (that of the
  continuation may).  The ghost `clean` says that no call met an error or a lack of
  data so far.
* `MemoryLimit.tla` models `sexp_memory.c`: each function is an operator from the
  bytes in use to the possible values after it, in `size_t` arithmetic.  `CString.tla`
  (`cstring.c`) and `ElementCache.tla` (both caches of `parser.c` in the build with
  memory management, the constructors and `destroy_sexp` on one element) are its
  clients, `Memory.tla` puts them together under one limit that the caller moves.
  `lost` is a ghost: bytes that nothing refers to any more.  The data of a binary
  atom comes from `sexp_malloc`, as `destroy_sexp` gives it to `sexp_free`.  A
  request beyond `SizeRange` is one that malloc refuses.
* `Expressions.tla` says what finished expressions are: a set `Tree` that holds the parts
  of its members, and a `Height` that decreases from a list to its contents.
* `Printer.tla` models `print_sexp` and `print_sexp_cstr`: the walk with its stack, one
  iteration of the loop per step (one character per step within an atom), the
  macros `add_char_break_full` and `out_of_space` (`Add`, `OutOfSpace`), and CSTRINGs
  as sequences whose growth may fail (`Sadd`).  A level of the stack is the rest of a
  list.  Push is taken to succeed.  `PrintedText.tla` defines what they should write, by
  the structure of the expression, and compares.
* `SexpOps.tla` holds `find_sexp`, `bfs_find_sexp` and `copy_sexp` as recursive functions;
  a pointer to an element is its path, a copy is the set of its elements with their
  paths.  The answers of `copy_sexp` to malformed atoms, which have a size but no data
  (SEXP_ERR_BADCONTENT, sexp_ops.c:159-163, 188-192) or no `val` (197), are left out: `Tree`
  has no such atoms.  `Operations.tla` adds the calls of them, with the name or the refused allocation,
  to those of `Printer`, and says what the answers mean.
* `MCTexts.tla` holds the texts and cuts that both parsers are run on, `MCParser.tla`,
  `MCEventParser.tla` and `MCWrappers.tla` the rest and the properties that need the
  grammar; `MCPrinter.tla` the expressions to print, search and copy, and the
  round trip through the grammar; `MCMemory.tla` sizes.
* `FastStack.tla` models `faststack.c` with its linked levels; `destroy_stack` is
  one step per loop iteration.  `Stack.tla` is the abstract stack that
  `faststack.h` promises; `FastStack` implements it (`ImplementsStack`).
* `ParserProofs.tla`, `TreeProofs.tla`, `WrappersProofs.tla`, `EventParserProofs.tla`,
  `FastStackProofs.tla`, `MemoryProofs.tla` and `PrinterProofs.tla` hold the theorems,
  `RegistersProofs.tla` the lemmas about registers that the parsers share.

Definitions named `X_Something` next to `X` are the mutated forms that show a
property is sensitive to the code it is about.

## Runs

| run | configuration | shows |
|---|---|---|
| `syntax` | `ParserSyntax.cfg` | Over every word of six characters of `( ) space a`, of five with quotes, of five with comments, and four with backslashes in and outside a list, every way to cut it (not right after an escaped character, see `overrun`) and NULL-string calls at any point: `DeliversGrammar`, `EventsMirrorTrees`, `AtomBufferInBounds`, `InsideChunk`, `QuoteDepthMatches`, `TypeOK` |
| `faults` | `ParserFaults.cfg` | INLINE_BINARY mode, texts with blobs of 0 to 2 bytes (NUL, `)`, `\` and `#` among the bytes) and almost-prefixes, every word of four characters in a list; every allocation but that of a stack level may fail, only six elements exist, the continuation may be destroyed between any two calls: `DeliversGrammar`, `EventsMirrorTrees`, `OwnedOnce`, `BlocksAccounted`, `StackShape`, `FullExpression`, and `EveryCallReturns` under fairness |
| `events` | `EventParser.cfg` | The texts and cuts of `syntax` without single-quoted atoms or strings in a list (see `event_squote`), memory that may run out: `EventsMatchGrammar`, `HeightAgrees`, `AtomBufferInBounds`, `TypeOK` |
| `faststack` | `FastStack.cfg` | Three levels, two data values, every sequence of operations: `ImplementsStack` and the invariants behind it, `DestroyEnds` under fairness |
| `wrappers` | `Wrappers.cfg` | Every string and every file of five characters of `( ) space a "`, reads of one to three bytes in every combination, failing reads, three calls: `ParsesFirst`, `DeliversUntilError`, `ReadsOnce`, `BlocksAccounted`, and `CallsEnd` under fairness |
| `memory` | `Memory.cfg` | Blocks of one to three bytes under limits of 6 and 11, moved at any time, every allocation refused at will, two elements and two records: `WithinLimit`, `UsedIsHeld`, `OwnedOrCached`, `TerminatorInside` |
| `printing` | `Printer.cfg` | Every list of up to two of eight atoms, every list of lists of three of them and some deeper ones (in a few a deeper match comes before a shallower one), every buffer from 0 to 20 bytes, NULL with and without a buffer, CSTRINGs new, empty and used: `PrintsText`, `OutsideOnlyAtEdges`, `BufferCounted`, `ParensMatchLevels`, `AddsText`, `RoundTrip` (through `SexpGrammar`), `FindsFirst`, `BfsFindsInOrder`, `CopiesOrReports` with each allocation refused in turn |
| `overrun` | `ParserOverrun.cfg` | violation of `InsideChunk` |
| `top_binary` | `ParserTopBinary.cfg` | violation of `DeliversGrammar` |
| `event_squote` | `EventQuote.cfg` | violation of `EventsMatchGrammar` |
| `io_reparse` | `WrappersSplit.cfg` | violation of `DeliversFile` |
| `print_overrun` | `PrinterEdge.cfg` | violation of `InsideBuffer` (of `Printer`) |

Bounds.  Texts of six characters contain every pair of adjacent tokens, nesting of
depth three and every token cut at every place; the atom buffer starts at one or
two bytes and grows by one, so that growth happens at nearly every character;
`UIntRange` is 16, more than any `qdepth` reached, and the mutants of the
invariants show that the cases happen.  Six elements are enough for every text of
`syntax`, nine for `wrappers`; in `faults` an allocation fails with and without them.  In `wrappers` the buffer of three
bytes divides every file of five at least once, and three calls follow an error by
two more.  In `memory` the limits are a few blocks, so that each call meets its
refusals; `SizeRange` is 16, so that subtraction wraps.  In `printing` a buffer of 20
bytes holds the longest text but the few that are longer, which are then cut.

Fairness.  `EveryCallReturns` assumes weak fairness of the parser's own steps:
`cparse_sexp` is sequential code that runs once it is called.  Nothing is assumed
of the caller.  `DestroyEnds` assumes the same of the loops of `destroy_stack`, and
`CallsEnd` of the parser's and the wrappers' steps once a call was made: a read
returns, with data, at the end of the file or with an error, but which it is, and
whether another call is made, is left open.

## What the violations mean

* `overrun`: in case 5 (1088-1101) the character after an escaped one is examined
  without testing for the end of the chunk.  If the chunk ends there the parser
  reads beyond it, and as `t` is then past `bufEnd`, which the loop only compares
  with `!=`, it goes on to the next NUL.  With chunks adjacent in memory text is
  parsed twice.
* `top_binary`: case 15 drops a binary atom that is not in a list unless the chunk
  happens to end there.
* `event_squote`: in `event_temp.c` the returns of case 3 do not write
  `cc->squoted` (260-314) and case 5 does not reset it in a list (474-501); later
  atoms are reported as single-quoted.
* `io_reparse`: a call of `read_one_sexp` whose read ends inside an expression returns
  NULL with SEXP_ERR_INCOMPLETE and leaves `cnt` as it is; the next call parses the
  same bytes again (io.c:107-116).  `ReadsOnce` says why the loop below (118-133) does
  not help: the parser never gives SEXP_ERR_OK without an expression.
  `DeliversUntilError` is what remains true: up to the first NULL the expressions
  are those of the file, however the reads divide it.
* `print_overrun`: binary data that ends exactly at the end of the buffer is followed
  by a blank outside it (sexp.c:231-241), and `left` wraps; a binary atom outside any
  list, printed into three bytes or less, puts the terminator before the buffer
  (243).  `OutsideOnlyAtEdges` says that these are the only cases, but for NULL without a
  buffer (below).

Disagreements that have no run:

* the loop of `cparse_sexp` tests `t[0]` before it compares `t` with `bufEnd`
  (parser.c:744, 1664, 1682): at the end of every chunk the byte after it is read, which is
  one past `iow->buf` when a read fills it; its value decides nothing;
* `print_sexp` writes the terminator for NULL before it looks at the size (sexp.c:125-134),
  also when the size is 0;
* `read_one_sexp` calls `cparse_sexp` again after SEXP_ERR_MEMORY (io.c:95-116), with a
  continuation whose atom buffer may be NULL or have moved;
* an atom in a list that ends with a backslash (`(a\ "x")`) leaves `esc` at 1
  (parser.c:1033-1052), and the next string starts as if escaped;
* case 2 does not look at the result of `push` (parser.c:872, 890), nor do the
  printers (sexp.c:158, 269), which then open the same list again and again;
* a call with a NULL string does not set `sexp_errno` (parser.c:681, against NOTE2 at
  644);
* when realloc fails for the first character of an atom, val is lost (parser.c:816-824,
  only with a start size of 1 or after a token that left `val_used` behind);
* a negative size of binary data is reported as SEXP_ERR_MEMORY and not as
  SEXP_ERR_BADCONTENT (parser.c:1548, sexp_errors.h:78);
* after SEXP_ERR_BADFORM `lastPos` still points at the parenthesis;
* the length given to the `characters` handler, "the number of elements the atom
  contains" (sexp.h:354), counts the terminator and every escaping backslash, but not
  the terminator of a quoted list;
* `bfs_find_sexp` searches the lists of a list one after the other, each to its depths;
  sexp_ops.h:96 promises "the instance with the lowest depth".  In `(((a)) (a))` the
  first `a` is returned; `BfsFindsInOrder` says exactly which atom it is;
* `copy_sexp` takes a binary atom of length 0 for a refused allocation and ends the
  list there (sexp_ops.c:178), with SEXP_ERR_MEMORY set and the rest returned;
* `print_sexp_cstr` returns 0 when a CSTRING cannot grow, and the string is lost;
* the printers release their copy of the head of an expression with
  `sexp_t_deallocate`, which does not free the data of a binary atom;
* a push that fails in `sexp_t_deallocate` or `pd_deallocate` replaces the cache by NULL
  (parser.c:197, 311), and `sexp_cleanup` cannot release it (`lost` in `ElementCache`);
* SEXP_ERR_MEM_LIMIT is always overwritten by SEXP_ERR_MEMORY;
* a failed read is taken for a number of bytes (io.c:108; sexp.h:557 "If it is -1, there
  was an error"), and a NULL continuation is followed (io.c:118);
* atoms that are not double-quoted are printed without escapes and need not parse
  back.

## Proofs

`FastStackProofs`, for every set of levels and data.  `IInv` says that the
allocated levels form a chain without repetition, linked both ways, with `bottom`
first and `top` at position `height`; during `destroy_stack` the pointer `sl` is
in the chain, and at its end on the way down.  None of the other invariants is
inductive without the chain.  From it follow `FastStackTypeOK`,
`FastStackEmptiness`, `FastStackRecycles`, `FastStackNoDangling`, and
`FastStackImplements`: the contents of the abstract stack are the data of the
first `height` levels of the chain, every step of the detailed specification is a
step or a stutter of the abstract one.

`ParserProofs`, for all texts, cuts, buffer sizes (positive, as
`set_parser_buffer_params` requires), elements, modes and faults, push included.
`BufferInv` joins the types of control and tree with the bound on the atom buffer
wherever the registers are at the moment (in the loop or saved), and with the
registers being those of `init_continuation` before the first call.  From it
follow `ParserTypeOK` (in particular the state is always one the switch has a case
for) and `ParserAtomBufferInBounds`.  The argument is one lemma per case of the
switch; those of the nine copies of the growth code rest on one lemma (`PutGood`).
`StepKind` then sorts the steps of the loop, all but the two parentheses and the end of
the chunk, into four kinds (go on with the tree untouched, return without an expression,
make an atom, run into something undefined), and the proofs of `TreeProofs` go by kind and
not by case.

`TreeProofs`, for all texts, cuts, buffer sizes and elements, and for the failure of every
allocation but that of a stack level (`~May("push")`): case 2 does not look at the result
of `push`, and goes on with a level that is not there.
* `StackInv` is `StackShape` with two additions.  The levels end in different elements:
  without that, linking an element to the top level could fill the list that a level
  below waits to fill.  And whenever an expression waits to be taken the stack is empty
  (`Handover`), which `FullExpression` does not say by itself.  From it follow
  `ParserStackShape`, `ParserFullExpression` and `ParserNeverBadStack`, a fact no run
  checks: the inconsistency that case 3 tests for does not occur.
* `OwnInv` says that every element in use is held by exactly one place (`Owned`; a place is
  the `next` or `list` of an element, the first of a level, or `last_sexp`), and that
  pointers lead from elements to later ones in some order (`Ordered`, the order of
  allocation).  The order is what makes `destroy_sexp` free the right elements: `Reach` is
  a recursive function, and only where pointers do not turn back does its recursion have
  one solution, the least set that holds the first element and is closed under `next` and
  `list`.  A closed set that leaves something out has a least element outside it, and its
  one holder gives the contradiction.  The result is `ParserOwnedOnce`, for NORMAL mode: in
  INLINE_BINARY mode a binary atom outside any list is dropped when something follows
  it (`top_binary`), and with it its element.
* `BlockInv` adds the count of blocks, as a cardinality over the elements in use.
  `ParserBlocksAccounted` needs `FirstFits` too: either realloc does not fail or the start
  size is more than 1, since case 1 overwrites `val` with the NULL of a failed realloc.
* `PlaceInv` relates the registers to the position in the text, in the loop and between
  calls.  A backslash escapes if it is an odd one of its run (`Escapes`).  In an atom or a
  string `esc` is set exactly if the character before `t` escapes, and that character has
  been stored; between atoms `esc` is clear and no escape comes before `t`; the position
  is in the chunk or at its end.  The result is `ParserInsideChunk`, in NORMAL mode and for texts and
  cuts that are `WellEscaped`: no NUL inside, no escape before white space or a control
  character, no chunk that ends right after an escaped character.  The first is what a C
  string is, the others are the two mistakes listed above (`(a\ "x")` and `overrun`); with
  them the theorem is false.  `SyntaxAssumption` of `MCParser` has TLC check that the texts
  and cuts of `syntax` are `WellEscaped`.

`WrappersProofs`: `WrappersReadOnce`, if no allocation inside `cparse_sexp` fails
(`WrapperFaults`).  `read_one_sexp` goes on parsing after every error and gives the parser
the same bytes twice, a caller that `ParserProofs` does not cover, so nothing shown there
about registers is used.  `ReadInv` speaks of elements and levels only.  The first level of a
stack that is not empty has a first element, and where `elts` was counted with the stack
empty there is an element to return.  That is enough for `cparse_sexp` never to answer
SEXP_ERR_OK without an expression, whatever state its switch is in.

`EventParserProofs`, for all texts, cuts and buffer sizes.  `EventInv` joins
`TypeOK`, `HeightAgrees` and `AtomBufferInBounds`: the height decides whether an atom
is returned on its own, and the depth whether a closing parenthesis is refused, so
that neither count is known to stay at or above zero without the other.  From it
follow `EventParserTypeOK`, `EventParserHeight` and `EventParserBuffer`.  `Fit(r, d)`
says that registers are sound and at depth `d`; every case of the switch but 2 and 3
keeps the depth.

`MemoryProofs`, for all block sizes, limits, start and growth sizes.  `MemoryInv` joins
`LimitInv` (what is in use is a number up to the limit), `StringInv` (`TerminatorInside`
and the growth size being positive) and `CacheInv` (`Apart`: what is in a cache is
there once and with no client).  `WithinLimit` needs no knowledge of sizes: a granted
request is tested in the same arithmetic in which it is counted, and `sexp_free` never
goes below zero.  That the count is also the truth is `MemoryUsedIsHeld`, with no
hypotheses.  `CountInv` adds to `UsedIsHeld` that the limit is below `SizeRange`, that the
sets of objects held are finite, that a cache which was not made yet is empty and that no
buffer hangs on an object that nobody holds; with these every sum and difference of the
limiter is exact, since what is freed or resized is part of what is held.  The sum over
the objects held is `SumFunctionOnSet`, whose result for a set with one element more or
less is proved first (`SumRemove`), by a least counterexample in place of an induction.

`PrinterProofs`, for all expressions, however deep, and all buffer sizes.  `PrinterInv` joins
the shape of the walk (every level of the stack is a sequence of expressions; as many levels
as open parentheses and one more, each below the top inside a list) with the count of
what is left.  From it follow `PrinterBufferCounted`, `PrinterLevels` and, if no
expression has a binary atom and NULL comes with a buffer of at least one byte,
`PrinterInsideBuffer`; with binary atoms it is false (`print_overrun`), and for NULL
with size 0 as well.  The other theorems compare with definitions by recursion over
sequences of expressions.
* Recursion.  A recursive function in TLA+ is a CHOOSE, and that a function with these
  equations exists has to be shown first.  `RecursionSolved` does it with the least
  relation that is closed under the equations; `ForestSolved` and `ForestGiven` are its
  forms for sequences of expressions.  That the relation is a function, and every fact about
  all expressions, is shown of a least counterexample (`LeastForest`: neither the
  contents of its first expression nor its rest is one), which exists by
  `HeightAssumption`.
* `TextInv`: what was written, followed by what the levels of the stack still owe (the rest
  of the atom at hand, a blank and the rest of each list, its parenthesis), is the whole
  text.  The walk is an explicit stack and the text a recursion, so this is the statement
  that they agree at every step, not only at the end.  From it follow `PrinterPrintsText`
  and `PrinterAddsText`.
* `EdgeInv`: the sizes at which what remains would leave the buffer, counted from the
  position reached, are among those of the whole expression.  From it follows
  `PrinterOutsideOnlyAtEdges`: outside at those sizes only, and at 0 for NULL.  That it
  does leave the buffer at each of them is not stated.
* `FindSexpFindsFirst`, `BfsFindSexpFindsInOrder` and `CopySexpCopiesOrReports` are about
  `OpsSpec`.  The elements of a sequence are the first one, those of its contents and those
  of the rest (`Elements`), and the lemmas say how `Before`, `Sooner` and `Encloses` compare paths
  between these parts.

These theorems rest on the assumptions of `Expressions` (an atom has no contents), `Printer`
(`Char` has the marks and the digits, a call prints one expression or none) and `Operations`,
all of which TLC evaluates for `printing`.

Only model-checked:
* that `qdepth` counts the open parentheses of a quoted list (`QuoteDepthMatches`): its
  reference counts over the collected text, an induction over data;
* what the parsers deliver (`DeliversGrammar`, `EventsMirrorTrees`, `EventsMatchGrammar`),
  what the wrappers make of it (`ParsesFirst`, `DeliversUntilError`), and `RoundTrip`: they
  compare with `SexpGrammar`, whose RECURSIVE operators no module with a theorem may reach;
* liveness (`EveryCallReturns`, `DestroyEnds`, `CallsEnd`), out of the prover's reach.

## Not modelled, and what is left

Left out for good: `sexp_vis.c` (writes a file), the examples and the language
bindings (clients), wording of messages; `sexp_list_length` and the getters, which
only read; `set_parser_buffer_params`, whose result is the constants `StartSize` and
`GrowSize` (it sets the start size before it refuses a growth size of 0);
`print_pcont`, a diagnostic: what it should print of a half-parsed expression is
specified nowhere.  It follows the levels of the stack from the bottom past the top,
so that it prints what earlier expressions left there.

What is left to prove: that the events of the parser are those of the trees it delivers
(`EventsMirrorTrees`), with the events of an expression as a recursive function like the
text of `PrintedText`, and the levels of the parser's stack owing their closing events; and
`DeliversGrammar`, for which the grammar would have to be a recursive function of the
text and its position.
