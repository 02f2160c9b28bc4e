# Verification of Loretta

Loretta compiles Python 3 to JVM class files (C, `src/src`) and brings a runtime
library for the compiled programs (Java, `src/runtime/src`).  This directory holds
TLA+ models of it, the TLC configurations that check them, and theorems about them
that TLAPS checks.

## The system

    source -> Lexer -> Parser -> AST -> Semantic analyzer -> Code generator -> class file
                                                                |
                             stack map tracker, constant pool, class writer, indy sites

    class file -> JVM (verifier, interpreter) -> call sites -> runtime objects

| Component | State | Operations | Correct when |
|---|---|---|---|
| Lexer (`lexer.c`) | position, indentation stack, pending dedents, bracket depth | next token, save and restore the position | INDENT and DEDENT nest as the lines do |
| Parser (`parser.c`) | current token | one function per grammar rule; precedence climbing | the tree is the one the grammar gives |
| Semantic analyzer (`semantic.c`) | scope chain, symbol tables | define, use, resolve free and cell variables | (its result is not used) |
| Functions and closures (`codegen.c`) | captured names, closure array, parameter slots | one method per function and lambda | a name means the same as in Python |
| Code generator (`codegen.c`) | code bytes, labels, loop stack, locals, exception table, tracker | one case per statement and expression | the JVM accepts the code and it does what Python would |
| Stack map tracker (`stackmap.c`) | current locals and stack, list of frames | push, pop, set local, save, restore, record a frame | a recorded frame is true of every path into its offset |
| Attribute writer (`stackmap.c`) | two passes over the frames | size, then write | it fits its buffer and reads back as recorded |
| Constant pool (`constpool.c`) | entries, count, cache of strings | add an entry | indices stay valid and within 16 bits |
| Class writer, indy (`classwriter.c`, `indy.c`) | class, methods, attributes, bootstrap cache | add, serialize | what was added is what is written |
| Driver, data structures (`loretta.c`, `util.c`) | options, lists, tables, buffers | | |
| Futures (`$Future`, `$Async`) | a CompletableFuture and four plain fields | run, await, gather, first, set, cancel | one outcome, the same for everyone |
| Classes, instances (`$Cls`, `$Inst`, `$Prop`, ...) | bases, resolution order, attributes | linearize, look up, set | Python's lookup order |
| Containers, iterators (`$L`, `$D`, `_collections`, ...) | Java collections | the methods of the Python types | Python's results, also while iterating |
| Generators (`$Gen`, `$GE`) | a list, or one prefetched element | next, send, close | elements and effects in Python's order |
| Modules (`$Mod`, `$G`, `$Sys`) | table of modules, globals | import, initialize | code runs once, cycles see what is there |
| Exceptions (`$X`, `$BS`) | type names and classes | match, convert | a handler takes its subclasses |
| Streams, sockets (`_io`, `_socket`, `$File`) | buffers, positions, open or closed | read, write, seek, connect | no byte lost or repeated |
| Numbers, text, system (`$I`, `$S`, `_posix`, `_sre`, ...) | immutable values | | |

The compiler is one thread and keeps nothing between runs.  What makes it hard is
that four descriptions of the same method have to agree: the bytes, the labels that
become offsets, the exception table, and the frames.  They are built by one pass that
walks the statements once; the tracker has the state of *that* walk, and the code
generator saves and restores it wherever control flow differs from the order of the
text.  The JVM reads the result with rules of its own, and rejects the whole class if
one frame is wrong.  Concurrency is in the runtime only: virtual threads that
complete futures which others wait for.

`PROJECT.json` lists every component with its status, and under "hazards" the places
where this can go wrong.

## The modules

| Module | Models | Kind |
|---|---|---|
| `StackMap` | the operations of `stackmap.c` on a tracker, as operators | definitions |
| `StackMapTracker` | a tracker under every sequence of calls | state machine |
| `StackMapPaths` | the tracker with the paths that met at each offset as history | state machine |
| `StackMapTrackerProofs` | the invariants of both for all parameters | proofs |
| `StackMapAttr` | `stackmap_serialize` and a reader of the attribute | state machine |
| `StackMapAttrProofs` | that it fits its buffer and reads back, for all lists of frames | proofs |
| `Emission` | the context of the code generator, and what emits one instruction | definitions |
| `Scopes` | the names a function captures, and whether it is a generator function | definitions |
| `ExpressionLowering` | `codegen_expr`: expressions to code, labels and frames; lambdas to methods | definitions |
| `Lowering` | `codegen_stmts`: statements to code, labels, exception table and frames | definitions |
| `Verifier` | the type-checking verifier of the JVM | external |
| `PythonScopes` | which names are whose, as Python has it | reference |
| `PythonFlow` | what Python promises of the same expressions, statements and functions | reference |
| `Execution` | a class compiled, loaded and run | state machine |
| `ConstPool` | the `cp_add_` functions of `constpool.c` and the written entries, as operators | definitions |
| `ClassPool` | one class under construction: pool, bootstrap table, cache, emitted indices | state machine |
| `ClassPoolProofs` | its invariants for all parameters | proofs |
| `Promise` | what a future promises | abstract specification |
| `Futures` | `$Future`: one step for each access to a field | actions |
| `Async` | `$Async` over `Futures`: run, gather, first | state machine |
| `FuturesProofs` | invariants of `Async`, and that futures completed once implement `Promise` | proofs |
| `Layout` | the loop of `lexer_advance`, and a parser that looks ahead | state machine |
| `PythonLines` | Python's definition of lines, blocks and their tokens | reference |
| `LayoutOfLines` | `Layout` on files of lines | state machine |
| `LayoutProofs` | invariants of `Layout` for all files, and that tokens follow lines | proofs |
| `Expressions`, `Statements` | the functions of `parser.c`, over tokens | definitions |
| `PythonGrammar`, `PythonStatements` | Python's grammar, as sets of phrases with their trees | reference |
| `PythonFiles` | files of statements, and the tokens and tree of each | reference |
| `Reading` | a file read by the parser | state machine |
| `ObjectRequests` | what a program does with objects, and the answers | definitions |
| `PythonObjects` | classes and instances as Python has them | abstract specification |
| `Objects` | `$Cls`, `$Inst`, `$Prop`, `$Super`, `isinstance` | state machine |
| `ObjectsProofs` | invariants of `Objects` for all worlds | proofs |
| `PythonObjectsProofs` | that `Objects` implements `PythonObjects`, for all worlds that are alike | proofs |
| `Recursions` | counting, recursive functions, parts and joins of sequences | proofs |
| `MC...` | instances for TLC | |

**StackMap, StackMapTracker.**  A tracker is a record of the two sequences
`locals` and `stack`, the sequence of recorded `frames`, and the counter `entries`.
Constructors of verification types have the names of `stackmap.c` without the
prefix.  Each function of the file that changes a tracker is an action, with its
arguments from small sets; the saved states that callers hold are a set, so a restore
may come at any time and any number of times.  A pool index is represented by the
class it stands for.  Failed allocations are left out.  `VT_UNINITIALIZED_THIS` is
in `Tags`, but nothing in the compiler creates it.

**StackMapPaths.**  The frame at an offset stands for all paths into it, but the tracker keeps
one list of locals and one stack.  The history variable `paths` has what every call of
`stackmap_record_frame` was made with, and `FramesTrueOfPaths` compares the one with the other:
the frame has the locals of one of its paths, never more of them than another path has, and the stack
of one.  So, where the paths agree on the slots they share, each local of the frame is true of
each path; and where they agree on the exception, it is on the frame as soon as one path has it, whatever
paths with an empty stack come before or behind.  The code compares no types: that the paths of
a compiled program do agree is for the code generator to see to, and is checked there, by the
verifier (`Loads`); some programs in which they do not are in the table of deviations.

**StackMapAttr.**  The first pass adds up the size of each frame, the second writes
fields of known width; the state is the pass, the position in the list, the size and
the fields written.  The reader is that of the class-file format.  The loops over slots
are recursive functions, which give the entries up to each slot (`EntriesUpTo`) and the
running totals (`Sums`).  A number in two bytes is taken modulo 65536.

**Emission, Scopes, ExpressionLowering, Lowering.**  A context has the fields of
`codegen_ctx_t`.  Control is kept whole: each jump, label, frame, save and restore of
the expression and statement cases, in order.  So are the two accounts of the operand
stack, the depth behind `max_stack` and the tracked types, which the code updates
separately and sometimes only one of them: an operator of `Emission` updates what its
function updates, and a case that forgets one is written without it.  An operation of
the runtime, through an invokedynamic site or a method, is one instruction with its
operand and result types; its `id` is the place in the program and the value that
comes out.  A short sequence that always goes together (a literal, a global name, the
call of `__exit__`) is one instruction too, with the room it needs in between
(`HighWater`).  An instruction is one byte long, so offsets are instruction indices.
A function or lambda is lowered in a context of its own, with the names of the contexts
around it (`enclosing`) and those it captures, and becomes one of the `methods` of the
class file, which every context hands on; the code around it makes the closure array,
the function object and the calls of the decorators.

**Verifier, PythonScopes, PythonFlow.**  The verifier has a rule for every error that
generated code can meet, under the message the JVM gives, the operand stack's limit
and two methods of one name and signature included.
`Run(m, statements)` reads the events that Python would produce off a trace, and
computes the values they have: an operation is an event with the values it is applied
to, and so are a truth value and a request for the next item.  It has a scope for each
call of a function, a home for each name by the rules of `PythonScopes`, and cells that
functions share; defaults and decorators are evaluated where Python evaluates them.

**Execution.**  `Compile`, `Load`, then an action per group of instructions.
Truth values, iterators and raising operations choose their outcome freely, and the
trace records it with the operands; so a state is one path of one program.  A call of
a function object enters its method (`CallFunction`), with the closure array and the
arguments in its first locals, and `Return` and exceptions leave it: an exception unwinds
`callers` until a handler covers the call.  A call with the wrong number of arguments
fails as the method handle does, with an exception no Python handler names.  A value is
the name of the place it comes from, so a wrong operand, a swapped pair, or an operand
evaluated twice shows as a trace that Python does not have.

**ConstPool, ClassPool.**  A pool is a record: the `entries` (an index below the
count that holds nothing is the second half of a long or double), the `capacity`, the
`cache` of texts, the `spare` calls of realloc that still succeed, the `index` that the
last operation returned, and `looping`.  `cp_ensure_capacity` doubles a 16-bit number:
`CountLimit` stands for 65536, `Doubled` wraps there, and a capacity of zero makes the
loop endless, which `looping` records.  Nested additions (a member is a class, a name and
type and up to four texts) are composed as in the code, tests of an index for 0
included where the code makes them and left out where it does not.  An action of
`ClassPool` is one call that the generator makes (`emit_ldc_string`, `emit_getfield`,
`indy_emit_operation`, ...), and remembers what was asked for with the emitted index.
Texts are abstract, so two equal texts are one value; modified UTF-8 is not modelled.

**Promise, Futures, Async.**  `Promise` is what asyncio documents and users rely on:
one outcome, told to everyone.  `Futures` has the CompletableFuture (`cf`) and the plain
`fields` of each `$Future`; a call of a thread is at a place `at`, named for the
statement that comes next, and each read or write of a field is one step.
`Buffered` chooses what a plain write means: at once visible, or held in `stores` and
made visible to other threads in any order, until the thread completes a
CompletableFuture.  That is part of what the Java memory model allows, without reads
that go back to older values.  `Async` adds coroutines that end with any outcome, and
gather and first as single steps once their wait is over, since from there on they
read completed futures only.  `first` may return any completed item: between a
completion and anyOf another completion can overtake.  A cancellation comes out of
`get` as the Java exception, which no handler of a compiled program takes
(`GetCancelled`).  `Promise` sees the CompletableFutures as outcomes and each
thread's current `get` as its question (`P` in `Async`).

**Layout, PythonLines, LayoutOfLines.**  A file is a sequence of symbols: a run of blanks with its
characters, a line end (CR and LF apart), a bracket, a comment, a backslash, or a word,
which is every other token.  A step is one turn of the loop of `lexer_advance`, so a
turn that moves nothing is seen as a loop.  `Take` is the parser moving on.
`LookAhead` saves the position behind a word, as `parse_primary` does for
`name=value` and `is_comparison_op` for `not in`; the parser then goes back or, at a
keyword argument, on.  As in the code a saved position has the depth of the indentation
stack but not its entries.  `taken` and `open_blocks` are history.  `PythonLines`
defines the text and the tokens of a sequence of lines from the language reference: a line
is in the blocks of the earlier lines that nothing less or equally indented separates
from it.  A line has any run of blanks, any body, and an LF, a CRLF or, if it is the last, no
end; the body contains the line ends of the lines that are joined.  `IsFile` says which sequences
of lines are meant: a body begins with a word or bracket, closes its brackets, has a line end only
inside of brackets or behind a backslash, and a comment or backslash only in front of a line end.
Files that Python refuses for other reasons are among them (a bracket that was not open, a line
indented to no block, or to a block that it is in only if a tab has eight columns); those with
an open bracket at the end or a stray backslash are not.  For the last two of these the
definition has an `ERROR` and a `TabError` token (`IsConsistent`, `DependsOnTabs`), and
the end of a file ends a logical line as a line end does.  The code has neither a `TabError`
nor that last NEWLINE.  So `TokensFollowLines` claims what comes before the first error,
and is claimed where each logical line has a line end (`LinesEnd`); the parser shows what
becomes of other files (`parser.c:1801`, among the deviations below).
`LayoutOfLines` assumes `IsFile` of every file and states `TokensFollowLines`.  A backslash in
front of CRLF is not among them either: Python joins such lines, the code joins lines behind a backslash and
LF only (`lexer.c:760`), and gives an error token for the backslash.

**Expressions, Statements.**  Each function of the parser takes a position and gives
the node, the position behind it, and whether there was an error.  All atoms are one
name, and operators of one precedence one token, except that `-` is both a sign and an
operator, `not`, `is` and `in` form four comparisons, and `if`, `in`, `:`, `*`, `**`,
`(` and `[` keep all of their uses.  The parser takes the keywords, indents and line
ends of statements as tokens.

**PythonGrammar, PythonStatements, PythonFiles, Reading.**  The phrases of each size
are derived from the rules of the language, each with its tree; the rules are left
recursive and have no powers, where the parser loops and compares powers.
`PythonStatements` puts the phrases in every position of a statement, and
`PythonFiles` puts statements next to and inside of each other.  `Reading` reads one
file in one step, and the groups of `PythonFiles` bound what is combined with what.

**ObjectRequests, PythonObjects, Objects.**  A class is a number, and a record of its
`bases`, its order `mro`, its `attrs` and its `slots`.  `making` holds the lists that
`computeMRO` merges, and one action is one turn of its loop; the body then sets the
attributes, before any other operation: no name is bound to a class before its body is
done, and `$Cls` refuses later assignments.  An attribute is its kind (function, property,
...), the class that defines it stands for its value, and the answer to a lookup says
what is bound to or called with what.  `PythonObjects` makes a class in one step.  It does
not merge: its orders are the permutations of the inherited classes that contradict none
of the lists, and of these the one where each choice falls on the class that the earliest
of the bases inherits.  Its instances have
one set of values, of members and others, and ask the class for properties and members
first; those of `Objects` have `attrs` or `slotValues`, and look there first.  A world
bounds what a program does; `Alike` says of a world that the two can be compared in it,
and its conditions are those under which the runtime and Python agree (see `OtherWorlds`
below).  Outside of them the operations are those of the code as well: `$Cls.__call__` puts the new
instance before the arguments of whatever `getAttr` finds, so that a class method
`__init__` is called with class and instance (`ToClassAndInstance`), and `$G.SUPER` takes any
class (`foreign_super`).

## What is checked

| Run | Shows | Bound |
|---|---|---|
| `tracker` | types, order and count of frames, pairing of wide entries; each frame has the locals of one of its paths, no more than another has, and the stack of one, so that it is true of all where they agree and keeps the exception | 2 local slots, 1 value on the stack, 2 offsets, 1 saved state, 2 paths |
| `attr_roundtrip` | the attribute fits its buffer and reads back | every pair of frames over 4 distances, at both sides of each encoding's limit |
| `execution` | expressions in every position, simple statements, generators, functions with a loop around a branch, modules with one handler or one finally clause, functions, closures, lambdas, methods, decorators and generator expressions that are called and raise: each loads and follows Python, value by value | 1217 programs, 8 events |
| `with_rejected` | the class of a module with a `with` statement does not load (violation) | 1 program |
| `class_pool` | every index stands for what was asked for, through growth, failed reallocs and the bootstrap cache; a text is stored once; the file reads back | 4 uses, 2 texts, a 5-bit count, realloc failing at once, after 1, after 2 |
| `futures` | gets implement `Promise`; what a thread has learned stays true; gather and first return in order; with `Buffered` writes, a get delivers the outcome or null, and done is never shown early | 2 threads, 1 future, 1 coroutine, 3 calls, 2 writes on their way |
| `gather_error` | gather over a failed coroutine throws what no handler takes (violation) | 2 calls |
| `objects` | classes get Python's order or are refused, every lookup and assignment acts as in `PythonObjects`, no value hides a property, and the merge ends | hierarchies of 5 classes with up to 2 bases, 4 with up to 3; 3 classes with every kind of attribute; slots; super along chains; every world `Alike` |
| `layout` | tokens follow the lines up to the first error, blocks nest and balance, the lexer returns | files of 3 and 4 lines, 5 indentations with tabs, a look-ahead at any word |
| `crlf_blank_line` | a blank line with CRLF keeps the lexer in its loop (violation) | 10 files |
| `statements` | the parser builds the tree that the grammar derives, and reads to the end | 10109 expressions: every construct with every other up to 3 names and constructs, the operators up to 7, comprehensions up to 7, calls and slices up to 5; every statement with each of its clauses, in files of up to 3 |
| `elif_lost` | of an `if` with an `elif`, the tree has the last branch only (violation) | files with one chain |

`Loads` says that the verifier accepts what the compiler made.  `BehavesAsPython`
says that every event is one that Python would produce next, and that the method ends
when and how the Python function does, with its value.  The bounds suffice for what they
are meant to show: a join involves two recordings at one offset and the states in
between; an encoding depends on one frame and the one before it; a path through a loop
repeats after two rounds, and eight events are two rounds with a branch, a call, an item
and an operation each.  The two accounts of the stack go wrong at a place in a
statement, so every expression is put in an argument, a condition, a loop and a return,
with an if behind it, whose frames show what is left in the tracker.

Five classes suffice for orders that conflict (two that order two others
differently, and one that inherits from both) and for orders that leave a choice.  Three in a
chain have an attribute that is defined, overridden by another kind, and inherited; one
name is enough for that, a second one is there for the slots.

For the pool, four uses are enough for a use before, during and after each
doubling and each failure, and for a bootstrap method that is used again after the pool
has grown; the limit of the counter is scaled so that half of it is reached.  For the
futures, three calls let two threads race on one future and one of them ask again.  For
the layout, four lines can open, close, reopen at another column, and close two blocks
at once.  For the expressions, what a binding power decides shows between two
operators, and seven names and constructs are chains of three.

`KeepsPromise` is claimed with `MaxSettled = 1`, for futures that are completed once.
A second `setResult`, or one after `cancel`, overwrites the cached result though the
CompletableFuture refuses it (`$Future.java:112`), and a later get differs from an
earlier one; nothing in the repository says what should happen then.  `ListsEnd` is
claimed for lists with a coroutine, since `first` over none waits forever.
`LoopsWhenHalfFull` says where `cp_ensure_capacity` stops making progress: once
half of the counter's range, 32768 entries, is needed.  `BlocksBalance` is claimed for
lines that start within `MAX_INDENT_STACK` columns: past the depth limit an INDENT is
given without an entry (`lexer.c:702`), and its DEDENT never comes.

The four runs that end in a violation show where the code does otherwise than its
tests and its documentation say; "findings" quotes them.  `OtherDeviations` in
`MCExecution` has more programs of the kind: given to `Programs`, each violates one of
the two properties.

| Program | The code |
|---|---|
| `nested_for`, `branch_local` | a loop in a loop, or a local first assigned in one branch of an if, leaves slots in frames that other paths reach without storing them: restoring a state never drops locals (`stackmap.c:542`), though the comment at `codegen.c:3295` says it does. The class is rejected |
| `both_return` | a frame is recorded one past the code when the last `if` returns on both sides (`codegen.c:3302`); rejected |
| `odd_operand` | the implicit return is left out when the last operand looks like a return (`codegen.c:6099`); rejected |
| `handler_finally` | an exception that no handler takes leaves a try without its finally clause (`codegen.c:4256`), against `TODO:15`, "uncaught exception → catch_all → finally → rethrow" |
| `while_else`, `try_else` | the else clause also runs after a break, or after a caught exception (`codegen.c:3355`, `4282`) |
| `two_handlers` | a second handler of a try is never tried: the first throws outside of the protected range (`codegen.c:4150`) |
| `return_finally` | a return leaves a try without its finally clause (`codegen.c:3577`) |
| `raise_last`, `assert_last` | a function that ends in a raise gets an implicit return without a frame (`codegen.c:5614`), a module that ends in an assert gets none (`6100`); rejected |
| `narrow_or`, `narrow_chain`, `deep_chain` | the frame at the end of an `or`, a conditional expression or a chain has the type of one side, and an operand of a chain is typed or counted as if it were not there (`codegen.c:2161`, `2299`); rejected |
| `slice_branch`, `inner_comp`, `two_generators`, `bases_branch`, `class_branch`, `yield_branch` | the tracker is not told what a slice, a comprehension inside of a call, a class statement or a yield does to the stack, and the next frame shows it; rejected |
| `shadowing` | the target of a comprehension takes the slot of a local of that name (`codegen.c:1647`) |
| `dict_order` | all the keys of a display are evaluated before the values (`codegen.c:2517`) |
| `item_add`, `key_branch` | an augmented assignment to an item or attribute has no code (`codegen.c:3207`); an item assigned to with a branch in its key is rejected |
| `delete_local` | a deleted local is null, and reading it does not raise (`codegen.c:4420`) |
| `class_chain`, `class_names` | `x = y = f()` in a class evaluates `f()` for each name (`codegen.c:4540`); the names of a class body are not seen in it |
| `return_value` | the value of a return in a generator is not evaluated (`codegen.c:3578`) |
| `missing_default` | a default stands for a null argument only (`codegen.c:5517`), and a call that leaves the argument out does not find a method with fewer |
| `default_order` | a default is evaluated in the callee at each call, not once at the definition (`codegen.c:5531`) |
| `vararg`, `lambda_vararg` | `*x` is one more parameter (`codegen.c:5292`), and nothing gathers arguments into it; in a lambda it has no slot (`5890`), so that the frames lack it; the first deviates, the second is rejected |
| `branch_captured`, `lambda_captured` | the load of a captured name, and the closure array of a lambda, leave entries in the tracker that are not on the stack (`codegen.c:2015`, `6012`): a branch behind them is rejected |
| `two_inner`, `redefinition` | two functions of one name and number of parameters, wherever they are, are two methods of one name and signature (`codegen.c:5338`); rejected |
| `late_binding`, `nonlocal_store` | a closure has the values of the time it was made (`codegen.c:5700`); an assignment to a nonlocal name makes a local (`3173`) |
| `recursive_inner`, `grandparent` | a function in a function does not see itself, and a name from two functions out is null (`codegen.c:5713`) |
| `missed_name` | names within `and`, `or`, slices, comprehensions, formatted strings and lambdas are not found to be captured, and are looked up as globals (`codegen.c:424`) |
| `decorator_order` | decorators are evaluated after the function, and the last first (`codegen.c:5753`) |
| `generator_call`, `hidden_yield` | a generator function runs when it is called; a yield in a display or subscript of a display is not found (`codegen.c:635`), and the function is none |
| `inner_class` | a class in a class at module level has no local to load (`codegen.c:4528`); rejected |
| `method_global` | a method leaves a local of its name, which hides the global of that name (`codegen.c:5813`) |

These are why the programs of the passing run are the ones they are: functions that
assign no new local in a branch or an inner loop, modules for the handlers (names are
globals there), one handler to a try, a call at the end, operands of type `$O` where
two paths meet, functions of different names that are called with all of their arguments,
and closures over names that their maker does not assign to again.  A nested try/finally,
which `TODO:10` says the verifier rejects, is among the programs that load.

Of objects, the worlds in `OtherWorlds` of `MCObjects`, each of which violates `ActsAsPython`.
None of them is `Alike`, which TLC evaluates:

| World | The runtime |
|---|---|
| `super_in_diamond` | `super` looks in the bases of the class (`$Super.java:48`), not behind the class in the order of the object, though `TODO:54` says that the lookup walks it |
| `super_of_another` | `super` is given any class, and looks in its bases; in Python a class that the instance is not of is a TypeError |
| `super_static`, `super_class`, `super_property` | what `super` finds is bound to the instance if it is a static method, to the base if a class method, and a property is not called |
| `static_special`, `class_special`, `object_special`, `static_init` | an operation gives its instance to a static method, and acts as if nothing were defined when it finds another kind |
| `class_init` | a class method `__init__` is called with the class and the instance (`$Cls.java:231`, `$CM.java:69`), in Python with the class |
| `slots_of_class` | a slot is no attribute of its class |
| `slots_and_bases` | slots are those of the class alone (`$Inst.java:21`): inherited ones are refused, and no dictionary is there although a base has one |
| `slots_of_one_base` | a name that is a slot of the first base and an attribute of the second is the slot in Python, and the attribute for `$Cls.getRawAttr` |

Beyond these worlds: an assignment to an attribute of a class raises, and so does every call
of `delattr`; `issubclass` is always false; a user-defined exception is a plain
`Exception` when raised.

The parser, where the grammar of the reference has no rule or a narrower one than the
language:

| Source | `parser.c` |
|---|---|
| `await a + b`, `await a ** b` | after `await` no operator is read (line 1134), and the first leaves `+ b` to the statement, which reports an error; the operand is taken at the power of a sign, so the second awaits `a ** b` |
| `f(x for x in y)` | an argument is never followed by `for` (line 1687); the error asks for a parenthesis |
| `(yield a, b)` | is a tuple whose first element is the yield (line 1124) |
| `[*a]`, `a[b, c]`, `lambda a=b: c`, `[x for x, in y]` | have no case, and are errors |
| `lambda: a := b`, `a + not b` | are read, though Python has no such expressions |
| `return` or `raise` at the end of a file without a newline | asks for an expression (line 1801), since the lexer gives no NEWLINE there |
| `if a: b`, `x: int = 1`, `x = 1, 2`, `a, b = c = d`, `class C(metaclass=m)`, `except*`, `from ... import a`, `async for`, `with (a, b)`, a trailing comma in a parenthesized import or a `del` | have no case, and are errors |
| patterns `a.b`, `C(x=1)`, `a, b`, `{**rest}` | have no case; `(p)` is read as a sequence of one, and `*_` binds `_` |
| `match`, `case`, `type` | are keywords everywhere |
| a line of `;` | is read |

Fairness: `StackMapAttr` has weak fairness of its one action, the loop of a function
that always terminates, and `Layout` of `Loop`, the loop of `lexer_advance`; the parser
may stop at any token.  `Async` has weak fairness of each thread's next step and of each
write becoming visible, as the JVM schedules every thread, and of `EndCoroutine`: a
coroutine that is awaited is assumed to end.  `Objects` has weak fairness of the steps that make
a class: a loop, and a body that is assumed to end.  Starting a call, giving up on a timeout and
completing a future from outside are not fair.  The others state safety only.

## What is proved

`StackMapTrackerProofs`, for every set of classes, every number of slots and offsets:

* `TypeCorrect`: the tracker, its frames and its saved states keep their types.
* `FramesAreSorted`, `EntriesAreCounted`: the list is strictly increasing in its
  offsets whatever the order of the calls, and `number_of_entries` is its length.
* `FramesAreTrueOfPaths`: for any number of paths in any order, what `FramesTrueOfPaths` says
  of the frames.
* `WidePairsSurvive`: no sequence of calls separates a long or double from the second
  entry it takes.

The assumptions are those of the constants, checked by TLC on every run.  The types
are inductive.  Sortedness needs them and a lemma on where `InsertPosition` puts a
frame; the count follows from sortedness, since a recording either joins the one frame
at its offset or inserts one.  For the paths the invariant says of each frame that it is `MadeOf`
the paths that met at its offset: a join is a step from the paths so far to those with one more
(`JoinMadeOf`), `RecordFrameFacts` says that the frame at the offset is the only one joined, and
no other call touches a frame (`UpdateKeepsFrames`).  That a frame made of paths that agree is true of
each is then a fact about sequences (`MadeOfIsTrue`).  Pairing is not inductive alone: locals could be cut
between the halves.  The invariant is strengthened by `NarrowLocals`, that locals
hold no wide entry at all (the generator keeps numbers on the stack only), and extends
to saved states and frames, which a restore brings back.

`ClassPoolProofs`, for every set of texts, members and sites, every capacity and limit:
`PoolTypeCorrect`, `PoolWithinCapacity`, `TextsAreUnique`, `UsesAlwaysResolve`,
`SitesAlwaysResolve`, `LoopsOnlyWhenHalfFull`, `PoolReadsBack`.  The invariant `IInv` says that the pool
is `Sound` (typed, within its capacity, the cache exact in both directions), that every
use so far still stands for what was asked for, and that every cached bootstrap
index is in the table and names its method.  The argument has two halves.  An operation
extends a sound pool to a sound pool, with one lemma for each `cp_add_` function, from the
bottom up; and what an index stands for is not changed by an extension (`HoldsStays` and
the lemmas on it).  The cache must be exact both ways: that a cached index holds the text
is not enough to show that a text is never added again.  `PoolReadsBack` needs one more
part of `Sound`, `Paired`: an empty entry follows each long or double and nothing else.
The reader walks over the entries that are there, so that its k-th index is the
k-th index of the compiler unless there is a first one that differs (a least counterexample),
and `Paired` excludes that one.

`StackMapAttrProofs`, for every set of lists of sorted frames: `SerializerFitsItsBuffer`
and `JVMReadsTheFrames`, the second for lists that are `Writable`, with fewer than 65536
frames, slots and bytes of code, as the 16-bit counters of `stackmap.h` have them, and
without a new object in a local; with one, `PrefixSame` would take two different locals for the
same.  TLC evaluates `Writable` on the lists of the run.  Both theorems go by the form of a
frame.  `Forms` splits `frame_type` into five cases, each with its conditions, its size and
its fields: the two `CASE`s of sizing and writing choose by the same number.  For the
size, `FrameBytes` adds up the widths of the fields; `Counted` says that the total is
2 and the sizes of the frames passed, then that the bytes written are.  For the
reading, `FrameIsRead`: a reader that stands in front of frame i, and knows the offset and
the locals of the frame before it, reads frame i and stands behind it.  The forms that chop
and append need that the entries of locals are those of a prefix and those behind it
(`EntriesSplit`), at any slot, since an entry looks back at the one before it.  `Placed` says where in the output each
frame lies, and the rest is an induction over the frames.

`LayoutProofs`, for every file, run of blanks and limit: `LayoutTypeCorrect`,
`OpenBlocksStayNested`, `BlocksAlwaysBalance`.  Nesting alone is not inductive, since
going back restores the depth without the entries.  `ReadyToGoBack` adds that the
entries below the saved depth are still nested and that no line starts while a position
is saved; that holds because the token is a word (`WordInLine`: nothing due, inside of a
line), and because a line that ends ends the look-ahead.  `Rising` also bounds an
entry by its index from below, so that lines within `MAX_INDENT_STACK` columns
never reach the limit, which the balance needs.  The widths of runs enter only
through an assumption (`LayoutAssumption`) that TLC evaluates.

`TokensAlwaysFollowLines`, for every file of lines that `IsFile` describes, of any length, with
line ends behind its logical lines: the parser is given the tokens of the language up to
its first error.  The proof has two parts.  `Lexed` are the tokens as the lexer has
them, without a `TabError` and with a NEWLINE for a line end only; the last part
(`SaidOfGiven`) shows that the language has the same (`WithoutTabs`), or the same up to its first
`TabError` (`WithTabs`: the lines in front of it are joined to the same tokens in both).  That
the lexer gives the tokens of `Lexed` is the first part.  Beside `IInv` it has the
invariant `Following`.  Its statement is a place: `AtPlace` says that the lexer is behind a line
(`BehindLine`) or behind a symbol of a line's body (`BehindSymbol`), that what it has given is as long as the tokens
up to there (`Told`, `ToldIn`), that the entries of the stack are the blocks that the
definition has there (`OnStack(...) = Blocks(...)`), and that the bracket depth is the one of the
symbols passed (`Depths`).  `Tracked` adds that what was given agrees with the file (`Agrees`) and
that the tokens that come next are a DEDENT for each pending one (`Due`).  From the first inconsistent line on
only the tokens before it count (`Erred`).  While a position is saved, `SavedFollows` says
the same of that position, so that going back is one of its consequences.  The proof needs to know, of
files alone: where each line lies in the text and in the tokens, which are joins of sequences
(`LinePlace`, `LinePlaceTokens`, `WordPlace`, over `FlattenedAt`); that the columns of the code
are those of the definition (`WidthIsCounted`: the next multiple of 8 is the one that a division finds); and what a
line does to the blocks.  There the definition compares a line with all earlier lines, and the code with one
entry of its stack: `DeeperLine`, `LineOfBlock` and `LineBetweenBlocks` show that the blocks a line opens or closes are
the entries pushed or popped, by `NewBlocks`, that the blocks behind a line are those
before it that are less indented, and itself.  The last step for each action is one lemma
(`IndentFollows`, `ScanFollows`, ...).  The loop on a blank line that ends in CRLF is allowed for in `AtPlace`: no
token comes from there, which is what the run `crlf_blank_line` shows.

`ObjectsProofs`, for any number of classes, bases, instances and names, and any kinds of
attribute: `ObjectsTypeCorrect`, `OrdersAreLinear`, `PropertiesStayUncovered`.  The orders
need an invariant of the merge, `Merging`: of two classes that a list orders at the
start, both are in the result in that order, or the first is in the result and the second still
to come, or both are still to come in that order; what has been taken out is in the result, and
nothing is twice.  It is kept because a head is taken only if it is in no tail, so
that no class comes out before one that a list has in front of it
(`RemovedFromOne`, `MergeGoesOn`), and when all lists are empty only the first case is
left (`MergeEnds`).  What is known of a class refers to classes made
before it, so a new one does not disturb it (`OldClassesStay`, `LookupStays`).  Properties stay
uncovered since a value is stored only where the lookup in the class, which later classes do not
change, found no property.

`PythonObjectsProofs`, for the same and every set of worlds that are `Alike`:
`ObjectsActAsPython`, that `Objects` implements `PythonObjects`.  A class in the making is
a stutter, and its completion one step, so the invariant `RInv` has to say what the merge
has chosen: at each place of the result stands a class that was `Free`, with nothing in front
of it in any list, and that an earlier list has than any other free class has
(`ChosenSoFar`, kept by `ChoiceGoesOn` since the first good head is such a class).  When the
lists are empty the result is the order that Python chooses (`OrderChosen`); when no head
is good there is no order at all (`NoOrderLeft`): the class that such an order puts
first, of those still to come, would be a good head.  The operations then compare
two lookups.  `KindsAgree`: where classes with slots stand at the end of an order, the first
class that defines a name is the first that has it as an attribute, and a slot is found only where no
attribute is.  `ValuesInOnePlace`: an instance has its values in `attrs` or in `slotValues`, never
in both.  `SameGet` needs `PropertiesUncovered`, as the two look in opposite order.
`SubclassInOrder` is that the walk over the bases, a recursive function, finds the
classes of the order; and `BehindInChain` that along a chain the order behind a class is the
order of its base, which is where `super` looks.  The worlds in which this is not so are not `Alike`, nor are those where `__init__`
or a method that an operation calls is of another kind.
The choice has to be stated by the bases: that it falls on the class whose direct subclass came
last, as the linearization is often explained, is the same for four classes, and is wrong for
five with three bases, where no step of the merge could be matched with it.

`FuturesProofs`, for any futures, coroutines, threads, lists and number of calls, with
ordered writes or not: `AsyncTypeCorrect`, `DoneIsAlwaysTrue`, `GathersInOrder`.
`DoneIsTrue` is about what a thread reads; the invariant is about everything any thread
could still read (`Seen`: in memory, or written by somebody and not yet visible), which
neither the passing of time nor a write becoming visible extends.  Besides it says of each
place of the code what a call there may be (`Sane`), and that whoever writes done, or
is about to, has seen the future complete (`DoneKnown`).  `GathersInOrder` rests on
`OutcomesLast`: no step changes the outcome of a complete future.

For `MaxSettled = 1` also `GetsNeverInvent`, `ThreadsKeepKnowledge`, and
`StepsKeepPromise`, that the initial states and all steps are those of `Promise`.  Their invariant `JInv` adds four
parts.  `OnceOnly`: whoever is about to complete a future is alone, and the future is
pending; with two completions of one future it fails, and with it the rest (hazard at `$Future.java:112`).
`Truthful`: whatever can be seen in a field is the outcome.  `InOrder`: where writes are
ordered, done comes after the outcome.  `Informed`: what a thread relies on at its place,
such as that the exception it saw, and reads again to throw it, is still there.  These
survive the steps of others because none of them is ever undone (`Persist`).  `StepsKeepPromise`
leaves out the one conjunct of `KeepsPromise` that is liveness, the fairness of answers.
`ThreadsKeepKnowledge` compares two calls of a thread, of any age, and so needs of every
answer given what it shows of the present (`Remembers` in `KInv`): an outcome that a get
delivered is the future's and is in its fields, and a future that `__repr__` has shown as done
has its done field set, so that a get that starts now does not wait.

Recursive functions (the entries, the totals, the reader of frames, columns, bracket
depths, joined sequences) are reasoned about
through their equation.  That it has a solution is shown once, in `Recursions` (`Recursion`), and
what holds of every value by induction on a set of numbers (`CountUp`), itself a
consequence of a least counterexample: the induction theorems of the library take an
operator, which the provers cannot instantiate.

Only model-checked: everything about compiled programs and parsed files (`Loads`,
`BehavesAsPython`, `ParsesAsPython`), and, being beyond the prover, liveness (`ListsEnd`, `ClassesComeToBe`, `Returns`, the fairness in
`KeepsPromise`).  `Lowering` and `PythonFlow` are recursive over the syntax tree, and
the parser over the tokens, with RECURSIVE operators, which the prover cannot unfold.

## What is not modelled yet, and the plan

In the lowering: `match`, `async`, annotations, starred and keyword arguments,
`__slots__`, relative and star imports, the widths of instructions and with them 16-bit
offsets, and of a bare `raise` the exception that is being handled.  The semantic
analyzer, because nothing depends on it: the generator is given the global scope and
never reads it (`codegen.c:204`), no call of `analyzer_error` exists, so no program is
refused, and what remains is a warning on redefinition.  In the lexer: the characters of tokens,
and NUL bytes.  In the objects: exception classes and built-in types.  In the futures: `sleep`, interruption, and `await` of what is no future.
Elsewhere, the components with status `not_modelled`.  In this order:

1. More of the runtime with a reference to compare with: generators, iterators over changing lists, bounded deques, import cycles, the
   exception hierarchy, buffered streams, sockets.
2. `match`, once the handlers and branches it is made of are settled: the repository's
   own test script lists its tests as known to fail.
3. Proofs: the lowering and the parser, which needs them written as recursive functions over
   the sizes of trees and the positions of tokens, instead of RECURSIVE operators.

New questions about a component go to the run that has it, where the instance allows.
