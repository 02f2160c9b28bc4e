-------------------------------- MODULE Layout --------------------------------
(***************************************************************************)
(* The layout tokens of lexer.c: lines, brackets and indentation, and the  *)
(* parser that takes a token or looks one token ahead and goes back.  A    *)
(* file is read as symbols: a run of blanks, a line end, a bracket, or a   *)
(* word, which is any other token.  A step is one turn of the loop of      *)
(* lexer_advance.                                                          *)
(***************************************************************************)
EXTENDS Integers, SequencesExt, FiniteSetsExt

CONSTANTS Files,             \* records, with the symbols of the file as their text
          Runs,              \* runs of blanks
          MAX_INDENT_STACK

Kinds == {"blank", "word", "open", "close", "comment", "backslash", "nl", "cr"}

Symbols == [kind : Kinds, run : Runs]

AfterTabAsBlank(width, c) == width + 1

(* A tab goes to the next multiple of 8.                                   *)
AfterBlank(width, c) == IF c = "\t" THEN (width \div 8 + 1) * 8 ELSE width + 1

Column(run) ==
  LET column[n \in 0..Len(run)] ==
        IF n = 0 THEN 0 ELSE AfterBlank(column[n - 1], run[n])
  IN column

lexer_count_indent(run) == Column(run)[Len(run)]

ASSUME LayoutAssumption ==
  /\ \A file \in Files : file.text \in Seq(Symbols)
  /\ \A run \in Runs : lexer_count_indent(run) \in Nat
  /\ MAX_INDENT_STACK \in Nat \ {0}

VARIABLES file, pos,
          indent_stack, indent_depth, pending_dedents, at_line_start, paren_depth,
          token,
          scanning,     \* inside the loop of lexer_advance
          saved,        \* the position of a look-ahead
          taken,        \* tokens that the parser has moved past
          open_blocks   \* INDENT tokens less DEDENT tokens up to this one

lexer == <<indent_stack, indent_depth, pending_dedents, at_line_start, paren_depth>>

vars == <<file, pos, lexer, token, scanning, saved, taken, open_blocks>>

source == file.text

KindAt(p) == IF p > Len(source) THEN "end" ELSE source[p].kind

NotSaved ==
  [pos |-> 0, token |-> "none", depth |-> 0, pending |-> 0, line |-> FALSE,
   paren |-> 0, blocks |-> 0]

Init ==
  /\ file \in Files /\ pos = 1
  /\ indent_stack = [i \in 0..(MAX_INDENT_STACK - 1) |-> 0]
  /\ indent_depth = 0 /\ pending_dedents = 0 /\ at_line_start = TRUE /\ paren_depth = 0
  /\ token = "none" /\ scanning = TRUE
  /\ saved = NotSaved /\ taken = <<>> /\ open_blocks = 0

-----------------------------------------------------------------------------
Opens(t) == IF t = "INDENT" THEN 1 ELSE IF t = "DEDENT" THEN -1 ELSE 0

Give(t) ==
  /\ token' = t
  /\ open_blocks' = open_blocks + Opens(t)
  /\ scanning' = FALSE
  /\ UNCHANGED <<file, saved, taken>>

GoOnScanning == UNCHANGED <<file, token, scanning, saved, taken, open_blocks>>

(* A line that may open or close blocks, and where its first token is.     *)
AtLine == at_line_start /\ paren_depth = 0 /\ pos <= Len(source)

First == IF KindAt(pos) = "blank" THEN pos + 1 ELSE pos

indent == IF KindAt(pos) = "blank" THEN lexer_count_indent(source[pos].run) ELSE 0

LineEnd(p) == Min({q \in p..(Len(source) + 1) : KindAt(q) \in {"nl", "end"}})

NoTokens == {"nl", "cr", "comment"}

SkipLine ==
  /\ scanning /\ AtLine /\ KindAt(First) \in NoTokens
  /\ \E p \in {IF KindAt(First) = "comment" THEN LineEnd(First) ELSE First} :
       pos' = IF KindAt(p) = "nl" THEN p + 1 ELSE p
  /\ GoOnScanning /\ UNCHANGED lexer

BeginLine ==
  /\ scanning /\ AtLine /\ KindAt(First) \notin NoTokens \cup {"end"}
  /\ at_line_start' = FALSE
  /\ pos' = First
  /\ UNCHANGED paren_depth

IndentOrSame ==
  /\ BeginLine
  /\ indent >= indent_stack[indent_depth] /\ indent_depth < MAX_INDENT_STACK - 1
  /\ indent_depth' = indent_depth + 1
  /\ indent_stack' = [indent_stack EXCEPT ![indent_depth + 1] = indent]
  /\ UNCHANGED pending_dedents
  /\ Give("INDENT")

Indent ==
  /\ BeginLine
  /\ indent > indent_stack[indent_depth]
  /\ IF indent_depth < MAX_INDENT_STACK - 1
     THEN /\ indent_depth' = indent_depth + 1
          /\ indent_stack' = [indent_stack EXCEPT ![indent_depth + 1] = indent]
     ELSE UNCHANGED <<indent_depth, indent_stack>>
  /\ UNCHANGED pending_dedents
  /\ Give("INDENT")

(* The innermost block that is not indented deeper.                        *)
Outer == Max({d \in 0..indent_depth : d = 0 \/ indent_stack[d] <= indent})

PopTo(depth) == indent_depth' = depth /\ UNCHANGED indent_stack

Dedent ==
  /\ BeginLine
  /\ indent < indent_stack[indent_depth] /\ indent = indent_stack[Outer]
  /\ PopTo(Outer)
  /\ pending_dedents' = pending_dedents + (indent_depth - Outer) - 1
  /\ Give("DEDENT")

(* The blocks are closed all the same, after the error.                    *)
Inconsistent ==
  /\ BeginLine
  /\ indent < indent_stack[indent_depth] /\ indent # indent_stack[Outer]
  /\ PopTo(Outer)
  /\ pending_dedents' = pending_dedents + (indent_depth - Outer)
  /\ Give("ERROR")

SameIndent ==
  /\ BeginLine
  /\ indent = indent_stack[indent_depth]
  /\ UNCHANGED <<indent_stack, indent_depth, pending_dedents>>
  /\ GoOnScanning

-----------------------------------------------------------------------------
InLine == scanning /\ ~AtLine /\ pos <= Len(source)

JoinsLines ==
  \/ KindAt(pos) \in {"nl", "cr"} /\ paren_depth > 0
  \/ KindAt(pos) = "backslash" /\ KindAt(pos + 1) = "nl"

SkipBlanksOnly ==
  /\ InLine
  /\ pos' = IF KindAt(pos) = "blank" THEN pos + 1 ELSE pos
  /\ KindAt(pos) \in {"blank", "comment"} \/ JoinsLines
  /\ GoOnScanning /\ UNCHANGED lexer

Skip ==
  /\ InLine
  /\ \/ KindAt(pos) = "blank" /\ pos' = pos + 1
     \/ KindAt(pos) = "comment" /\ pos' = LineEnd(pos)
     \/ JoinsLines /\ pos' = IF KindAt(pos) = "backslash" THEN pos + 2 ELSE pos + 1
  /\ GoOnScanning /\ UNCHANGED lexer

NewLineInBrackets ==
  /\ InLine /\ KindAt(pos) \in {"nl", "cr"}
  /\ pos' = pos + 1
  /\ at_line_start' = TRUE
  /\ UNCHANGED <<indent_stack, indent_depth, pending_dedents, paren_depth>>
  /\ Give("NEWLINE")

NewLine ==
  /\ InLine /\ KindAt(pos) \in {"nl", "cr"} /\ ~JoinsLines
  /\ pos' = pos + 1
  /\ at_line_start' = TRUE
  /\ UNCHANGED <<indent_stack, indent_depth, pending_dedents, paren_depth>>
  /\ Give("NEWLINE")

BracketUnmatched(kind) ==
  CASE kind = "open" -> paren_depth + 1
    [] kind = "close" -> paren_depth - 1
    [] OTHER -> paren_depth

Bracket(kind) ==
  CASE kind = "open" -> paren_depth + 1
    [] kind = "close" /\ paren_depth > 0 -> paren_depth - 1
    [] OTHER -> paren_depth

Scan ==
  /\ InLine /\ KindAt(pos) \in {"word", "open", "close", "backslash"} /\ ~JoinsLines
  /\ pos' = pos + 1
  /\ paren_depth' = Bracket(KindAt(pos))
  /\ UNCHANGED <<indent_stack, indent_depth, pending_dedents, at_line_start>>
  /\ Give(IF KindAt(pos) = "backslash" THEN "ERROR" ELSE KindAt(pos))

(* The end of the file, also behind blanks at the start of a line.         *)
AtEnd == pos > Len(source) \/ (AtLine /\ KindAt(First) = "end")

EndWithAllPending ==
  /\ scanning /\ AtEnd
  /\ pos' = Len(source) + 1
  /\ IF indent_depth > 0
     THEN PopTo(0) /\ pending_dedents' = indent_depth /\ Give("DEDENT")
     ELSE UNCHANGED <<indent_depth, indent_stack, pending_dedents>> /\ Give("EOF")
  /\ UNCHANGED <<at_line_start, paren_depth>>

EndOfFile ==
  /\ scanning /\ AtEnd
  /\ pos' = Len(source) + 1
  /\ IF indent_depth > 0
     THEN PopTo(0) /\ pending_dedents' = indent_depth - 1 /\ Give("DEDENT")
     ELSE UNCHANGED <<indent_depth, indent_stack, pending_dedents>> /\ Give("EOF")
  /\ UNCHANGED <<at_line_start, paren_depth>>

-----------------------------------------------------------------------------
(* lexer_advance: a pending DEDENT, or the loop.                           *)
lexer_advance ==
  /\ IF pending_dedents > 0
     THEN /\ pending_dedents' = pending_dedents - 1
          /\ token' = "DEDENT" /\ open_blocks' = open_blocks - 1
          /\ UNCHANGED scanning
     ELSE scanning' = TRUE /\ UNCHANGED <<pending_dedents, token, open_blocks>>
  /\ UNCHANGED <<file, pos, indent_stack, indent_depth, at_line_start, paren_depth>>

Take ==
  /\ ~scanning /\ saved = NotSaved /\ token # "EOF"
  /\ taken' = Append(taken, token)
  /\ lexer_advance /\ UNCHANGED saved

(* Behind a name in an argument list, or behind not.                       *)
LookAhead ==
  /\ ~scanning /\ saved = NotSaved /\ token = "word"
  /\ saved' = [pos |-> pos, token |-> token, depth |-> indent_depth,
               pending |-> pending_dedents, line |-> at_line_start,
               paren |-> paren_depth, blocks |-> open_blocks]
  /\ lexer_advance /\ UNCHANGED taken

lexer_restore_pos ==
  /\ pos' = saved.pos /\ token' = saved.token /\ indent_depth' = saved.depth
  /\ pending_dedents' = saved.pending /\ at_line_start' = saved.line
  /\ paren_depth' = saved.paren /\ open_blocks' = saved.blocks
  /\ UNCHANGED indent_stack

GoBack ==
  /\ ~scanning /\ saved # NotSaved
  /\ lexer_restore_pos
  /\ saved' = NotSaved
  /\ UNCHANGED <<file, scanning, taken>>

(* The next token is the = of a keyword argument.                          *)
GoOn ==
  /\ ~scanning /\ saved # NotSaved /\ token = "word"
  /\ taken' = Append(taken, saved.token)
  /\ saved' = NotSaved
  /\ UNCHANGED <<file, pos, lexer, token, scanning, open_blocks>>

Loop ==
  \/ SkipLine \/ Indent \/ Dedent \/ Inconsistent \/ SameIndent
  \/ Skip \/ NewLine \/ Scan \/ EndOfFile

Next == Loop \/ Take \/ LookAhead \/ GoBack \/ GoOn

(* The loop runs until it returns; the parser may stop at any token.       *)
Spec == Init /\ [][Next]_vars /\ WF_vars(Loop)

-----------------------------------------------------------------------------
Tokens == {"none", "INDENT", "DEDENT", "NEWLINE", "EOF", "ERROR", "word", "open", "close"}

Position ==
  [pos : Nat, token : Tokens, depth : 0..(MAX_INDENT_STACK - 1), pending : Nat,
   line : BOOLEAN, paren : Nat, blocks : Int]

LayoutTypeOK ==
  /\ source \in Seq(Symbols) /\ pos \in 1..(Len(source) + 1)
  /\ indent_stack \in [0..(MAX_INDENT_STACK - 1) -> Nat]
  /\ indent_depth \in 0..(MAX_INDENT_STACK - 1)
  /\ pending_dedents \in Nat /\ at_line_start \in BOOLEAN /\ paren_depth \in Nat
  /\ token \in Tokens /\ scanning \in BOOLEAN
  /\ saved \in Position /\ taken \in Seq(Tokens) /\ open_blocks \in Int

(* Each open block is indented deeper than the one around it, also after a *)
(* look-ahead has gone back to an earlier depth without the entries.       *)
OpenBlocksNested ==
  indent_stack[0] = 0 /\ \A i \in 1..indent_depth : indent_stack[i - 1] < indent_stack[i]

(* Every INDENT that the parser was given has a DEDENT: one given, one due *)
(* or one for a block that is open; none is left at the end of the file.   *)
(* It takes a line behind MAX_INDENT_STACK columns to break that.          *)
Shallow == \A run \in Runs : lexer_count_indent(run) < MAX_INDENT_STACK

BlocksBalance ==
  Shallow => /\ open_blocks = indent_depth + pending_dedents
             /\ token = "EOF" => open_blocks = 0

(* The lexer comes back with a token from every position of a file.        *)
Returns == scanning ~> ~scanning
=============================================================================
