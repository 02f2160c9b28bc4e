----------------------------- MODULE LayoutProofs -----------------------------
(***************************************************************************)
(* Proofs about Layout, for all files, runs of blanks and limits.          *)
(*                                                                         *)
(* First that the blocks nest and balance.  The look-ahead is the          *)
(* difficulty: a saved position has the depth of the indentation stack     *)
(* without its entries, so the invariant says that the entries are not     *)
(* touched while one is saved.                                             *)
(*                                                                         *)
(* Then that the tokens are those of the lines.  The invariant, Following, *)
(* says where in the lines the lexer stands, and that what has been given  *)
(* there is what the lines up to that place have.  Up to Following there   *)
(* are lemmas about files only: the place of each line in the text and in  *)
(* the tokens, the blocks behind it, and the stack that holds them.  These *)
(* tokens, Lexed, are the lexer's own; the last part shows that they are   *)
(* those of the language up to its first error.                            *)
(***************************************************************************)
EXTENDS LayoutOfLines, Recursions, FiniteSetTheorems

(* The entries up to a depth rise, by a column each at least. *)
Rising(depth) ==
  /\ indent_stack[0] = 0
  /\ \A i \in 1..depth : indent_stack[i - 1] < indent_stack[i]
  /\ \A i \in 0..depth : i <= indent_stack[i]

NothingDueInLoop == scanning => pending_dedents = 0 /\ token # "EOF"

NoLineInBrackets == at_line_start => paren_depth = 0

(* Behind a word, nothing is due and no line starts. *)
WordInLine == token = "word" => pending_dedents = 0 /\ (~scanning => ~at_line_start)

ReadyToGoBack ==
  saved # NotSaved =>
    /\ saved.pos \in 1..(Len(source) + 1)
    /\ saved.token = "word" /\ saved.pending = 0 /\ ~saved.line
    /\ Rising(saved.depth)
    /\ Shallow => saved.blocks = saved.depth
    /\ scanning => ~at_line_start

Balanced == Shallow => open_blocks = indent_depth + pending_dedents

EndsOutside == token = "EOF" => indent_depth = 0 /\ pending_dedents = 0

IInv ==
  /\ file \in Files
  /\ LayoutTypeOK
  /\ Rising(indent_depth)
  /\ NothingDueInLoop
  /\ NoLineInBrackets
  /\ WordInLine
  /\ ReadyToGoBack
  /\ Balanced
  /\ EndsOutside

-----------------------------------------------------------------------------
(* The bounds that Min and Max choose. *)

LEMMA LeastOf ==
  ASSUME NEW S, S \subseteq Nat, S # {}
  PROVE  Min(S) \in S /\ \A y \in S : Min(S) <= y
<1>1. PICK x \in S : \A y \in S : ~ (<<y, x>> \in OpToRel(<, Nat))
  BY NatLessThanWellFounded, WFMin
<1>2. ASSUME NEW y \in S PROVE x <= y
  <2>1. x \in Nat /\ y \in Nat /\ <<y, x>> \in Nat \X Nat
    OBVIOUS
  <2>2. y < x => <<y, x>> \in OpToRel(<, Nat)
    BY <2>1 DEF OpToRel
  <2>3. ~ (y < x)
    BY <1>1, <2>2
  <2> QED BY <2>1, <2>3
<1> QED BY <1>2, Zenon DEF Min

LEMMA GreatestOf ==
  ASSUME NEW n \in Nat, NEW S, S \subseteq 0..n, S # {}
  PROVE  Max(S) \in S /\ \A y \in S : y <= Max(S)
<1> DEFINE T == {k \in 0..n : n - k \in S}
<1>1. T \subseteq Nat
  OBVIOUS
<1>2. PICK x \in S : TRUE
  OBVIOUS
<1>3. n - x \in 0..n /\ n - (n - x) = x
  OBVIOUS
<1>4. T # {}
  BY <1>3
<1> DEFINE t == Min(T)
<1>5. t \in T /\ \A k \in T : t <= k
  BY <1>1, <1>4, LeastOf
<1>6. ASSUME NEW y \in S PROVE n - t >= y
  <2>1. n - y \in 0..n /\ n - (n - y) = y
    OBVIOUS
  <2>2. n - y \in T
    BY <2>1
  <2>3. t <= n - y /\ t \in 0..n
    BY <1>5, <2>2
  <2> HIDE DEF t
  <2> QED BY <2>3
<1>7. n - t \in S
  BY <1>5
<1> DEFINE g == n - t
<1>8. \A y \in S : g >= y
  BY <1>6
<1>9. Max(S) = CHOOSE z \in S : \A y \in S : z >= y
  BY DEF Max
<1> HIDE DEF g, t, T
<1>10. Max(S) \in S /\ \A y \in S : Max(S) >= y
  BY <1>7, <1>8, <1>9, Zenon DEF g
<1> QED BY <1>10

(* A line ends in the file or with it. *)
LEMMA LineEnds ==
  ASSUME source \in Seq(Symbols), NEW p \in 1..(Len(source) + 1)
  PROVE  LineEnd(p) \in p..(Len(source) + 1)
<1> DEFINE Ends == {q \in p..(Len(source) + 1) : KindAt(q) \in {"nl", "end"}}
<1>1. Len(source) \in Nat
  OBVIOUS
<1>2. Ends \in SUBSET Nat
  BY <1>1
<1>3. Len(source) + 1 \in Ends
  BY <1>1 DEF KindAt
<1>4. Min(Ends) \in Ends
  BY <1>2, <1>3, LeastOf, Zenon
<1> QED BY <1>4 DEF LineEnd

(* The first token of a line is in the file or its end, and its            *)
(* indentation is a number of columns.                                     *)
LEMMA LineStarts ==
  ASSUME source \in Seq(Symbols), pos \in 1..Len(source)
  PROVE  /\ First \in 1..(Len(source) + 1)
         /\ indent \in Nat
         /\ Shallow => indent < MAX_INDENT_STACK
<1>1. source[pos] \in Symbols /\ Len(source) \in Nat
  OBVIOUS
<1>2. source[pos].run \in Runs
  BY <1>1 DEF Symbols
<1>3. indent \in Nat /\ (Shallow => indent < MAX_INDENT_STACK)
  BY <1>2, LayoutAssumption DEF indent, Shallow
<1> QED BY <1>1, <1>3 DEF First

LEMMA OuterIsOpen ==
  ASSUME LayoutTypeOK, indent \in Nat
  PROVE  /\ Outer \in 0..indent_depth
         /\ Outer = 0 \/ indent_stack[Outer] <= indent
         /\ \A i \in (Outer + 1)..indent_depth : indent_stack[i] > indent
<1> DEFINE S == {d \in 0..indent_depth : d = 0 \/ indent_stack[d] <= indent}
<1>1. indent_depth \in Nat
  BY LayoutAssumption DEF LayoutTypeOK
<1>2. S \in SUBSET (0..indent_depth) /\ 0 \in S
  BY <1>1
<1>3. Max(S) \in S /\ \A y \in S : y <= Max(S)
  BY <1>1, <1>2, GreatestOf
<1>4. Outer = Max(S)
  BY DEF Outer
<1>5. Outer \in 0..indent_depth /\ (Outer = 0 \/ indent_stack[Outer] <= indent)
  BY <1>3, <1>4
<1>6. ASSUME NEW i \in (Outer + 1)..indent_depth PROVE indent_stack[i] > indent
  <2>1. i \in 0..indent_depth /\ i > Outer /\ i \in 0..(MAX_INDENT_STACK - 1)
    BY <1>1, <1>5, LayoutAssumption DEF LayoutTypeOK
  <2>2. i \notin S
    BY <1>3, <1>4, <1>5, <2>1
  <2>3. indent_stack[i] \in Nat
    BY <2>1 DEF LayoutTypeOK
  <2> QED BY <2>1, <2>2, <2>3
<1> QED BY <1>5, <1>6

-----------------------------------------------------------------------------
LEMMA InitIInv == Init => IInv
<1> SUFFICES ASSUME Init PROVE IInv
  OBVIOUS
<1>1. file.text \in Seq(Symbols) /\ MAX_INDENT_STACK \in Nat \ {0}
  BY LayoutAssumption DEF Init
<1>2. Len(source) \in Nat
  BY <1>1 DEF source
<1>3. NotSaved \in Position
  BY <1>1 DEF NotSaved, Position, Tokens
<1>4. LayoutTypeOK
  BY <1>1, <1>2, <1>3 DEF Init, LayoutTypeOK, source, Tokens
<1>5. Rising(indent_depth)
  BY <1>1 DEF Init, Rising
<1>6. NothingDueInLoop /\ NoLineInBrackets /\ WordInLine /\ Balanced /\ EndsOutside
  BY DEF Init, NothingDueInLoop, NoLineInBrackets, WordInLine, Balanced, EndsOutside
<1>7. ReadyToGoBack
  BY DEF Init, ReadyToGoBack
<1> QED BY <1>4, <1>5, <1>6, <1>7 DEF IInv, Init

(* What the loop leaves alone while it skips. *)
LEMMA SkippingKeepsIInv ==
  ASSUME IInv, GoOnScanning, UNCHANGED lexer, scanning, pos' \in 1..(Len(source) + 1)
  PROVE  IInv'
<1>1. source' = source
  BY DEF GoOnScanning, source
<1>2. LayoutTypeOK'
  BY <1>1 DEF IInv, LayoutTypeOK, GoOnScanning, lexer
<1>3. Rising(indent_depth)' /\ NothingDueInLoop' /\ NoLineInBrackets' /\ WordInLine'
  BY DEF IInv, GoOnScanning, lexer, Rising, NothingDueInLoop, NoLineInBrackets, WordInLine
<1>4. ReadyToGoBack'
  BY <1>1 DEF IInv, GoOnScanning, lexer, Rising, ReadyToGoBack
<1>5. Balanced' /\ EndsOutside'
  BY DEF IInv, GoOnScanning, lexer, Balanced, EndsOutside
<1> QED BY <1>2, <1>3, <1>4, <1>5 DEF IInv, GoOnScanning

LEMMA SkipLineStep == IInv /\ SkipLine => IInv'
<1> SUFFICES ASSUME IInv, SkipLine PROVE IInv'
  OBVIOUS
<1>1. /\ source \in Seq(Symbols) /\ Len(source) \in Nat /\ pos \in 1..Len(source)
      /\ scanning /\ GoOnScanning /\ UNCHANGED lexer
  BY DEF IInv, LayoutTypeOK, SkipLine, AtLine
<1>2. First \in 1..(Len(source) + 1)
  BY <1>1, LineStarts
<1>3. LineEnd(First) \in 1..(Len(source) + 1)
  BY <1>1, <1>2, LineEnds
<1>4. PICK p \in 1..(Len(source) + 1) : pos' = IF KindAt(p) = "nl" THEN p + 1 ELSE p
  BY <1>2, <1>3 DEF SkipLine
<1>5. KindAt(p) = "nl" => p <= Len(source)
  BY <1>1 DEF KindAt
<1>6. pos' \in 1..(Len(source) + 1)
  BY <1>1, <1>4, <1>5
<1> QED BY <1>1, <1>6, SkippingKeepsIInv

LEMMA SkipStep == IInv /\ Skip => IInv'
<1> SUFFICES ASSUME IInv, Skip PROVE IInv'
  OBVIOUS
<1>1. /\ source \in Seq(Symbols) /\ Len(source) \in Nat /\ pos \in 1..Len(source)
      /\ scanning /\ GoOnScanning /\ UNCHANGED lexer
  BY DEF IInv, LayoutTypeOK, Skip, InLine
<1>2. LineEnd(pos) \in pos..(Len(source) + 1)
  BY <1>1, LineEnds
<1>3. KindAt(pos + 1) = "nl" => pos + 1 <= Len(source)
  BY <1>1 DEF KindAt
<1>4. KindAt(pos) = "backslash" /\ JoinsLines => pos + 1 <= Len(source)
  BY <1>3 DEF JoinsLines
<1>5. pos' \in 1..(Len(source) + 1)
  BY <1>1, <1>2, <1>4 DEF Skip
<1> QED BY <1>1, <1>5, SkippingKeepsIInv

-----------------------------------------------------------------------------
(* The start of a line: no position is saved and nothing is due. *)
LEMMA LineBegins ==
  ASSUME IInv, BeginLine
  PROVE  /\ pos' \in 1..(Len(source) + 1) /\ at_line_start' = FALSE
         /\ saved = NotSaved /\ pending_dedents = 0
         /\ token # "EOF" /\ paren_depth' = paren_depth
         /\ indent \in Nat /\ (Shallow => indent < MAX_INDENT_STACK)
         /\ indent_depth \in 0..(MAX_INDENT_STACK - 1)
         /\ MAX_INDENT_STACK \in Nat \ {0}
<1>1. /\ source \in Seq(Symbols) /\ Len(source) \in Nat /\ pos \in 1..Len(source)
      /\ scanning /\ at_line_start
  BY DEF IInv, LayoutTypeOK, BeginLine, AtLine
<1>2. /\ First \in 1..(Len(source) + 1) /\ indent \in Nat
      /\ Shallow => indent < MAX_INDENT_STACK
  BY <1>1, LineStarts
<1> QED
  BY <1>1, <1>2, LayoutAssumption
  DEF IInv, LayoutTypeOK, BeginLine, NothingDueInLoop, ReadyToGoBack

LEMMA LineTokenKeepsIInv ==
  ASSUME IInv, BeginLine, NEW t \in {"INDENT", "DEDENT", "ERROR"}, Give(t),
         indent_stack' \in [0..(MAX_INDENT_STACK - 1) -> Nat],
         indent_depth' \in 0..(MAX_INDENT_STACK - 1), pending_dedents' \in Nat,
         Rising(indent_depth)', Balanced'
  PROVE  IInv'
<1>1. source' = source
  BY DEF Give, source
<1>2. open_blocks' \in Int
  BY DEF IInv, LayoutTypeOK, Give, Opens
<1>3. LayoutTypeOK'
  BY <1>1, <1>2, LineBegins DEF IInv, LayoutTypeOK, Give, Tokens
<1>4. NothingDueInLoop' /\ NoLineInBrackets' /\ WordInLine' /\ EndsOutside'
  BY LineBegins DEF Give, NothingDueInLoop, NoLineInBrackets, WordInLine, EndsOutside
<1>5. ReadyToGoBack'
  BY LineBegins DEF Give, ReadyToGoBack, NotSaved
<1> QED BY <1>3, <1>4, <1>5 DEF IInv, Give

LEMMA IndentStep == IInv /\ Indent => IInv'
<1> SUFFICES ASSUME IInv, Indent PROVE IInv'
  OBVIOUS
<1>1. BeginLine /\ Give("INDENT") /\ UNCHANGED pending_dedents /\ indent > indent_stack[indent_depth]
  BY DEF Indent
<1>2. indent_stack \in [0..(MAX_INDENT_STACK - 1) -> Nat] /\ indent_stack[indent_depth] >= indent_depth
  BY <1>1, LineBegins DEF IInv, LayoutTypeOK, Rising
<1>3. CASE indent_depth < MAX_INDENT_STACK - 1
  <2>1. /\ indent_depth' = indent_depth + 1
        /\ indent_stack' = [indent_stack EXCEPT ![indent_depth + 1] = indent]
    BY <1>3 DEF Indent
  <2>2. Rising(indent_depth)'
    <3>1. /\ indent_stack'[indent_depth + 1] = indent
          /\ \A i \in 0..indent_depth : indent_stack'[i] = indent_stack[i]
      BY <1>1, <1>2, <1>3, <2>1, LineBegins
    <3>2. indent_depth \in Nat /\ indent \in Nat /\ indent_stack[indent_depth] \in Nat
      BY <1>1, <1>2, LineBegins
    <3>3. indent_stack'[0] = 0
      BY <3>1, <3>2 DEF IInv, Rising
    <3>4. ASSUME NEW i \in 1..(indent_depth + 1)
          PROVE  indent_stack'[i - 1] < indent_stack'[i]
      <4>1. CASE i = indent_depth + 1
        BY <4>1, <1>1, <3>1, <3>2
      <4>2. CASE i \in 1..indent_depth
        BY <4>2, <3>1, <3>2 DEF IInv, Rising
      <4> QED BY <4>1, <4>2, <3>2
    <3>5. ASSUME NEW i \in 0..(indent_depth + 1)
          PROVE  i <= indent_stack'[i]
      <4>1. CASE i = indent_depth + 1
        BY <4>1, <1>1, <1>2, <3>1, <3>2
      <4>2. CASE i \in 0..indent_depth
        BY <4>2, <3>1, <3>2 DEF IInv, Rising
      <4> QED BY <4>1, <4>2, <3>2
    <3> QED BY <2>1, <3>3, <3>4, <3>5 DEF Rising
  <2>3. Balanced'
    BY <1>1, <2>1, LineBegins DEF IInv, LayoutTypeOK, Balanced, Give, Opens
  <2>4. indent_stack' \in [0..(MAX_INDENT_STACK - 1) -> Nat] /\ indent_depth' \in 0..(MAX_INDENT_STACK - 1)
    BY <1>1, <1>2, <1>3, <2>1, LineBegins
  <2> QED BY <1>1, <2>2, <2>3, <2>4, LineBegins, LineTokenKeepsIInv
<1>4. CASE ~(indent_depth < MAX_INDENT_STACK - 1)
  <2>1. indent_depth' = indent_depth /\ indent_stack' = indent_stack
    BY <1>4 DEF Indent
  <2>2. ~Shallow
    BY <1>1, <1>2, <1>4, LineBegins
  <2>3. Rising(indent_depth)' /\ Balanced'
    BY <2>1, <2>2 DEF IInv, Rising, Balanced
  <2> QED BY <1>1, <1>2, <2>1, <2>3, LineBegins, LineTokenKeepsIInv
<1> QED BY <1>3, <1>4

(* The blocks that a line closes are inside of the one it belongs to. *)
LEMMA ClosesBlocks ==
  ASSUME IInv, BeginLine, indent < indent_stack[indent_depth], PopTo(Outer)
  PROVE  /\ Outer \in 0..(indent_depth - 1) /\ indent_depth' = Outer
         /\ indent_stack' = indent_stack
         /\ indent_stack' \in [0..(MAX_INDENT_STACK - 1) -> Nat]
         /\ indent_depth' \in 0..(MAX_INDENT_STACK - 1)
         /\ Rising(indent_depth)'
<1>0. indent_stack \in [0..(MAX_INDENT_STACK - 1) -> Nat] /\ LayoutTypeOK
  BY DEF IInv, LayoutTypeOK
<1>1. indent \in Nat /\ indent_depth \in Nat
  BY LineBegins
<1>2. Outer \in 0..indent_depth /\ (Outer = 0 \/ indent_stack[Outer] <= indent)
  BY <1>0, <1>1, OuterIsOpen
<1>3. indent_depth # 0
  BY <1>1 DEF IInv, Rising
<1>4. Outer # indent_depth
  <2>1. indent_stack[indent_depth] \in Nat
    BY <1>0, LineBegins
  <2>2. Outer = indent_depth => indent_stack[indent_depth] <= indent
    BY <1>2, <1>3
  <2> QED BY <1>1, <2>1, <2>2
<1>5. indent_depth' = Outer /\ indent_stack' = indent_stack
  BY DEF PopTo
<1>6. Rising(indent_depth)'
  BY <1>1, <1>2, <1>5 DEF IInv, Rising
<1> QED BY <1>0, <1>1, <1>2, <1>4, <1>5, <1>6, LineBegins

LEMMA DedentStep == IInv /\ Dedent => IInv'
<1> SUFFICES ASSUME IInv, Dedent PROVE IInv'
  OBVIOUS
<1>1. /\ BeginLine /\ Give("DEDENT") /\ indent < indent_stack[indent_depth] /\ PopTo(Outer)
      /\ pending_dedents' = pending_dedents + (indent_depth - Outer) - 1
  BY DEF Dedent
<1>2. Outer \in 0..(indent_depth - 1) /\ pending_dedents' \in Nat
  BY <1>1, ClosesBlocks, LineBegins, SMTT(30)
<1>3. Balanced'
  BY <1>1, <1>2, ClosesBlocks, LineBegins DEF IInv, LayoutTypeOK, Balanced, Give, Opens
<1> QED BY <1>1, <1>2, <1>3, ClosesBlocks, LineTokenKeepsIInv

LEMMA InconsistentStep == IInv /\ Inconsistent => IInv'
<1> SUFFICES ASSUME IInv, Inconsistent PROVE IInv'
  OBVIOUS
<1>1. /\ BeginLine /\ Give("ERROR") /\ indent < indent_stack[indent_depth] /\ PopTo(Outer)
      /\ pending_dedents' = pending_dedents + (indent_depth - Outer)
  BY DEF Inconsistent
<1>2. Outer \in 0..(indent_depth - 1) /\ pending_dedents' \in Nat
  BY <1>1, ClosesBlocks, LineBegins
<1>3. Balanced'
  BY <1>1, <1>2, ClosesBlocks, LineBegins DEF IInv, LayoutTypeOK, Balanced, Give, Opens
<1> QED BY <1>1, <1>2, <1>3, ClosesBlocks, LineTokenKeepsIInv

LEMMA SameIndentStep == IInv /\ SameIndent => IInv'
<1> SUFFICES ASSUME IInv, SameIndent PROVE IInv'
  OBVIOUS
<1>1. /\ BeginLine /\ GoOnScanning /\ scanning
      /\ UNCHANGED <<indent_stack, indent_depth, pending_dedents, paren_depth>>
  BY DEF SameIndent, BeginLine
<1>2. source' = source
  BY <1>1 DEF GoOnScanning, source
<1>3. LayoutTypeOK'
  BY <1>1, <1>2, LineBegins DEF IInv, LayoutTypeOK, GoOnScanning
<1>4. Rising(indent_depth)' /\ NothingDueInLoop' /\ NoLineInBrackets'
  BY <1>1, LineBegins DEF IInv, GoOnScanning, Rising, NothingDueInLoop, NoLineInBrackets
<1>5. WordInLine' /\ Balanced' /\ EndsOutside'
  BY <1>1 DEF IInv, GoOnScanning, WordInLine, Balanced, EndsOutside
<1>6. ReadyToGoBack'
  BY <1>1, LineBegins DEF GoOnScanning, ReadyToGoBack
<1> QED BY <1>1, <1>3, <1>4, <1>5, <1>6 DEF IInv, GoOnScanning

-----------------------------------------------------------------------------
(* The rest of a line, and the end of the file. *)
LEMMA NewLineStep == IInv /\ NewLine => IInv'
<1> SUFFICES ASSUME IInv, NewLine PROVE IInv'
  OBVIOUS
<1>1. /\ scanning /\ Give("NEWLINE") /\ pos' = pos + 1 /\ at_line_start' = TRUE
      /\ UNCHANGED <<indent_stack, indent_depth, pending_dedents, paren_depth>>
      /\ pos <= Len(source) /\ KindAt(pos) \in {"nl", "cr"} /\ ~JoinsLines
  BY DEF NewLine, InLine
<1>2. source' = source
  BY <1>1 DEF Give, source
<1>3. LayoutTypeOK'
  <2>1. pos' \in 1..(Len(source) + 1)
    BY <1>1 DEF IInv, LayoutTypeOK
  <2>2. token' \in Tokens /\ open_blocks' = open_blocks + 0 /\ scanning' = FALSE
    BY <1>1 DEF Give, Opens, Tokens
  <2>3. open_blocks' \in Int
    BY <2>2 DEF IInv, LayoutTypeOK
  <2> QED BY <1>1, <1>2, <2>1, <2>2, <2>3 DEF IInv, LayoutTypeOK, Give
<1>4. paren_depth = 0
  BY <1>1 DEF IInv, LayoutTypeOK, JoinsLines
<1>5. Rising(indent_depth)' /\ NoLineInBrackets'
  BY <1>1, <1>4 DEF IInv, Rising, NoLineInBrackets
<1>6. NothingDueInLoop' /\ WordInLine' /\ EndsOutside'
  BY <1>1 DEF Give, NothingDueInLoop, WordInLine, EndsOutside
<1>7. Balanced'
  BY <1>1 DEF IInv, LayoutTypeOK, Balanced, Give, Opens
<1>8. ReadyToGoBack'
  BY <1>1, <1>2 DEF IInv, ReadyToGoBack, Rising, Give
<1> QED BY <1>1, <1>3, <1>5, <1>6, <1>7, <1>8 DEF IInv, Give

LEMMA ScanStep == IInv /\ Scan => IInv'
<1> SUFFICES ASSUME IInv, Scan PROVE IInv'
  OBVIOUS
<1> DEFINE t == IF KindAt(pos) = "backslash" THEN "ERROR" ELSE KindAt(pos)
<1>1. /\ scanning /\ ~AtLine /\ pos <= Len(source) /\ pos' = pos + 1 /\ Give(t)
      /\ KindAt(pos) \in {"word", "open", "close", "backslash"}
      /\ paren_depth' = Bracket(KindAt(pos))
      /\ UNCHANGED <<indent_stack, indent_depth, pending_dedents, at_line_start>>
  BY DEF Scan, InLine
<1>2. source' = source
  BY <1>1 DEF Give, source
<1>3. t \in {"word", "open", "close", "ERROR"}
  BY <1>1
<1>4. paren_depth' \in Nat
  BY <1>1 DEF IInv, LayoutTypeOK, Bracket
<1> HIDE DEF t
<1>5. open_blocks' = open_blocks /\ open_blocks \in Int
  BY <1>1, <1>3 DEF IInv, LayoutTypeOK, Give, Opens
<1>6. LayoutTypeOK'
  <2>1. pos' \in 1..(Len(source) + 1)
    BY <1>1 DEF IInv, LayoutTypeOK
  <2>2. token' \in Tokens /\ scanning' = FALSE /\ saved' = saved /\ taken' = taken
    BY <1>1, <1>3 DEF Give, Tokens
  <2> QED BY <1>1, <1>2, <1>4, <1>5, <2>1, <2>2 DEF IInv, LayoutTypeOK
<1>7. at_line_start = FALSE
  BY <1>1 DEF IInv, LayoutTypeOK, AtLine, NoLineInBrackets
<1>8. Rising(indent_depth)' /\ NoLineInBrackets' /\ NothingDueInLoop'
  BY <1>1, <1>7 DEF IInv, Rising, NoLineInBrackets, NothingDueInLoop, Give
<1>9. WordInLine' /\ EndsOutside'
  BY <1>1, <1>3, <1>7 DEF IInv, NothingDueInLoop, WordInLine, EndsOutside, Give
<1>10. Balanced'
  BY <1>1, <1>5 DEF IInv, Balanced
<1>11. ReadyToGoBack'
  BY <1>1, <1>2 DEF IInv, ReadyToGoBack, Rising, Give
<1> QED BY <1>1, <1>6, <1>8, <1>9, <1>10, <1>11 DEF IInv, Give

LEMMA EndOfFileStep == IInv /\ EndOfFile => IInv'
<1> SUFFICES ASSUME IInv, EndOfFile PROVE IInv'
  OBVIOUS
<1>1. /\ scanning /\ pos' = Len(source) + 1
      /\ UNCHANGED <<at_line_start, paren_depth, indent_stack>>
      /\ indent_depth' = 0
      /\ IF indent_depth > 0
         THEN pending_dedents' = indent_depth - 1 /\ Give("DEDENT")
         ELSE pending_dedents' = pending_dedents /\ Give("EOF")
  BY LayoutAssumption DEF EndOfFile, PopTo, IInv, LayoutTypeOK
<1>2. file' = file /\ saved' = saved /\ taken' = taken /\ scanning' = FALSE /\ source' = source
  BY <1>1 DEF Give, source
<1>3. indent_depth \in Nat /\ Len(source) \in Nat /\ MAX_INDENT_STACK \in Nat \ {0}
  BY LayoutAssumption DEF IInv, LayoutTypeOK
<1>4. pending_dedents = 0
  BY <1>1 DEF IInv, NothingDueInLoop
<1>5. /\ pending_dedents' \in Nat /\ token' \in {"DEDENT", "EOF"}
      /\ open_blocks' = open_blocks - (indent_depth - pending_dedents')
      /\ token' = "EOF" => pending_dedents' = 0
  BY <1>1, <1>3, <1>4 DEF IInv, LayoutTypeOK, Give, Opens
<1>6. LayoutTypeOK'
  <2>1. pos' \in 1..(Len(source) + 1) /\ indent_depth' \in 0..(MAX_INDENT_STACK - 1)
    BY <1>1, <1>3
  <2>2. open_blocks' \in Int /\ token' \in Tokens
    BY <1>3, <1>5 DEF IInv, LayoutTypeOK, Tokens
  <2> QED BY <1>1, <1>2, <1>5, <2>1, <2>2 DEF IInv, LayoutTypeOK
<1>7. Rising(indent_depth)' /\ NoLineInBrackets'
  BY <1>1, <1>3 DEF IInv, Rising, NoLineInBrackets
<1>8. NothingDueInLoop' /\ WordInLine' /\ EndsOutside'
  BY <1>1, <1>2, <1>5 DEF NothingDueInLoop, WordInLine, EndsOutside
<1>9. Balanced'
  BY <1>1, <1>3, <1>4, <1>5 DEF IInv, LayoutTypeOK, Balanced
<1>10. ReadyToGoBack'
  BY <1>1, <1>2 DEF IInv, ReadyToGoBack, Rising
<1> QED BY <1>2, <1>6, <1>7, <1>8, <1>9, <1>10 DEF IInv

-----------------------------------------------------------------------------
(* The parser. *)
LEMMA TakeStep == IInv /\ Take => IInv'
<1> SUFFICES ASSUME IInv, Take PROVE IInv'
  OBVIOUS
<1>1. /\ ~scanning /\ saved = NotSaved /\ saved' = saved /\ token # "EOF"
      /\ taken' = Append(taken, token)
      /\ UNCHANGED <<file, pos, indent_stack, indent_depth, at_line_start, paren_depth>>
      /\ IF pending_dedents > 0
         THEN /\ pending_dedents' = pending_dedents - 1 /\ scanning' = scanning
              /\ token' = "DEDENT" /\ open_blocks' = open_blocks - 1
         ELSE scanning' = TRUE /\ UNCHANGED <<pending_dedents, token, open_blocks>>
  BY DEF Take, lexer_advance
<1>2. source' = source
  BY <1>1 DEF source
<1>3. taken' \in Seq(Tokens)
  BY <1>1 DEF IInv, LayoutTypeOK
<1>4. pending_dedents' \in Nat /\ token' \in Tokens /\ scanning' \in BOOLEAN /\ open_blocks' \in Int
  <2>1. CASE pending_dedents > 0
    BY <1>1, <2>1 DEF IInv, LayoutTypeOK, Tokens
  <2>2. CASE ~(pending_dedents > 0)
    BY <1>1, <2>2 DEF IInv, LayoutTypeOK
  <2> QED BY <2>1, <2>2
<1>5. LayoutTypeOK'
  BY <1>1, <1>2, <1>3, <1>4 DEF IInv, LayoutTypeOK
<1>6. Rising(indent_depth)' /\ NoLineInBrackets' /\ ReadyToGoBack'
  BY <1>1 DEF IInv, Rising, NoLineInBrackets, ReadyToGoBack
<1>7. NothingDueInLoop' /\ EndsOutside'
  BY <1>1 DEF IInv, LayoutTypeOK, NothingDueInLoop, EndsOutside
<1>8. WordInLine' /\ Balanced'
  BY <1>1 DEF IInv, LayoutTypeOK, WordInLine, Balanced
<1> QED BY <1>1, <1>5, <1>6, <1>7, <1>8 DEF IInv

LEMMA LookAheadStep == IInv /\ LookAhead => IInv'
<1> SUFFICES ASSUME IInv, LookAhead PROVE IInv'
  OBVIOUS
<1>1. /\ ~scanning /\ token = "word" /\ pending_dedents = 0 /\ ~at_line_start
      /\ UNCHANGED <<file, pos, indent_stack, indent_depth, at_line_start, paren_depth, taken>>
      /\ saved' = [pos |-> pos, token |-> token, depth |-> indent_depth,
                   pending |-> pending_dedents, line |-> at_line_start,
                   paren |-> paren_depth, blocks |-> open_blocks]
      /\ scanning' = TRUE /\ UNCHANGED <<pending_dedents, token, open_blocks>>
  BY DEF LookAhead, lexer_advance, IInv, WordInLine
<1>2. source' = source
  BY <1>1 DEF source
<1>3. pos \in Nat
  BY DEF IInv, LayoutTypeOK
<1>4. saved' \in Position
  BY <1>1, <1>3 DEF IInv, LayoutTypeOK, Position
<1>5. LayoutTypeOK'
  BY <1>1, <1>2, <1>4 DEF IInv, LayoutTypeOK
<1>6. Rising(indent_depth)' /\ NoLineInBrackets' /\ NothingDueInLoop' /\ WordInLine'
  BY <1>1 DEF IInv, Rising, NoLineInBrackets, NothingDueInLoop, WordInLine
<1>7. Balanced' /\ EndsOutside'
  BY <1>1 DEF IInv, Balanced, EndsOutside
<1>8. Shallow => open_blocks = indent_depth
  BY <1>1 DEF IInv, LayoutTypeOK, Balanced
<1>9. ReadyToGoBack'
  BY <1>1, <1>2, <1>8 DEF IInv, LayoutTypeOK, ReadyToGoBack, Rising
<1> QED BY <1>1, <1>5, <1>6, <1>7, <1>9 DEF IInv

LEMMA GoBackStep == IInv /\ GoBack => IInv'
<1> SUFFICES ASSUME IInv, GoBack PROVE IInv'
  OBVIOUS
<1>1. /\ saved # NotSaved /\ saved' = NotSaved /\ ~scanning
      /\ pos' = saved.pos /\ token' = saved.token /\ indent_depth' = saved.depth
      /\ pending_dedents' = saved.pending /\ at_line_start' = saved.line
      /\ paren_depth' = saved.paren /\ open_blocks' = saved.blocks
      /\ UNCHANGED <<file, indent_stack, scanning, taken>>
  BY DEF GoBack, lexer_restore_pos
<1>2. source' = source
  BY <1>1 DEF source
<1>3. /\ saved.pos \in 1..(Len(source) + 1) /\ saved.token = "word" /\ saved.pending = 0
      /\ ~saved.line /\ Rising(saved.depth) /\ (Shallow => saved.blocks = saved.depth)
  BY <1>1 DEF IInv, ReadyToGoBack
<1>4. /\ saved.depth \in 0..(MAX_INDENT_STACK - 1) /\ saved.paren \in Nat
      /\ saved.blocks \in Int /\ saved.line \in BOOLEAN
  BY DEF IInv, LayoutTypeOK, Position
<1>5. NotSaved \in Position
  BY LayoutAssumption DEF NotSaved, Position, Tokens
<1>6. LayoutTypeOK'
  BY <1>1, <1>2, <1>3, <1>4, <1>5 DEF IInv, LayoutTypeOK, Tokens
<1>7. Rising(indent_depth)'
  BY <1>1, <1>3 DEF Rising
<1>8. NoLineInBrackets' /\ NothingDueInLoop' /\ WordInLine' /\ EndsOutside' /\ ReadyToGoBack'
  BY <1>1, <1>3 DEF NoLineInBrackets, NothingDueInLoop, WordInLine, EndsOutside, ReadyToGoBack
<1>9. Balanced'
  BY <1>1, <1>3, <1>4, LayoutAssumption DEF Balanced
<1> QED BY <1>1, <1>6, <1>7, <1>8, <1>9 DEF IInv

LEMMA GoOnStep == IInv /\ GoOn => IInv'
<1> SUFFICES ASSUME IInv, GoOn PROVE IInv'
  OBVIOUS
<1>1. /\ ~scanning /\ saved' = NotSaved /\ taken' = Append(taken, saved.token)
      /\ UNCHANGED <<file, pos, lexer, token, scanning, open_blocks>>
  BY DEF GoOn
<1>2. source' = source
  BY <1>1 DEF source
<1>3. taken' \in Seq(Tokens)
  BY <1>1 DEF IInv, LayoutTypeOK, Position
<1>4. NotSaved \in Position
  BY LayoutAssumption DEF NotSaved, Position, Tokens
<1>5. LayoutTypeOK'
  BY <1>1, <1>2, <1>3, <1>4 DEF IInv, LayoutTypeOK, lexer
<1>6. Rising(indent_depth)' /\ NoLineInBrackets' /\ NothingDueInLoop' /\ WordInLine'
  BY <1>1 DEF IInv, lexer, Rising, NoLineInBrackets, NothingDueInLoop, WordInLine
<1>7. Balanced' /\ EndsOutside' /\ ReadyToGoBack'
  BY <1>1 DEF IInv, lexer, Balanced, EndsOutside, ReadyToGoBack
<1> QED BY <1>1, <1>5, <1>6, <1>7 DEF IInv

LEMMA StutteringKeepsIInv == IInv /\ UNCHANGED vars => IInv'
<1> SUFFICES ASSUME IInv, UNCHANGED vars PROVE IInv'
  OBVIOUS
<1>1. source' = source
  BY DEF vars, source
<1>2. LayoutTypeOK'
  BY <1>1 DEF IInv, LayoutTypeOK, vars, lexer
<1>3. Rising(indent_depth)' /\ NoLineInBrackets' /\ NothingDueInLoop' /\ WordInLine'
  BY DEF IInv, vars, lexer, Rising, NoLineInBrackets, NothingDueInLoop, WordInLine
<1>4. Balanced' /\ EndsOutside'
  BY DEF IInv, vars, lexer, Balanced, EndsOutside
<1>5. ReadyToGoBack'
  BY <1>1 DEF IInv, vars, lexer, Rising, ReadyToGoBack
<1> QED BY <1>2, <1>3, <1>4, <1>5 DEF IInv, vars

LEMMA NextIInv == IInv /\ [Next]_vars => IInv'
BY SkipLineStep, IndentStep, DedentStep, InconsistentStep, SameIndentStep, SkipStep,
   NewLineStep, ScanStep, EndOfFileStep, TakeStep, LookAheadStep, GoBackStep, GoOnStep,
   StutteringKeepsIInv
DEF Next, Loop

LEMMA AlwaysIInv == Spec => []IInv
BY InitIInv, NextIInv, PTL DEF Spec

(* The position stays in the file, the depth in the stack, and no count    *)
(* goes below zero, through every look-ahead.                              *)
THEOREM LayoutTypeCorrect == Spec => []LayoutTypeOK
<1>1. IInv => LayoutTypeOK
  BY DEF IInv
<1> QED BY <1>1, AlwaysIInv, PTL

(* The blocks stay nested though a look-ahead restores the depth of the    *)
(* indentation stack only: no token between is the start of a line.        *)
THEOREM OpenBlocksStayNested == Spec => []OpenBlocksNested
<1>1. IInv => OpenBlocksNested
  BY DEF IInv, Rising, OpenBlocksNested
<1> QED BY <1>1, AlwaysIInv, PTL

(* Every INDENT has its DEDENT by the end of the file, for files whose     *)
(* lines start within MAX_INDENT_STACK columns.                            *)
THEOREM BlocksAlwaysBalance == Spec => []BlocksBalance
<1>1. IInv => BlocksBalance
  BY DEF IInv, LayoutTypeOK, Balanced, EndsOutside, BlocksBalance
<1> QED BY <1>1, AlwaysIInv, PTL

-----------------------------------------------------------------------------
(* The open brackets behind the symbols of a line. *)
Unclosed(d, kind) ==
  IF kind = "open" THEN d + 1 ELSE IF kind = "close" /\ d > 0 THEN d - 1 ELSE d

LEMMA DepthsRecursion ==
  ASSUME NEW T, NEW kinds \in Seq(T)
  PROVE  /\ \A k \in 0..Len(kinds) : Depths(kinds)[k] \in Nat
         /\ Depths(kinds)[0] = 0
         /\ \A k \in 1..Len(kinds) : Depths(kinds)[k] = Unclosed(Depths(kinds)[k - 1], kinds[k])
<1> DEFINE n == Len(kinds)
           Rec(depth) == [k \in 0..n |-> CASE k = 0 -> 0
                            [] k > 0 /\ kinds[k] = "open" -> depth[k - 1] + 1
                            [] k > 0 /\ kinds[k] = "close" /\ depth[k - 1] > 0 -> depth[k - 1] - 1
                            [] OTHER -> depth[k - 1]]
           next == [x \in Nat \X (1..n) |-> Unclosed(x[1], kinds[x[2]])]
<1>1. n \in Nat
  OBVIOUS
<1>2. next \in [Nat \X (1..n) -> Nat]
  BY DEF Unclosed
<1>3. PICK f \in [0..n -> Nat] : f[0] = 0 /\ \A k \in 1..n : f[k] = next[<<f[k - 1], k>>]
  <2>1. 0 \in Nat
    OBVIOUS
  <2> HIDE DEF next, n
  <2>2. Solutions(Nat, 0, n, next) # {}
    BY <1>1, <1>2, <2>1, Recursion
  <2> QED BY <2>2 DEF Solutions
<1>4. \A k \in 1..n : f[k] = Unclosed(f[k - 1], kinds[k])
  <2> TAKE k \in 1..n
  <2>1. <<f[k - 1], k>> \in Nat \X (1..n)
    BY <1>1
  <2> QED BY <1>3, <2>1
<1> HIDE DEF next
<1>5. ASSUME NEW h, NEW k \in 0..n
      PROVE  Rec(h)[k] = IF k = 0 THEN 0 ELSE Unclosed(h[k - 1], kinds[k])
  BY DEF Unclosed
<1>6. f = Rec(f)
  <2>1. \A k \in 0..n : f[k] = Rec(f)[k]
    <3> TAKE k \in 0..n
    <3>1. k = 0 \/ k \in 1..n
      BY <1>1
    <3> HIDE DEF Rec
    <3> QED BY <1>1, <1>3, <1>4, <1>5, <3>1
  <2>2. Rec(f) = [k \in 0..n |-> Rec(f)[k]]
    OBVIOUS
  <2> HIDE DEF Rec
  <2> QED BY <2>1, <2>2
<1>7. Depths(kinds) = CHOOSE h : h = Rec(h)
  BY DEF Depths
<1> DEFINE d == Depths(kinds)
<1>8. d = Rec(d)
  <2> HIDE DEF Rec
  <2> QED BY <1>6, <1>7
<1> HIDE DEF d, Rec
<1>9. d[0] = 0 /\ \A k \in 1..n : d[k] = Unclosed(d[k - 1], kinds[k])
  <2>1. 0 \in 0..n /\ \A k \in 1..n : k \in 0..n /\ k # 0
    BY <1>1
  <2> QED BY <1>5, <1>8, <2>1
<1>10. \A k \in 0..n : d[k] \in Nat
  <2>1. ASSUME NEW k \in 1..n, d[k - 1] \in Nat PROVE d[k] \in Nat
    <3>1. d[k] = Unclosed(d[k - 1], kinds[k])
      BY <1>9
    <3> DEFINE x == d[k - 1]
    <3>2. x \in Nat
      BY <2>1
    <3> HIDE DEF x
    <3>3. Unclosed(x, kinds[k]) \in Nat
      BY <3>2 DEF Unclosed
    <3> QED BY <3>1, <3>3 DEF x
  <2>2. n \in Nat /\ d[0] \in Nat
    BY <1>1, <1>9
  <2> HIDE DEF n
  <2>3. \A k \in 1..n : d[k - 1] \in Nat => d[k] \in Nat
    BY <2>1
  <2> QED BY <2>2, <2>3, AllOfType
<1> QED BY <1>9, <1>10 DEF d

-----------------------------------------------------------------------------
(* Tabs. *)
LEMMA EuclideanDivision ==
  ASSUME NEW w \in Int
  PROVE  w = 8 * (w \div 8) + (w % 8) /\ w % 8 \in 0..7 /\ w \div 8 \in Int
<1>1. w = 8 * (w \div 8) + (w % 8)
  BY Z3
<1>2. w % 8 \in 0..7
  OBVIOUS
<1>3. w \div 8 \in Int
  OBVIOUS
<1> QED BY <1>1, <1>2, <1>3

LEMMA NextTab ==
  ASSUME NEW w \in Nat, NEW v \in (w + 1)..(w + 8), v % 8 = 0
  PROVE  v = (w \div 8 + 1) * 8
<1>0. w \in Int /\ v \in Int
  OBVIOUS
<1>1. w = 8 * (w \div 8) + (w % 8) /\ w % 8 \in 0..7 /\ w \div 8 \in Int
  BY <1>0, EuclideanDivision
<1>2. v = 8 * (v \div 8) + (v % 8) /\ v \div 8 \in Int
  BY <1>0, EuclideanDivision
<1> DEFINE a == w \div 8
           b == v \div 8
<1> HIDE DEF a, b
<1>3. b = a + 1
  BY <1>1, <1>2 DEF a, b
<1> QED BY <1>2, <1>3 DEF a, b

LEMMA TabStops ==
  ASSUME NEW w \in Nat
  PROVE  (CHOOSE v \in (w + 1)..(w + 8) : v % 8 = 0) = AfterBlank(w, "\t")
<1> DEFINE t == (w \div 8 + 1) * 8
<1>1. t \in (w + 1)..(w + 8) /\ t % 8 = 0
  <2>1. w = 8 * (w \div 8) + (w % 8) /\ w % 8 \in 0..7 /\ w \div 8 \in Int
    BY EuclideanDivision
  <2> DEFINE a == w \div 8
  <2> HIDE DEF a
  <2>2. a \in Nat /\ w \in (8 * a)..(8 * a + 7)
    BY <2>1 DEF a
  <2>3. (a + 1) * 8 \in (w + 1)..(w + 8)
    BY <2>2
  <2>4. ((a + 1) * 8) % 8 = 0
    BY <2>2
  <2> QED BY <2>3, <2>4 DEF a
<1>2. \A v \in (w + 1)..(w + 8) : v % 8 = 0 => v = t
  BY NextTab
<1> HIDE DEF t
<1>3. (CHOOSE v \in (w + 1)..(w + 8) : v % 8 = 0) = t
  BY <1>1, <1>2
<1> QED BY <1>3 DEF AfterBlank, t

LEMMA WidthIsCounted ==
  ASSUME NEW run \in Seq(Blanks)
  PROVE  /\ lexer_count_indent(run) = Width(run) /\ Width(run) \in Nat
         /\ run = <<>> => Width(run) = 0
<1> DEFINE n == Len(run)
           Rec(h) == [k \in 0..n |-> IF k = 0 THEN 0 ELSE AfterBlank(h[k - 1], run[k])]
           Wide(h) == [k \in 0..n |->
                         IF k = 0 THEN 0
                         ELSE IF run[k] = " " THEN h[k - 1] + 1
                         ELSE CHOOSE w \in (h[k - 1] + 1)..(h[k - 1] + 8) : w % 8 = 0]
           next == [x \in Nat \X (1..n) |-> AfterBlank(x[1], run[x[2]])]
<1>1. n \in Nat
  OBVIOUS
<1>0. \A k \in 1..n : run[k] \in {" ", "\t"}
  <2>2. \A k \in 1..n : run[k] \in Blanks
    OBVIOUS
  <2> QED BY <2>2 DEF Blanks
<1>2. next \in [Nat \X (1..n) -> Nat]
  BY DEF AfterBlank
<1>3. PICK f \in [0..n -> Nat] : f[0] = 0 /\ \A k \in 1..n : f[k] = next[<<f[k - 1], k>>]
  <2>1. 0 \in Nat
    OBVIOUS
  <2> HIDE DEF next, n
  <2>2. Solutions(Nat, 0, n, next) # {}
    BY <1>1, <1>2, <2>1, Recursion
  <2> QED BY <2>2 DEF Solutions
<1>4. \A k \in 1..n : f[k] = AfterBlank(f[k - 1], run[k])
  <2> TAKE k \in 1..n
  <2>1. <<f[k - 1], k>> \in Nat \X (1..n)
    BY <1>1
  <2> QED BY <1>3, <2>1
<1> HIDE DEF next
<1>5. ASSUME NEW h, NEW k \in 0..n
      PROVE  /\ Rec(h)[k] = IF k = 0 THEN 0 ELSE AfterBlank(h[k - 1], run[k])
             /\ k > 0 /\ h[k - 1] \in Nat => Wide(h)[k] = AfterBlank(h[k - 1], run[k])
             /\ Wide(h)[0] = 0
  <2>1. Rec(h)[k] = IF k = 0 THEN 0 ELSE AfterBlank(h[k - 1], run[k])
    OBVIOUS
  <2>2. ASSUME k > 0, h[k - 1] \in Nat PROVE Wide(h)[k] = AfterBlank(h[k - 1], run[k])
    <3>1. k \in 1..n /\ k # 0
      BY <2>2
    <3>2. CASE run[k] = " "
      BY <3>1, <3>2 DEF AfterBlank
    <3>3. CASE run[k] = "\t"
      <4> DEFINE u == h[k - 1]
      <4>1. Wide(h)[k] = CHOOSE w \in (u + 1)..(u + 8) : w % 8 = 0
        BY <3>1, <3>3
      <4>2. u \in Nat
        BY <2>2
      <4> HIDE DEF u, Wide
      <4>3. Wide(h)[k] = AfterBlank(u, "\t")
        BY <4>1, <4>2, TabStops
      <4> QED BY <3>3, <4>3 DEF u
    <3> QED BY <1>0, <3>1, <3>2, <3>3
  <2>3. Wide(h)[0] = 0
    BY <1>1
  <2> QED BY <2>1, <2>2, <2>3
<1>6. f = Rec(f) /\ f = Wide(f)
  <2>1. \A k \in 0..n : f[k] = Rec(f)[k] /\ f[k] = Wide(f)[k]
    <3> TAKE k \in 0..n
    <3>1. CASE k = 0
      <4> HIDE DEF Rec, Wide
      <4> QED BY <1>3, <1>5, <3>1
    <3>2. CASE k \in 1..n
      <4>1. k > 0 /\ k # 0 /\ f[k - 1] \in Nat
        BY <3>2
      <4>2. k \in 0..n
        BY <1>1, <3>2
      <4> HIDE DEF Rec, Wide, n
      <4>3. f[k] = AfterBlank(f[k - 1], run[k])
        BY <1>4, <3>2
      <4>4. Rec(f)[k] = AfterBlank(f[k - 1], run[k])
        BY <1>5, <4>1, <4>2
      <4>5. Wide(f)[k] = AfterBlank(f[k - 1], run[k])
        BY <1>5, <4>1, <4>2
      <4> QED BY <4>3, <4>4, <4>5
    <3>3. k = 0 \/ k \in 1..n
      BY <1>1
    <3> HIDE DEF Rec, Wide, n
    <3> QED BY <3>1, <3>2, <3>3
  <2>2. Rec(f) = [k \in 0..n |-> Rec(f)[k]] /\ Wide(f) = [k \in 0..n |-> Wide(f)[k]]
    OBVIOUS
  <2> HIDE DEF Rec, Wide
  <2> QED BY <2>1, <2>2
<1> DEFINE c == Column(run)
           d == Columns(run)
<1>7. c = Rec(c)
  <2>1. c = CHOOSE h : h = Rec(h)
    BY DEF Column
  <2> HIDE DEF c, Rec
  <2> QED BY <1>6, <2>1
<1>8. d = Wide(d)
  <2>1. d = CHOOSE h : h = Wide(h)
    BY DEF Columns
  <2> HIDE DEF d, Wide
  <2> QED BY <1>6, <2>1
<1> HIDE DEF c, d, Rec, Wide
<1>9. c[0] = 0 /\ d[0] = 0
  BY <1>1, <1>5, <1>7, <1>8
<1>10. ASSUME NEW k \in 1..n PROVE c[k] = AfterBlank(c[k - 1], run[k])
  <2>1. k \in 0..n /\ k # 0
    BY <1>1
  <2> QED BY <1>5, <1>7, <2>1
<1>11. ASSUME NEW k \in 1..n, d[k - 1] \in Nat PROVE d[k] = AfterBlank(d[k - 1], run[k])
  <2>1. k \in 0..n /\ k > 0
    BY <1>1
  <2> QED BY <1>5, <1>8, <1>11, <2>1
<1>12. \A k \in 0..n : d[k] \in Nat
  <2>1. ASSUME NEW k \in 1..n, d[k - 1] \in Nat PROVE d[k] \in Nat
    <3>1. d[k] = AfterBlank(d[k - 1], run[k])
      BY <1>11, <2>1
    <3> DEFINE x == d[k - 1]
    <3>2. x \in Nat
      BY <2>1
    <3> HIDE DEF x
    <3>3. AfterBlank(x, run[k]) \in Nat
      <4>1. x \div 8 \in Nat
        BY <3>2
      <4> QED BY <3>2, <4>1 DEF AfterBlank
    <3> QED BY <3>1, <3>3 DEF x
  <2>2. n \in Nat /\ d[0] \in Nat
    BY <1>1, <1>9
  <2> HIDE DEF n
  <2>3. \A k \in 1..n : d[k - 1] \in Nat => d[k] \in Nat
    BY <2>1
  <2> QED BY <2>2, <2>3, AllOfType
<1> DEFINE S == {k \in 0..n : c[k] = d[k]}
<1>13. 0 \in S
  BY <1>1, <1>9
<1>14. \A k \in 0..(n - 1) : k \in S => k + 1 \in S
  <2> SUFFICES ASSUME NEW k \in 0..(n - 1), c[k] = d[k] PROVE k + 1 \in 0..n /\ c[k + 1] = d[k + 1]
    OBVIOUS
  <2> DEFINE m == k + 1
  <2>1. m \in 1..n /\ m - 1 = k /\ m \in 0..n /\ k \in 0..n
    BY <1>1
  <2> HIDE DEF m
  <2>2. c[m] = AfterBlank(c[m - 1], run[m]) /\ d[m] = AfterBlank(d[m - 1], run[m])
    BY <1>10, <1>11, <1>12, <2>1
  <2> QED BY <2>1, <2>2 DEF m
<1> HIDE DEF S
<1>15. \A k \in 0..n : k \in S
  BY <1>1, <1>13, <1>14, CountUp
<1>16. n \in S /\ n \in 0..n
  BY <1>1, <1>15
<1>17. c[n] = d[n] /\ d[n] \in Nat
  BY <1>12, <1>16 DEF S
<1>18. run = <<>> => d[n] = 0
  BY <1>9
<1> QED BY <1>17, <1>18 DEF c, d, lexer_count_indent, Width

-----------------------------------------------------------------------------
(* The lines of a file. *)
Size(f) == Len(f.lines)

LEMMA LinesOfFile ==
  ASSUME NEW f \in Files
  PROVE  /\ Size(f) \in Nat /\ f.text = Text(f.lines) /\ f.tokens = FileTokens(f.lines)
         /\ \A k \in 1..Size(f) :
              /\ f.lines[k] \in Lines /\ f.lines[k].end \in {"lf", "crlf", "none"}
              /\ IsLogical(f.lines[k]) => IsBody(f.lines[k])
              /\ f.lines[k].end = "none" => k = Size(f)
<1>1. IsFile(f.lines) /\ f.text = Text(f.lines) /\ f.tokens = FileTokens(f.lines)
  BY LinesAssumption
<1>2. /\ f.lines \in Seq(Lines)
      /\ \A k \in 1..Size(f) : /\ IsLogical(f.lines[k]) => IsBody(f.lines[k])
                               /\ f.lines[k].end = "none" => k = Size(f)
  BY <1>1 DEF IsFile, Size
<1>3. Size(f) \in Nat /\ \A k \in 1..Size(f) : f.lines[k] \in Lines
  BY <1>2 DEF Size
<1>4. \A line \in Lines : line.end \in {"lf", "crlf", "none"}
  BY DEF Lines
<1> QED BY <1>1, <1>2, <1>3, <1>4

LEMMA KindsOfLine ==
  ASSUME NEW f \in Files, NEW k \in 1..Size(f)
  PROVE  /\ f.lines[k].run \in Seq(Blanks) /\ f.lines[k].body \in Seq(BodyKinds)
         /\ LineKinds(f.lines[k]) \in Seq(BodyKinds)
         /\ Len(f.lines[k].body) \in Nat /\ Len(LineKinds(f.lines[k])) \in Nat
<1> DEFINE line == f.lines[k]
<1>1. line \in Lines
  BY LinesOfFile
<1> HIDE DEF line
<1>2. line.run \in Seq(Blanks) /\ line.body \in Seq(BodyKinds) /\ line.end \in {"lf", "crlf", "none"}
  BY <1>1 DEF Lines
<1>3. EndText(line.end) \in Seq(BodyKinds)
  <2>1. "nl" \in BodyKinds /\ "cr" \in BodyKinds
    BY DEF BodyKinds
  <2> HIDE DEF line
  <2>2. line.end = "lf" => EndText(line.end) = <<"nl">>
    BY DEF EndText
  <2>3. line.end = "crlf" => EndText(line.end) = <<"cr", "nl">>
    BY DEF EndText
  <2>4. line.end = "none" => EndText(line.end) = <<>>
    BY DEF EndText
  <2>5. <<"nl">> \in Seq(BodyKinds) /\ <<>> \in Seq(BodyKinds)
    BY <2>1
  <2>6. <<"cr", "nl">> \in Seq(BodyKinds)
    BY <2>1
  <2> QED BY <1>2, <2>2, <2>3, <2>4, <2>5, <2>6
<1>4. LineKinds(line) \in Seq(BodyKinds)
  BY <1>2, <1>3, ConcatProperties DEF LineKinds
<1>5. Len(line.body) \in Nat /\ Len(LineKinds(line)) \in Nat
  BY <1>2, <1>4
<1> QED BY <1>2, <1>4, <1>5 DEF line

-----------------------------------------------------------------------------
(* The blocks behind a line. *)
LEMMA Indentations ==
  ASSUME NEW f \in Files, NEW k \in 0..Size(f)
  PROVE  Indentation(f.lines, k) \in Nat
<1>1. CASE k = 0
  BY <1>1 DEF Indentation
<1>2. CASE k # 0
  <2>1. k \in 1..Size(f)
    BY <1>2, LinesOfFile
  <2>2. f.lines[k].run \in Seq(Blanks)
    BY <2>1, KindsOfLine
  <2> QED BY <1>2, <2>2, WidthIsCounted DEF Indentation
<1> QED BY <1>1, <1>2

(* Line j is in a block of its own behind line k. *)
OpensBlock(ls, k, j) ==
  \A i \in Counting(ls, k) : i > j => Indentation(ls, i) > Indentation(ls, j)

LEMMA BlocksByLines ==
  ASSUME NEW ls, NEW k, NEW b
  PROVE  b \in Blocks(ls, k) <=>
           \E j \in Counting(ls, k) : OpensBlock(ls, k, j) /\ b = Indentation(ls, j)
BY DEF Blocks, LastOfBlocks, OpensBlock

LEMMA FirstBlock ==
  ASSUME NEW f \in Files
  PROVE  Blocks(f.lines, 0) = {0}
<1>1. Counting(f.lines, 0) = {0}
  BY DEF Counting
<1>2. \A b : b \in Blocks(f.lines, 0) <=> b = 0
  <2>1. OpensBlock(f.lines, 0, 0)
    BY <1>1 DEF OpensBlock
  <2> QED BY <1>1, <2>1, BlocksByLines DEF Indentation
<1> QED BY <1>2

LEMMA NoNewBlock ==
  ASSUME NEW f \in Files, NEW k \in 1..Size(f), ~IsLogical(f.lines[k])
  PROVE  Blocks(f.lines, k) = Blocks(f.lines, k - 1)
<1>0. k \in Nat
  BY LinesOfFile
<1>1. Counting(f.lines, k) = Counting(f.lines, k - 1)
  BY <1>0 DEF Counting
<1> QED BY <1>1 DEF Blocks, LastOfBlocks

LEMMA NewBlocks ==
  ASSUME NEW f \in Files, NEW k \in 1..Size(f), IsLogical(f.lines[k])
  PROVE  \A b : b \in Blocks(f.lines, k) <=>
                  \/ b = Indentation(f.lines, k)
                  \/ b \in Blocks(f.lines, k - 1) /\ b < Indentation(f.lines, k)
<1> DEFINE ls == f.lines
           old == Counting(ls, k - 1)
           new == Counting(ls, k)
<1>0. k \in Nat /\ k > 0 /\ k - 1 \in Nat
  BY LinesOfFile
<1>1. new = old \cup {k} /\ \A j \in old : j < k /\ j \in Nat
  BY <1>0 DEF Counting
<1>2. \A j \in new : Indentation(ls, j) \in Nat
  <2>1. \A j \in new : j \in 0..Size(f)
    BY <1>0, <1>1, LinesOfFile
  <2> QED BY <2>1, Indentations
<1> HIDE DEF ls, old, new
<1>3. OpensBlock(ls, k, k)
  <2>1. \A i \in new : ~(i > k)
    BY <1>0, <1>1
  <2> QED BY <2>1 DEF OpensBlock, new
<1>4. ASSUME NEW j \in old
      PROVE  OpensBlock(ls, k, j) <=> OpensBlock(ls, k - 1, j) /\ Indentation(ls, j) < Indentation(ls, k)
  <2>1. k > j
    BY <1>0, <1>1
  <2>2. Indentation(ls, j) \in Nat /\ Indentation(ls, k) \in Nat
    BY <1>1, <1>2
  <2>3. OpensBlock(ls, k, j) <=>
          (\A i \in old : i > j => Indentation(ls, i) > Indentation(ls, j))
            /\ Indentation(ls, k) > Indentation(ls, j)
    BY <1>1, <2>1 DEF OpensBlock, new
  <2> QED BY <2>2, <2>3 DEF OpensBlock, old
<1>5. ASSUME NEW b
      PROVE  b \in Blocks(ls, k) <=>
               b = Indentation(ls, k) \/ (b \in Blocks(ls, k - 1) /\ b < Indentation(ls, k))
  <2>1. b \in Blocks(ls, k) <=> \E j \in new : OpensBlock(ls, k, j) /\ b = Indentation(ls, j)
    BY BlocksByLines DEF new
  <2>2. b \in Blocks(ls, k - 1) <=> \E j \in old : OpensBlock(ls, k - 1, j) /\ b = Indentation(ls, j)
    BY BlocksByLines DEF old
  <2> QED BY <1>1, <1>3, <1>4, <2>1, <2>2
<1> QED BY <1>5 DEF ls

LEMMA BlocksAreFinite ==
  ASSUME NEW f \in Files, NEW k \in 0..Size(f)
  PROVE  IsFiniteSet(Blocks(f.lines, k)) /\ Blocks(f.lines, k) \subseteq Nat
<1> DEFINE ls == f.lines
           S == {j \in Counting(ls, k) : \A i \in Counting(ls, k) :
                   i > j => Indentation(ls, i) > Indentation(ls, j)}
<1>1. k \in Nat
  BY LinesOfFile
<1>2. S \subseteq 0..k /\ IsFiniteSet(0..k)
  <2>1. Counting(ls, k) \subseteq 0..k
    BY <1>1 DEF Counting
  <2> QED BY <1>1, <2>1, FS_Interval
<1>3. IsFiniteSet(S)
  BY <1>2, FS_Subset
<1>4. \A j \in 0..k : Indentation(ls, j) \in Nat
  <2>1. 0..k \subseteq 0..Size(f)
    BY <1>1, LinesOfFile
  <2> QED BY <2>1, Indentations
<1>5. Blocks(ls, k) = {Indentation(ls, j) : j \in S}
  BY DEF Blocks, LastOfBlocks
<1> HIDE DEF S, ls
<1>6. IsFiniteSet(Blocks(ls, k))
  <2> DEFINE g == [j \in S |-> Indentation(ls, j)]
             B == Blocks(ls, k)
  <2>1. g \in Surjection(S, B)
    BY <1>5 DEF Surjection
  <2> HIDE DEF g, B
  <2> QED BY <1>3, <2>1, FS_Surjection DEF B
<1> QED BY <1>2, <1>4, <1>5, <1>6 DEF ls

-----------------------------------------------------------------------------
(* The text of a file, line by line. *)
Margin(line) == Len(Blank(line.run))

Texts(f) == [k \in 1..Size(f) |-> LineText(f.lines[k])]

(* The symbols up to line k, and those in front of its body. *)
Behind(f, k) == Len(FlatTo(Texts(f), k))

BodyAt(f, k) == Behind(f, k - 1) + Margin(f.lines[k])

KindIn(f, p) == IF p > Len(f.text) THEN "end" ELSE f.text[p].kind

LineSymbols == [kind : BodyKinds, run : Seq(Blanks)]

LEMMA TextOfLine ==
  ASSUME NEW f \in Files, NEW k \in 1..Size(f)
  PROVE  /\ LineText(f.lines[k]) \in Seq(LineSymbols)
         /\ Margin(f.lines[k]) = IF f.lines[k].run = <<>> THEN 0 ELSE 1
         /\ Len(LineText(f.lines[k])) = Margin(f.lines[k]) + Len(LineKinds(f.lines[k]))
         /\ f.lines[k].run # <<>> =>
              LineText(f.lines[k])[1] = [kind |-> "blank", run |-> f.lines[k].run]
         /\ \A j \in 1..Len(LineKinds(f.lines[k])) :
              LineText(f.lines[k])[Margin(f.lines[k]) + j].kind = LineKinds(f.lines[k])[j]
<1> DEFINE line == f.lines[k]
           kinds == LineKinds(line)
           syms == Syms(kinds)
           blank == Blank(line.run)
<1>1. line.run \in Seq(Blanks) /\ kinds \in Seq(BodyKinds) /\ Len(kinds) \in Nat
  BY KindsOfLine
<1> HIDE DEF line, kinds
<1>2. /\ syms \in Seq(LineSymbols) /\ Len(syms) = Len(kinds)
      /\ \A j \in 1..Len(kinds) : syms[j].kind = kinds[j]
  <2>1. \A j \in 1..Len(kinds) : kinds[j] \in BodyKinds
    BY <1>1
  <2>2. <<>> \in Seq(Blanks)
    OBVIOUS
  <2>3. \A j \in 1..Len(kinds) : [kind |-> kinds[j], run |-> <<>>] \in LineSymbols
    BY <2>1, <2>2 DEF LineSymbols
  <2>4. syms = [j \in 1..Len(kinds) |-> [kind |-> kinds[j], run |-> <<>>]]
    BY DEF Syms
  <2> QED BY <1>1, <2>3, <2>4
<1>3. /\ blank \in Seq(LineSymbols)
      /\ Len(blank) = IF line.run = <<>> THEN 0 ELSE 1
      /\ line.run # <<>> => blank[1] = [kind |-> "blank", run |-> line.run]
  <2>1. CASE line.run = <<>>
    BY <2>1 DEF Blank
  <2>2. CASE line.run # <<>>
    <3>1. blank = <<[kind |-> "blank", run |-> line.run]>>
      BY <2>2 DEF Blank
    <3>2. [kind |-> "blank", run |-> line.run] \in LineSymbols
      BY <1>1 DEF LineSymbols, BodyKinds
    <3> QED BY <2>2, <3>1, <3>2
  <2> QED BY <2>1, <2>2
<1>4. LineText(line) = blank \o syms
  BY DEF LineText, kinds
<1> HIDE DEF syms, blank
<1>5. /\ LiesBehind(LineText(line), 0, blank) /\ LiesBehind(LineText(line), Len(blank), syms)
      /\ Len(LineText(line)) = Len(blank) + Len(syms) /\ LineText(line) \in Seq(LineSymbols)
  <2>1. blank \in Seq(LineSymbols) /\ syms \in Seq(LineSymbols)
    BY <1>2, <1>3
  <2>2. /\ LiesBehind(blank \o syms, 0, blank) /\ LiesBehind(blank \o syms, Len(blank), syms)
        /\ Len(blank \o syms) = Len(blank) + Len(syms)
    BY <2>1, PartsOfConcat
  <2>3. blank \o syms \in Seq(LineSymbols)
    BY <2>1
  <2> QED BY <1>4, <2>2, <2>3
<1>6. Margin(line) = Len(blank)
  BY DEF Margin, blank
<1>7. ASSUME line.run # <<>>
      PROVE  LineText(line)[1] = [kind |-> "blank", run |-> line.run]
  <2>1. 1 \in 1..Len(blank) /\ 0 + 1 = 1
    BY <1>3, <1>7
  <2>2. LineText(line)[0 + 1] = blank[1]
    BY <1>5, <2>1, Zenon DEF LiesBehind
  <2> QED BY <1>3, <1>7, <2>1, <2>2
<1>8. \A j \in 1..Len(kinds) : LineText(line)[Margin(line) + j].kind = kinds[j]
  BY <1>2, <1>5, <1>6 DEF LiesBehind
<1> QED BY <1>2, <1>3, <1>5, <1>6, <1>7, <1>8 DEF line, kinds

LEMMA TextsOfFile ==
  ASSUME NEW f \in Files
  PROVE  /\ Texts(f) \in Seq(Seq(LineSymbols)) /\ Len(Texts(f)) = Size(f)
         /\ f.text = FlattenSeq(Texts(f))
<1>1. Size(f) \in Nat
  BY LinesOfFile
<1>2. \A k \in 1..Size(f) : LineText(f.lines[k]) \in Seq(LineSymbols)
  BY TextOfLine
<1>3. f.text = FlattenSeq(Texts(f))
  BY LinesOfFile DEF Text, Texts, Size
<1> QED BY <1>1, <1>2, <1>3 DEF Texts

LEMMA LinePlaces ==
  ASSUME NEW f \in Files
  PROVE  /\ f.text \in Seq(LineSymbols) /\ Len(f.text) \in Nat
         /\ Behind(f, 0) = 0 /\ Behind(f, Size(f)) = Len(f.text)
         /\ \A k \in 0..Size(f) : Behind(f, k) \in Nat
<1>1. Texts(f) \in Seq(Seq(LineSymbols)) /\ Len(Texts(f)) = Size(f) /\ f.text = FlattenSeq(Texts(f))
  BY TextsOfFile
<1>2. FlattenSeq(Texts(f)) \in Seq(LineSymbols)
  BY <1>1, FlattenedAt
<1>3. \A k \in 0..Len(Texts(f)) : Len(FlatTo(Texts(f), k)) \in Nat
  BY <1>1, FlattenedAt
<1>4. Len(FlatTo(Texts(f), 0)) = 0
  BY <1>1, FlattenedAt
<1>5. Len(FlatTo(Texts(f), Len(Texts(f)))) = Len(FlattenSeq(Texts(f)))
  BY <1>1, FlattenedAt
<1> QED BY <1>1, <1>2, <1>3, <1>4, <1>5 DEF Behind

LEMMA LinePlace ==
  ASSUME NEW f \in Files, NEW k \in 1..Size(f)
  PROVE  /\ Behind(f, k - 1) \in Nat /\ BodyAt(f, k) \in Nat /\ Behind(f, k) \in Nat
         /\ BodyAt(f, k) = Behind(f, k - 1) + (IF f.lines[k].run = <<>> THEN 0 ELSE 1)
         /\ Behind(f, k) = BodyAt(f, k) + Len(LineKinds(f.lines[k]))
         /\ Behind(f, k) <= Len(f.text)
         /\ f.lines[k].run # <<>> =>
              f.text[Behind(f, k - 1) + 1] = [kind |-> "blank", run |-> f.lines[k].run]
<1> DEFINE s == LineText(f.lines[k])
           m == Behind(f, k - 1)
<1>1. Texts(f) \in Seq(Seq(LineSymbols)) /\ Len(Texts(f)) = Size(f) /\ f.text = FlattenSeq(Texts(f))
  BY TextsOfFile
<1>2. k \in 1..Size(f) /\ k \in 0..Size(f) /\ k - 1 \in 0..Size(f) /\ Texts(f)[k] = s
  BY LinesOfFile DEF Texts
<1>3. m \in Nat /\ Behind(f, k) \in Nat /\ Len(f.text) \in Nat
  BY <1>2, LinePlaces
<1>4. Behind(f, k) = m + Len(s) /\ LiesBehind(f.text, m, s)
  BY <1>1, <1>2, FlattenedAt DEF Behind
<1>5. Len(LineKinds(f.lines[k])) \in Nat /\ Margin(f.lines[k]) \in {0, 1}
      /\ Len(s) = Margin(f.lines[k]) + Len(LineKinds(f.lines[k]))
  BY KindsOfLine, TextOfLine
<1>6. ASSUME f.lines[k].run # <<>>
      PROVE  f.text[m + 1] = [kind |-> "blank", run |-> f.lines[k].run]
  <2>1. 1 \in 1..Len(s) /\ s[1] = [kind |-> "blank", run |-> f.lines[k].run]
    BY <1>5, <1>6, TextOfLine
  <2> HIDE DEF s, m
  <2> QED BY <1>4, <2>1 DEF LiesBehind
<1>7. Behind(f, k) <= Len(f.text)
  BY <1>3, <1>4, <1>5 DEF LiesBehind
<1>8. BodyAt(f, k) = m + Margin(f.lines[k])
  BY DEF BodyAt
<1>9. Margin(f.lines[k]) = (IF f.lines[k].run = <<>> THEN 0 ELSE 1)
  BY TextOfLine
<1>10. BodyAt(f, k) \in Nat /\ Behind(f, k) = BodyAt(f, k) + Len(LineKinds(f.lines[k]))
  <2> DEFINE g == Margin(f.lines[k])
             n == Len(LineKinds(f.lines[k]))
             b == Behind(f, k)
  <2>1. /\ m \in Nat /\ g \in {0, 1} /\ n \in Nat
        /\ b = m + Len(s) /\ Len(s) = g + n /\ BodyAt(f, k) = m + g
    BY <1>3, <1>4, <1>5, <1>8
  <2> HIDE DEF s, m, g, n, b
  <2>2. m + g \in Nat /\ m + (g + n) = (m + g) + n
    BY <2>1
  <2>3. BodyAt(f, k) \in Nat /\ b = BodyAt(f, k) + n
    BY <2>1, <2>2
  <2> QED BY <2>3 DEF n, b
<1> QED BY <1>3, <1>6, <1>7, <1>8, <1>9, <1>10

LEMMA SymbolPlace ==
  ASSUME NEW f \in Files, NEW k \in 1..Size(f), NEW j \in 1..Len(LineKinds(f.lines[k]))
  PROVE  KindIn(f, BodyAt(f, k) + j) = LineKinds(f.lines[k])[j]
<1> DEFINE s == LineText(f.lines[k])
           m == Behind(f, k - 1)
           g == Margin(f.lines[k])
           kinds == LineKinds(f.lines[k])
<1>1. Texts(f) \in Seq(Seq(LineSymbols)) /\ Len(Texts(f)) = Size(f) /\ f.text = FlattenSeq(Texts(f))
  BY TextsOfFile
<1>2. k \in 1..Size(f) /\ Texts(f)[k] = s
  BY DEF Texts
<1>3. m \in Nat /\ Len(f.text) \in Nat /\ Behind(f, k) <= Len(f.text) /\ Behind(f, k) \in Nat
  BY LinePlace, LinePlaces
<1>4. Behind(f, k) = m + Len(s) /\ LiesBehind(f.text, m, s)
  BY <1>1, <1>2, FlattenedAt DEF Behind
<1>5. /\ Len(kinds) \in Nat /\ g \in {0, 1} /\ Len(s) = g + Len(kinds)
      /\ s[g + j].kind = kinds[j]
  BY KindsOfLine, TextOfLine
<1>6. BodyAt(f, k) = m + g
  BY DEF BodyAt
<1>7. j \in 1..Len(kinds)
  OBVIOUS
<1> HIDE DEF s, m, g, kinds
<1>8. g + j \in 1..Len(s) /\ (m + g) + j = m + (g + j) /\ ~((m + g) + j > Len(f.text))
  BY <1>3, <1>4, <1>5, <1>7, SMTT(30)
<1>9. f.text[m + (g + j)] = s[g + j]
  BY <1>4, <1>8 DEF LiesBehind
<1> QED BY <1>5, <1>6, <1>8, <1>9 DEF KindIn, kinds

-----------------------------------------------------------------------------
(* The tokens of a file, line by line, as the lexer has them: nothing      *)
(* depends on the worth of a tab, and a line without an end has no NEWLINE.*)
LexedBlocks(lines, k) ==
  IF ~IsConsistent(lines, k) THEN <<"ERROR">>
  ELSE Times("INDENT", Cardinality(Blocks(lines, k) \ Blocks(lines, k - 1)))
         \o Times("DEDENT", Cardinality(Blocks(lines, k - 1) \ Blocks(lines, k)))

LexedLine(lines, k) ==
  IF ~IsLogical(lines[k]) THEN <<>>
  ELSE LexedBlocks(lines, k) \o Words(LineKinds(lines[k]))
         \o (IF lines[k].end = "none" THEN <<>> ELSE <<"NEWLINE">>)

Tellings(f) == [k \in 1..Size(f) |-> LexedLine(f.lines, k)]

Lexed(f) == FlattenSeq(Tellings(f)) \o EndTokens(f.lines)

WordsOf(kinds) == [i \in 1..Len(kinds) |-> IF kinds[i] \in WordKinds THEN <<kinds[i]>> ELSE <<>>]

(* The tokens up to line k, and those up to symbol j of its body. *)
Told(f, k) == Len(FlatTo(Tellings(f), k))

ToldIn(f, k, j) ==
  Told(f, k - 1) + Len(LexedBlocks(f.lines, k)) + Len(FlatTo(WordsOf(LineKinds(f.lines[k])), j))

NewBlocksOf(f, k) == Cardinality(Blocks(f.lines, k) \ Blocks(f.lines, k - 1))
OldBlocksOf(f, k) == Cardinality(Blocks(f.lines, k - 1) \ Blocks(f.lines, k))
LastBlocks(f) == Cardinality(Blocks(f.lines, Size(f)) \ {0})

LEMMA SomeTimes ==
  ASSUME NEW n \in Nat, NEW t \in Tokens
  PROVE  Times(t, n) \in Seq(Tokens) /\ Len(Times(t, n)) = n /\ \A i \in 1..n : Times(t, n)[i] = t
BY DEF Times

LEMMA BlocksCounted ==
  ASSUME NEW f \in Files
  PROVE  /\ LastBlocks(f) \in Nat
         /\ \A k \in 1..Size(f) : NewBlocksOf(f, k) \in Nat /\ OldBlocksOf(f, k) \in Nat
<1>1. \A k \in 0..Size(f) : IsFiniteSet(Blocks(f.lines, k))
  BY BlocksAreFinite
<1>2. Size(f) \in Nat
  BY LinesOfFile
<1>3. LastBlocks(f) \in Nat
  <2> DEFINE B == Blocks(f.lines, Size(f))
  <2>1. Size(f) \in 0..Size(f)
    BY <1>2
  <2>2. IsFiniteSet(B)
    BY <1>1, <2>1
  <2> HIDE DEF B
  <2>3. IsFiniteSet(B \ {0})
    BY <2>2, FS_Difference
  <2>4. Cardinality(B \ {0}) \in Nat
    BY <2>3, FS_CardinalityType
  <2> QED BY <2>4 DEF B, LastBlocks
<1>4. ASSUME NEW k \in 1..Size(f) PROVE NewBlocksOf(f, k) \in Nat /\ OldBlocksOf(f, k) \in Nat
  <2>1. k \in 0..Size(f) /\ k - 1 \in 0..Size(f)
    BY <1>2
  <2>2. IsFiniteSet(Blocks(f.lines, k)) /\ IsFiniteSet(Blocks(f.lines, k - 1))
    BY <1>1, <2>1
  <2> QED BY <2>2, FS_Difference, FS_CardinalityType DEF NewBlocksOf, OldBlocksOf
<1> QED BY <1>3, <1>4

LEMMA TokensOfBlocks ==
  ASSUME NEW f \in Files, NEW k \in 1..Size(f)
  PROVE  /\ LexedBlocks(f.lines, k) \in Seq(Tokens)
         /\ ~IsConsistent(f.lines, k) => LexedBlocks(f.lines, k) = <<"ERROR">>
         /\ IsConsistent(f.lines, k) =>
              /\ Len(LexedBlocks(f.lines, k)) = NewBlocksOf(f, k) + OldBlocksOf(f, k)
              /\ \A i \in 1..NewBlocksOf(f, k) : LexedBlocks(f.lines, k)[i] = "INDENT"
              /\ \A i \in 1..OldBlocksOf(f, k) : LexedBlocks(f.lines, k)[NewBlocksOf(f, k) + i] = "DEDENT"
<1> DEFINE a == NewBlocksOf(f, k)
           b == OldBlocksOf(f, k)
           B == LexedBlocks(f.lines, k)
<1>1. a \in Nat /\ b \in Nat
  BY BlocksCounted
<1>2. CASE ~IsConsistent(f.lines, k)
  BY <1>2 DEF LexedBlocks, Tokens
<1>3. CASE IsConsistent(f.lines, k)
  <2> DEFINE u == Times("INDENT", a)
             v == Times("DEDENT", b)
  <2>1. B = u \o v
    BY <1>3 DEF LexedBlocks, NewBlocksOf, OldBlocksOf
  <2>2. u \in Seq(Tokens) /\ Len(u) = a /\ \A i \in 1..a : u[i] = "INDENT"
    BY <1>1, SomeTimes DEF Tokens
  <2>3. v \in Seq(Tokens) /\ Len(v) = b /\ \A i \in 1..b : v[i] = "DEDENT"
    BY <1>1, SomeTimes DEF Tokens
  <2> HIDE DEF u, v, a, b, B
  <2>4. B \in Seq(Tokens)
    BY <2>1, <2>2, <2>3
  <2>5. LiesBehind(B, 0, u) /\ LiesBehind(B, Len(u), v) /\ Len(B) = Len(u) + Len(v)
    BY <2>1, <2>2, <2>3, PartsOfConcat
  <2>6. \A i \in 1..a : B[i] = "INDENT"
    <3> TAKE i \in 1..a
    <3>1. B[0 + i] = u[i] /\ 0 + i = i
      BY <1>1, <2>2, <2>5 DEF LiesBehind
    <3> QED BY <2>2, <3>1
  <2>7. \A i \in 1..b : B[a + i] = "DEDENT"
    BY <2>2, <2>3, <2>5 DEF LiesBehind
  <2> QED BY <1>3, <2>2, <2>3, <2>4, <2>5, <2>6, <2>7 DEF a, b, B
<1> QED BY <1>2, <1>3

LEMMA WordsAreTokens ==
  ASSUME NEW f \in Files, NEW k \in 1..Size(f)
  PROVE  /\ WordsOf(LineKinds(f.lines[k])) \in Seq(Seq(Tokens))
         /\ Len(WordsOf(LineKinds(f.lines[k]))) = Len(LineKinds(f.lines[k]))
         /\ Words(LineKinds(f.lines[k])) = FlattenSeq(WordsOf(LineKinds(f.lines[k])))
         /\ Words(LineKinds(f.lines[k])) \in Seq(Tokens)
<1> DEFINE kinds == LineKinds(f.lines[k])
<1>1. Len(kinds) \in Nat
  BY KindsOfLine
<1> HIDE DEF kinds
<1>2. ASSUME NEW x PROVE (IF x \in WordKinds THEN <<x>> ELSE <<>>) \in Seq(Tokens)
  <2>1. x \in WordKinds => x \in Tokens
    BY DEF WordKinds, Tokens
  <2>2. x \in Tokens => <<x>> \in Seq(Tokens)
    OBVIOUS
  <2>3. <<>> \in Seq(Tokens)
    OBVIOUS
  <2> QED BY <2>1, <2>2, <2>3
<1>3. WordsOf(kinds) \in Seq(Seq(Tokens)) /\ Len(WordsOf(kinds)) = Len(kinds)
  BY <1>1, <1>2 DEF WordsOf
<1>4. Words(kinds) = FlattenSeq(WordsOf(kinds))
  BY DEF Words, WordsOf
<1>5. FlattenSeq(WordsOf(kinds)) \in Seq(Tokens)
  BY <1>3, FlattenedAt
<1> QED BY <1>3, <1>4, <1>5 DEF kinds

Ending(line) == IF line.end = "none" THEN <<>> ELSE <<"NEWLINE">>

LEMMA TokensOfLine ==
  ASSUME NEW f \in Files, NEW k \in 1..Size(f)
  PROVE  /\ LexedLine(f.lines, k) \in Seq(Tokens)
         /\ ~IsLogical(f.lines[k]) => Len(LexedLine(f.lines, k)) = 0
         /\ IsLogical(f.lines[k]) =>
              /\ LiesBehind(LexedLine(f.lines, k), 0, LexedBlocks(f.lines, k))
              /\ LiesBehind(LexedLine(f.lines, k), Len(LexedBlocks(f.lines, k)),
                            Words(LineKinds(f.lines[k])))
              /\ LiesBehind(LexedLine(f.lines, k),
                            Len(LexedBlocks(f.lines, k)) + Len(Words(LineKinds(f.lines[k]))),
                            Ending(f.lines[k]))
              /\ Len(LexedLine(f.lines, k)) =
                   Len(LexedBlocks(f.lines, k)) + Len(Words(LineKinds(f.lines[k])))
                     + Len(Ending(f.lines[k]))
<1> DEFINE B == LexedBlocks(f.lines, k)
           W == Words(LineKinds(f.lines[k]))
           E == Ending(f.lines[k])
           L == LexedLine(f.lines, k)
<1>1. CASE ~IsLogical(f.lines[k])
  <2>1. L = <<>>
    BY <1>1 DEF LexedLine
  <2> QED BY <1>1, <2>1
<1>2. CASE IsLogical(f.lines[k])
  <2>1. L = (B \o W) \o E
    BY <1>2 DEF LexedLine, Ending
  <2>2. B \in Seq(Tokens) /\ W \in Seq(Tokens)
    BY TokensOfBlocks, WordsAreTokens
  <2>3. E \in Seq(Tokens)
    <3>1. "NEWLINE" \in Tokens
      BY DEF Tokens
    <3>2. <<"NEWLINE">> \in Seq(Tokens) /\ <<>> \in Seq(Tokens)
      BY <3>1
    <3> QED BY <3>2 DEF Ending
  <2> HIDE DEF B, W, E, L
  <2>4. B \o W \in Seq(Tokens) /\ (B \o W) \o E \in Seq(Tokens)
    BY <2>2, <2>3
  <2>5. LiesBehind(B \o W, 0, B) /\ LiesBehind(B \o W, Len(B), W) /\ Len(B \o W) = Len(B) + Len(W)
    BY <2>2, PartsOfConcat
  <2>6. LiesBehind(L, 0, B \o W) /\ LiesBehind(L, Len(B \o W), E) /\ Len(L) = Len(B \o W) + Len(E)
    BY <2>1, <2>3, <2>4, PartsOfConcat
  <2>7. Len(B) \in Nat /\ Len(W) \in Nat /\ Len(B \o W) \in Nat /\ Len(L) \in Nat
    BY <2>1, <2>2, <2>4
  <2>8. LiesBehind(L, 0 + 0, B)
    BY <2>5, <2>6, <2>7, PartOfPart
  <2>9. LiesBehind(L, 0 + Len(B), W)
    BY <2>5, <2>6, <2>7, PartOfPart
  <2>10. 0 + 0 = 0 /\ 0 + Len(B) = Len(B)
    BY <2>7
  <2> QED BY <1>2, <2>1, <2>4, <2>5, <2>6, <2>8, <2>9, <2>10 DEF B, W, E, L
<1> QED BY <1>1, <1>2

LEMMA TokensOfFile ==
  ASSUME NEW f \in Files
  PROVE  /\ Tellings(f) \in Seq(Seq(Tokens)) /\ Len(Tellings(f)) = Size(f)
         /\ FlattenSeq(Tellings(f)) \in Seq(Tokens)
         /\ Lexed(f) = FlattenSeq(Tellings(f)) \o EndTokens(f.lines)
<1>1. Size(f) \in Nat
  BY LinesOfFile
<1>2. \A k \in 1..Size(f) : LexedLine(f.lines, k) \in Seq(Tokens)
  BY TokensOfLine
<1>3. Lexed(f) = FlattenSeq(Tellings(f)) \o EndTokens(f.lines)
  BY DEF Lexed, Tellings
<1>4. Tellings(f) \in Seq(Seq(Tokens)) /\ Len(Tellings(f)) = Size(f)
  BY <1>1, <1>2 DEF Tellings
<1>5. FlattenSeq(Tellings(f)) \in Seq(Tokens)
  BY <1>4, FlattenedAt
<1> QED BY <1>3, <1>4, <1>5

LEMMA TokensBehindLines ==
  ASSUME NEW f \in Files
  PROVE  /\ Told(f, 0) = 0 /\ \A k \in 0..Size(f) : Told(f, k) \in Nat
         /\ Lexed(f) \in Seq(Tokens) /\ Len(Lexed(f)) \in Nat /\ LastBlocks(f) \in Nat
         /\ Len(Lexed(f)) = Told(f, Size(f)) + LastBlocks(f) + 1
         /\ Lexed(f)[Len(Lexed(f))] = "EOF"
         /\ \A i \in 1..LastBlocks(f) : Lexed(f)[Told(f, Size(f)) + i] = "DEDENT"
         /\ LiesBehind(Lexed(f), 0, FlattenSeq(Tellings(f)))
<1> DEFINE F == FlattenSeq(Tellings(f))
           D == Times("DEDENT", LastBlocks(f))
           E == EndTokens(f.lines)
<1>1. /\ Tellings(f) \in Seq(Seq(Tokens)) /\ Len(Tellings(f)) = Size(f)
      /\ F \in Seq(Tokens) /\ Lexed(f) = F \o E
  BY TokensOfFile
<1>2. Told(f, 0) = 0
  BY <1>1, FlattenedAt DEF Told
<1>3. \A k \in 0..Size(f) : Told(f, k) \in Nat
  BY <1>1, FlattenedAt DEF Told
<1>4. Told(f, Size(f)) = Len(F) /\ Len(F) \in Nat
  <2>1. Len(FlatTo(Tellings(f), Len(Tellings(f)))) = Len(FlattenSeq(Tellings(f)))
    BY <1>1, FlattenedAt
  <2>2. Len(F) \in Nat
    BY <1>1
  <2> QED BY <1>1, <2>1, <2>2 DEF Told
<1>5. LastBlocks(f) \in Nat
  BY BlocksCounted
<1>6. /\ D \in Seq(Tokens) /\ Len(D) = LastBlocks(f)
      /\ \A i \in 1..LastBlocks(f) : D[i] = "DEDENT"
  BY <1>5, SomeTimes DEF Tokens
<1>7. E = D \o <<"EOF">>
  BY DEF EndTokens, LastBlocks, Size
<1> DEFINE last == <<"EOF">>
<1>8. last \in Seq(Tokens) /\ Len(last) = 1 /\ last[1] = "EOF"
  BY DEF Tokens
<1> HIDE DEF F, D, E, last
<1>9. E = D \o last
  BY <1>7 DEF last
<1>10. /\ LiesBehind(E, 0, D) /\ LiesBehind(E, Len(D), last) /\ Len(E) = Len(D) + Len(last)
       /\ E \in Seq(Tokens)
  <2>1. D \o last \in Seq(Tokens)
    BY <1>6, <1>8
  <2> QED BY <1>6, <1>8, <1>9, <2>1, PartsOfConcat
<1>11. /\ LiesBehind(Lexed(f), 0, F) /\ LiesBehind(Lexed(f), Len(F), E)
       /\ Len(Lexed(f)) = Len(F) + Len(E) /\ Lexed(f) \in Seq(Tokens)
  <2>1. F \o E \in Seq(Tokens)
    BY <1>1, <1>10
  <2> QED BY <1>1, <1>10, <2>1, PartsOfConcat
<1>12. Len(Lexed(f)) \in Nat /\ Len(E) \in Nat /\ Len(D) \in Nat
  BY <1>6, <1>10, <1>11
<1>13. LiesBehind(Lexed(f), Len(F) + 0, D)
  BY <1>4, <1>10, <1>11, <1>12, PartOfPart
<1>14. LiesBehind(Lexed(f), Len(F) + Len(D), last)
  BY <1>4, <1>8, <1>10, <1>11, <1>12, PartOfPart
<1>15. \A i \in 1..LastBlocks(f) : Lexed(f)[Told(f, Size(f)) + i] = "DEDENT"
  <2>1. Len(F) + 0 = Len(F)
    BY <1>4
  <2> QED BY <1>4, <1>6, <1>13, <2>1 DEF LiesBehind
<1>16. Lexed(f)[Len(Lexed(f))] = "EOF"
  <2>1. Lexed(f)[(Len(F) + Len(D)) + 1] = last[1]
    BY <1>8, <1>14 DEF LiesBehind
  <2>2. (Len(F) + Len(D)) + 1 = Len(Lexed(f))
    BY <1>4, <1>8, <1>10, <1>11, <1>12
  <2> QED BY <1>8, <2>1, <2>2
<1>17. Len(Lexed(f)) = Told(f, Size(f)) + LastBlocks(f) + 1
  BY <1>4, <1>6, <1>8, <1>10, <1>11, <1>12
<1> QED BY <1>2, <1>3, <1>5, <1>11, <1>12, <1>15, <1>16, <1>17 DEF F

-----------------------------------------------------------------------------
(* The places of one line in the tokens. *)

LEMMA TokenPlace ==
  ASSUME NEW f \in Files, NEW k \in 1..Size(f)
  PROVE  /\ Told(f, k - 1) \in Nat /\ Told(f, k) \in Nat /\ Told(f, k) < Len(Lexed(f))
         /\ Told(f, k) = Told(f, k - 1) + Len(LexedLine(f.lines, k))
         /\ LiesBehind(Lexed(f), Told(f, k - 1), LexedLine(f.lines, k))
<1> DEFINE F == FlattenSeq(Tellings(f))
           L == LexedLine(f.lines, k)
           m == Told(f, k - 1)
<1>1. /\ Tellings(f) \in Seq(Seq(Tokens)) /\ Len(Tellings(f)) = Size(f)
      /\ F \in Seq(Tokens)
  BY TokensOfFile
<1>2. k \in 1..Size(f) /\ k \in 0..Size(f) /\ k - 1 \in 0..Size(f) /\ Tellings(f)[k] = L
  BY LinesOfFile DEF Tellings
<1>3. Told(f, k) = m + Len(L) /\ LiesBehind(F, m, L)
  <2> DEFINE seqs == Tellings(f)
  <2>1. seqs \in Seq(Seq(Tokens)) /\ k \in 1..Len(seqs)
    BY <1>1, <1>2
  <2> HIDE DEF seqs
  <2>2. /\ Len(FlatTo(seqs, k)) = Len(FlatTo(seqs, k - 1)) + Len(seqs[k])
        /\ LiesBehind(FlattenSeq(seqs), Len(FlatTo(seqs, k - 1)), seqs[k])
    BY <2>1, FlattenedAt
  <2> QED BY <1>2, <2>2 DEF Told, seqs
<1>4. /\ \A i \in 0..Size(f) : Told(f, i) \in Nat
      /\ Len(Lexed(f)) \in Nat /\ LastBlocks(f) \in Nat
      /\ Len(Lexed(f)) = Told(f, Size(f)) + LastBlocks(f) + 1
      /\ LiesBehind(Lexed(f), 0, F)
  BY TokensBehindLines
<1>5. Told(f, Size(f)) = Len(F) /\ Len(F) \in Nat
  <2>1. Len(FlatTo(Tellings(f), Len(Tellings(f)))) = Len(FlattenSeq(Tellings(f)))
    BY <1>1, FlattenedAt
  <2>2. Len(F) \in Nat
    BY <1>1
  <2> QED BY <1>1, <2>1, <2>2 DEF Told
<1>6. Len(L) \in Nat
  <2>1. L \in Seq(Tokens)
    BY TokensOfLine
  <2> QED BY <2>1
<1>7. m \in Nat /\ Told(f, k) \in Nat
  BY <1>2, <1>4
<1> HIDE DEF F, L, m
<1>8. m + Len(L) <= Len(F)
  BY <1>3 DEF LiesBehind
<1>9. Told(f, k) < Len(Lexed(f))
  BY <1>3, <1>4, <1>5, <1>6, <1>7, <1>8
<1>10. LiesBehind(Lexed(f), 0 + m, L) /\ 0 + m = m
  BY <1>3, <1>4, <1>5, <1>6, <1>7, PartOfPart
<1> QED BY <1>3, <1>7, <1>9, <1>10 DEF m, L

LEMMA QuietLine ==
  ASSUME NEW f \in Files, NEW k \in 1..Size(f), ~IsLogical(f.lines[k])
  PROVE  Told(f, k) = Told(f, k - 1)
<1>1. Told(f, k) = Told(f, k - 1) + Len(LexedLine(f.lines, k)) /\ Told(f, k - 1) \in Nat
  BY TokenPlace
<1>2. Len(LexedLine(f.lines, k)) = 0
  BY TokensOfLine
<1> QED BY <1>1, <1>2

(* The tokens for the blocks, and the one for the line end. *)
LEMMA LinePlaceTokens ==
  ASSUME NEW f \in Files, NEW k \in 1..Size(f), IsLogical(f.lines[k])
  PROVE  /\ LiesBehind(Lexed(f), Told(f, k - 1), LexedBlocks(f.lines, k))
         /\ Len(LexedBlocks(f.lines, k)) \in Nat
         /\ ToldIn(f, k, 0) = Told(f, k - 1) + Len(LexedBlocks(f.lines, k))
         /\ Told(f, k) = ToldIn(f, k, Len(LineKinds(f.lines[k])))
                           + (IF f.lines[k].end = "none" THEN 0 ELSE 1)
         /\ f.lines[k].end # "none" => Lexed(f)[Told(f, k)] = "NEWLINE"
<1> DEFINE B == LexedBlocks(f.lines, k)
           W == Words(LineKinds(f.lines[k]))
           E == Ending(f.lines[k])
           L == LexedLine(f.lines, k)
           m == Told(f, k - 1)
           ws == WordsOf(LineKinds(f.lines[k]))
<1>1. /\ m \in Nat /\ Told(f, k) = m + Len(L) /\ LiesBehind(Lexed(f), m, L)
  BY TokenPlace
<1>2. /\ LiesBehind(L, 0, B) /\ LiesBehind(L, Len(B) + Len(W), E)
      /\ Len(L) = Len(B) + Len(W) + Len(E)
  BY TokensOfLine
<1>3. /\ Len(Lexed(f)) \in Nat /\ Len(L) \in Nat /\ Len(B) \in Nat /\ Len(W) \in Nat
      /\ E = IF f.lines[k].end = "none" THEN <<>> ELSE <<"NEWLINE">>
  <2>1. L \in Seq(Tokens) /\ B \in Seq(Tokens) /\ W \in Seq(Tokens)
    BY TokensOfLine, TokensOfBlocks, WordsAreTokens
  <2> QED BY <2>1, TokensBehindLines DEF Ending
<1>4. Len(E) = (IF f.lines[k].end = "none" THEN 0 ELSE 1)
  BY <1>3
<1>5. /\ ws \in Seq(Seq(Tokens)) /\ Len(ws) = Len(LineKinds(f.lines[k]))
      /\ W = FlattenSeq(ws)
  BY WordsAreTokens
<1>6. Len(FlatTo(ws, 0)) = 0 /\ Len(FlatTo(ws, Len(ws))) = Len(W)
  BY <1>5, FlattenedAt
<1>7. ToldIn(f, k, 0) = m + Len(B)
  <2>1. ToldIn(f, k, 0) = m + Len(B) + Len(FlatTo(ws, 0))
    BY DEF ToldIn
  <2> QED BY <1>1, <1>3, <1>6, <2>1
<1>8. ToldIn(f, k, Len(LineKinds(f.lines[k]))) = m + Len(B) + Len(W)
  BY <1>5, <1>6 DEF ToldIn
<1> HIDE DEF B, W, E, L, m, ws
<1>9. LiesBehind(Lexed(f), m + 0, B) /\ m + 0 = m
  BY <1>1, <1>2, <1>3, PartOfPart
<1>10. ASSUME f.lines[k].end # "none"
       PROVE  Lexed(f)[Told(f, k)] = "NEWLINE"
  <2>1. E = <<"NEWLINE">> /\ 1 \in 1..Len(E)
    BY <1>3, <1>10
  <2> DEFINE q == Len(B) + Len(W)
  <2>2. q \in Nat /\ LiesBehind(L, q, E)
    BY <1>2, <1>3
  <2>3. Told(f, k) = (m + q) + 1
    BY <1>1, <1>2, <1>3, <1>4, <1>10
  <2> HIDE DEF q
  <2>4. LiesBehind(Lexed(f), m + q, E)
    BY <1>1, <1>3, <1>4, <2>2, PartOfPart
  <2>5. Lexed(f)[(m + q) + 1] = E[1]
    BY <2>1, <2>4 DEF LiesBehind
  <2> QED BY <2>1, <2>3, <2>5
<1>11. Told(f, k) = ToldIn(f, k, Len(LineKinds(f.lines[k])))
                      + (IF f.lines[k].end = "none" THEN 0 ELSE 1)
  BY <1>1, <1>2, <1>3, <1>4, <1>8
<1> QED BY <1>3, <1>7, <1>9, <1>10, <1>11 DEF B, m

LEMMA WordPlace ==
  ASSUME NEW f \in Files, NEW k \in 1..Size(f), IsLogical(f.lines[k]),
         NEW j \in 1..Len(LineKinds(f.lines[k]))
  PROVE  /\ ToldIn(f, k, j - 1) \in Nat /\ ToldIn(f, k, j) < Len(Lexed(f))
         /\ LineKinds(f.lines[k])[j] \notin WordKinds => ToldIn(f, k, j) = ToldIn(f, k, j - 1)
         /\ LineKinds(f.lines[k])[j] \in WordKinds =>
              /\ ToldIn(f, k, j) = ToldIn(f, k, j - 1) + 1
              /\ Lexed(f)[ToldIn(f, k, j)] = LineKinds(f.lines[k])[j]
<1> DEFINE kinds == LineKinds(f.lines[k])
           B == LexedBlocks(f.lines, k)
           W == Words(kinds)
           L == LexedLine(f.lines, k)
           m == Told(f, k - 1)
           ws == WordsOf(kinds)
           x == Len(FlatTo(ws, j - 1))
<1>1. /\ m \in Nat /\ LiesBehind(Lexed(f), m, L) /\ Len(Lexed(f)) \in Nat
      /\ Told(f, k) \in Nat /\ Told(f, k) < Len(Lexed(f)) /\ Told(f, k) = m + Len(L)
  BY TokenPlace, TokensBehindLines
<1>2. LiesBehind(L, Len(B), W) /\ Len(L) = Len(B) + Len(W) + Len(Ending(f.lines[k]))
  BY TokensOfLine
<1>3. Len(L) \in Nat /\ Len(B) \in Nat /\ Len(W) \in Nat /\ Len(Ending(f.lines[k])) \in Nat
  <2>1. L \in Seq(Tokens) /\ B \in Seq(Tokens) /\ W \in Seq(Tokens)
    BY TokensOfLine, TokensOfBlocks, WordsAreTokens
  <2> QED BY <2>1 DEF Ending
<1>4. ws \in Seq(Seq(Tokens)) /\ Len(ws) = Len(kinds) /\ W = FlattenSeq(ws)
  BY WordsAreTokens
<1>5. Len(kinds) \in Nat /\ j \in 1..Len(kinds)
  BY KindsOfLine
<1>6. ws[j] = IF kinds[j] \in WordKinds THEN <<kinds[j]>> ELSE <<>>
  BY <1>5 DEF WordsOf
<1>7. j \in 1..Len(ws) /\ j - 1 \in 0..Len(ws)
  BY <1>4, <1>5
<1>8. x \in Nat /\ Len(FlatTo(ws, j)) = x + Len(ws[j]) /\ LiesBehind(W, x, ws[j])
  BY <1>4, <1>7, FlattenedAt
<1>9. ToldIn(f, k, j - 1) = m + Len(B) + x /\ ToldIn(f, k, j) = m + Len(B) + Len(FlatTo(ws, j))
  BY DEF ToldIn
<1> HIDE DEF kinds, B, W, L, m, ws, x
<1>10. Len(ws[j]) = IF kinds[j] \in WordKinds THEN 1 ELSE 0
  BY <1>6
<1>11. x + Len(ws[j]) <= Len(W)
  BY <1>8 DEF LiesBehind
<1>12. ToldIn(f, k, j - 1) \in Nat
  BY <1>1, <1>3, <1>8, <1>9
<1>13. ToldIn(f, k, j) < Len(Lexed(f))
  <2> DEFINE b == Len(B)
             v == Len(ws[j])
             e == Len(Ending(f.lines[k]))
             w == Len(W)
  <2>1. b \in Nat /\ v \in Nat /\ e \in Nat /\ w \in Nat /\ x \in Nat /\ m \in Nat
    BY <1>1, <1>3, <1>8, <1>10
  <2>2. ToldIn(f, k, j) = m + b + (x + v) /\ Told(f, k) = m + (b + w + e) /\ x + v <= w
    BY <1>1, <1>2, <1>8, <1>9, <1>11
  <2>3. Told(f, k) < Len(Lexed(f)) /\ Len(Lexed(f)) \in Nat
    BY <1>1
  <2> HIDE DEF b, v, e, w
  <2> QED BY <2>1, <2>2, <2>3
<1>14. kinds[j] \notin WordKinds => ToldIn(f, k, j) = ToldIn(f, k, j - 1)
  BY <1>1, <1>3, <1>8, <1>9, <1>10
<1>15. ASSUME kinds[j] \in WordKinds
       PROVE  ToldIn(f, k, j) = ToldIn(f, k, j - 1) + 1 /\ Lexed(f)[ToldIn(f, k, j)] = kinds[j]
  <2>1. ToldIn(f, k, j) = ToldIn(f, k, j - 1) + 1
    BY <1>1, <1>3, <1>8, <1>9, <1>10, <1>15
  <2>2. LiesBehind(Lexed(f), m + Len(B), W)
    BY <1>1, <1>2, <1>3, PartOfPart
  <2> DEFINE q == m + Len(B)
  <2>3. q \in Nat /\ LiesBehind(Lexed(f), q, W)
    BY <1>1, <1>3, <2>2
  <2> HIDE DEF q
  <2>4. LiesBehind(Lexed(f), q + x, ws[j])
    BY <1>1, <1>3, <1>8, <1>10, <2>3, PartOfPart, SMTT(30)
  <2>5. Lexed(f)[(q + x) + 1] = ws[j][1]
    BY <1>10, <1>15, <2>4 DEF LiesBehind
  <2>6. ws[j][1] = kinds[j]
    BY <1>6, <1>15
  <2>7. (q + x) + 1 = ToldIn(f, k, j)
    BY <1>9, <2>1 DEF q
  <2> QED BY <2>1, <2>5, <2>6, <2>7
<1> QED BY <1>12, <1>13, <1>14, <1>15 DEF kinds

-----------------------------------------------------------------------------
(* The indentations on the stack are the blocks that are open. *)
Limit == MAX_INDENT_STACK - 1

Stacks == [0..Limit -> Nat]

OnStack(st, depth) == {st[i] : i \in 0..depth}

Ascends(st, depth) ==
  /\ st \in Stacks /\ depth \in 0..Limit
  /\ st[0] = 0 /\ \A i \in 1..depth : st[i - 1] < st[i]

LEMMA StackAscends ==
  ASSUME NEW st, NEW depth, Ascends(st, depth)
  PROVE  /\ depth \in Nat /\ \A i \in 0..depth : st[i] \in Nat
         /\ \A i \in 0..depth : \A j \in 0..depth : i < j => st[i] < st[j]
<1>1. depth \in Nat /\ 0..depth \subseteq 0..Limit
  BY LayoutAssumption DEF Ascends, Limit
<1>2. \A i \in 0..depth : st[i] \in Nat
  BY <1>1 DEF Ascends, Stacks
<1>3. \A m \in 1..depth : st[m - 1] < st[m]
  BY DEF Ascends
<1>4. ASSUME NEW i \in 0..depth, NEW j \in 0..depth, i < j PROVE st[i] < st[j]
  <2> DEFINE n == j - (i + 1)
             S == {e \in 0..n : st[i] < st[i + 1 + e]}
  <2>1. n \in Nat /\ i + 1 + n = j /\ i + 1 + 0 = i + 1 /\ (i + 1) - 1 = i /\ i + 1 \in 1..depth
    BY <1>1, <1>4
  <2>2. st[i] < st[i + 1]
    BY <1>3, <2>1
  <2>3. 0 \in S
    BY <2>1, <2>2
  <2>4. ASSUME NEW e \in 0..(n - 1), e \in S PROVE e + 1 \in S
    <3> DEFINE x == i + 1 + e
               y == i + 1 + (e + 1)
    <3>1. x \in 0..depth /\ y \in 1..depth /\ y - 1 = x /\ e + 1 \in 0..n
      BY <1>1, <2>1
    <3>2. st[i] < st[x]
      BY <2>4
    <3> HIDE DEF x, y, n
    <3>3. st[x] < st[y]
      BY <1>3, <3>1
    <3>4. st[i] \in Nat /\ st[x] \in Nat /\ st[y] \in Nat
      BY <1>1, <1>2, <3>1
    <3>5. st[i] < st[y]
      BY <3>2, <3>3, <3>4
    <3> QED BY <3>1, <3>5 DEF y
  <2> HIDE DEF S, n
  <2>5. \A e \in 0..n : e \in S
    BY <2>1, <2>3, <2>4, CountUp
  <2>6. n \in S
    BY <2>1, <2>5
  <2>7. st[i] < st[i + 1 + n]
    BY <2>6 DEF S
  <2> QED BY <2>1, <2>7
<1> QED BY <1>1, <1>2, <1>4

LEMMA StackCounted ==
  ASSUME NEW st, NEW depth, Ascends(st, depth), NEW a \in 0..depth
  PROVE  Cardinality({st[i] : i \in (a + 1)..depth}) = depth - a
<1> DEFINE I == (a + 1)..depth
           B == {st[i] : i \in I}
           g == [i \in I |-> st[i]]
<1>1. /\ depth \in Nat /\ \A i \in 0..depth : st[i] \in Nat
      /\ \A i \in 0..depth : \A j \in 0..depth : i < j => st[i] < st[j]
  BY StackAscends
<1>2. a \in Nat /\ a <= depth /\ I \subseteq 0..depth
  BY <1>1
<1>3. IsFiniteSet(I) /\ Cardinality(I) = depth - a
  <2>1. a + 1 \in Int /\ depth \in Int
    BY <1>1
  <2>2. IsFiniteSet(I) /\ Cardinality(I) = IF a + 1 > depth THEN 0 ELSE depth - (a + 1) + 1
    BY <2>1, FS_Interval
  <2> QED BY <1>1, <1>2, <2>2
<1>4. \A i \in I : \A j \in I : st[i] = st[j] => i = j
  <2> TAKE i \in I
  <2> TAKE j \in I
  <2>1. i \in 0..depth /\ j \in 0..depth /\ i \in Nat /\ j \in Nat
    BY <1>1, <1>2
  <2>2. st[i] \in Nat /\ st[j] \in Nat /\ (i < j => st[i] < st[j]) /\ (j < i => st[j] < st[i])
    BY <1>1, <2>1
  <2> HIDE DEF I
  <2> QED BY <2>1, <2>2
<1> HIDE DEF I
<1>5. g \in Bijection(I, B)
  <2>1. g \in [I -> B]
    OBVIOUS
  <2>2. \A y \in B : \E i \in I : g[i] = y
    OBVIOUS
  <2>3. \A i \in I : \A j \in I : g[i] = g[j] => i = j
    BY <1>4
  <2> HIDE DEF g, B
  <2> QED BY <2>1, <2>2, <2>3 DEF Bijection, Injection, Surjection, IsInjective
<1> HIDE DEF g, B
<1>6. ExistsBijection(I, B)
  BY <1>5 DEF ExistsBijection
<1>7. Cardinality(B) = Cardinality(I)
  BY <1>3, <1>6, FS_Bijection
<1> QED BY <1>3, <1>7 DEF B, I

(* The stack with one entry more, and with fewer. *)
LEMMA StackPushed ==
  ASSUME NEW st, NEW depth, Ascends(st, depth), depth < Limit, NEW w \in Nat, w > st[depth]
  PROVE  OnStack([st EXCEPT ![depth + 1] = w], depth + 1) = OnStack(st, depth) \cup {w}
<1> DEFINE new == [st EXCEPT ![depth + 1] = w]
<1>1. depth \in Nat /\ depth + 1 \in 0..Limit /\ st \in [0..Limit -> Nat] /\ Limit \in Nat
  BY LayoutAssumption DEF Ascends, Limit, Stacks
<1>2. new[depth + 1] = w /\ \A i \in 0..depth : new[i] = st[i]
  <2>1. depth + 1 \in DOMAIN st /\ \A i \in 0..depth : i \in 0..Limit /\ i # depth + 1
    BY <1>1
  <2> QED BY <1>1, <2>1
<1>3. 0..(depth + 1) = (0..depth) \cup {depth + 1}
  BY <1>1
<1> HIDE DEF new
<1>4. OnStack(new, depth + 1) = {new[i] : i \in 0..depth} \cup {new[depth + 1]}
  BY <1>3 DEF OnStack
<1>5. {new[i] : i \in 0..depth} = OnStack(st, depth)
  BY <1>2 DEF OnStack
<1> QED BY <1>2, <1>4, <1>5 DEF new

LEMMA StackPopped ==
  ASSUME NEW st, NEW depth, Ascends(st, depth), NEW a \in 0..depth
  PROVE  /\ OnStack(st, depth) \ OnStack(st, a) = {st[i] : i \in (a + 1)..depth}
         /\ OnStack(st, a) \subseteq OnStack(st, depth)
         /\ Ascends(st, a)
<1>1. /\ depth \in Nat /\ \A i \in 0..depth : st[i] \in Nat
      /\ \A i \in 0..depth : \A j \in 0..depth : i < j => st[i] < st[j]
  BY StackAscends
<1>2. a \in Nat /\ a <= depth /\ 0..a \subseteq 0..depth /\ (a + 1)..depth \subseteq 0..depth
      /\ 0..depth = (0..a) \cup ((a + 1)..depth)
  BY <1>1
<1>3. \A i \in 0..a : \A j \in (a + 1)..depth : st[i] # st[j]
  <2> TAKE i \in 0..a
  <2> TAKE j \in (a + 1)..depth
  <2>1. i \in 0..depth /\ j \in 0..depth /\ i < j
    BY <1>1, <1>2
  <2>2. st[i] \in Nat /\ st[j] \in Nat /\ st[i] < st[j]
    BY <1>1, <2>1
  <2> QED BY <2>2
<1>4. Ascends(st, a)
  <2>1. a \in 0..Limit /\ 1..a \subseteq 1..depth
    BY <1>1, <1>2, LayoutAssumption DEF Ascends, Limit
  <2> QED BY <2>1 DEF Ascends
<1> DEFINE P == 0..a
           Q == (a + 1)..depth
           R == 0..depth
<1>5. R = P \cup Q /\ \A i \in P : \A j \in Q : st[i] # st[j]
  BY <1>2, <1>3
<1> HIDE DEF P, Q, R
<1>6. {st[i] : i \in R} \ {st[i] : i \in P} = {st[i] : i \in Q} /\ {st[i] : i \in P} \subseteq {st[i] : i \in R}
  BY <1>5
<1> QED BY <1>4, <1>6 DEF OnStack, P, Q, R

-----------------------------------------------------------------------------
(* What a line does to the blocks that are on the stack. *)
LEMMA DeeperLine ==
  ASSUME NEW f \in Files, NEW k \in 1..Size(f), IsLogical(f.lines[k]),
         NEW st, NEW depth, Ascends(st, depth), OnStack(st, depth) = Blocks(f.lines, k - 1),
         Indentation(f.lines, k) > st[depth]
  PROVE  /\ IsConsistent(f.lines, k) /\ NewBlocksOf(f, k) = 1 /\ OldBlocksOf(f, k) = 0
         /\ Blocks(f.lines, k) = OnStack(st, depth) \cup {Indentation(f.lines, k)}
<1> DEFINE w == Indentation(f.lines, k)
           old == Blocks(f.lines, k - 1)
           new == Blocks(f.lines, k)
<1>1. /\ depth \in Nat /\ \A i \in 0..depth : st[i] \in Nat
      /\ \A i \in 0..depth : \A j \in 0..depth : i < j => st[i] < st[j]
  BY StackAscends
<1>2. w \in Nat
  BY LinesOfFile, Indentations
<1>3. \A b \in old : b < w
  <2>1. \A i \in 0..depth : st[i] < w
    <3> TAKE i \in 0..depth
    <3>1. i = depth \/ i < depth
      BY <1>1
    <3>2. depth \in 0..depth /\ st[i] \in Nat /\ st[depth] \in Nat
      BY <1>1
    <3>3. i = depth \/ st[i] < st[depth]
      BY <1>1, <3>1, <3>2
    <3> QED BY <1>2, <3>2, <3>3
  <2> QED BY <2>1 DEF OnStack
<1>4. \A b : b \in new <=> b = w \/ (b \in old /\ b < w)
  BY NewBlocks
<1> HIDE DEF w, old, new
<1>5. new = old \cup {w} /\ w \notin old
  BY <1>2, <1>3, <1>4
<1>6. new \ old = {w} /\ old \ new = {}
  BY <1>5
<1>7. Cardinality({w}) = 1 /\ Cardinality({}) = 0
  BY FS_Singleton, FS_EmptySet
<1>8. IsConsistent(f.lines, k)
  BY <1>3 DEF IsConsistent, w, old
<1> QED BY <1>5, <1>6, <1>7, <1>8 DEF NewBlocksOf, OldBlocksOf, w, old, new

(* A line of a block that is on the stack. *)
LEMMA LineOfBlock ==
  ASSUME NEW f \in Files, NEW k \in 1..Size(f), IsLogical(f.lines[k]),
         NEW st, NEW depth, Ascends(st, depth), OnStack(st, depth) = Blocks(f.lines, k - 1),
         NEW a \in 0..depth, Indentation(f.lines, k) = st[a]
  PROVE  /\ IsConsistent(f.lines, k) /\ NewBlocksOf(f, k) = 0 /\ OldBlocksOf(f, k) = depth - a
         /\ Blocks(f.lines, k) = OnStack(st, a)
<1> DEFINE w == Indentation(f.lines, k)
           old == Blocks(f.lines, k - 1)
           new == Blocks(f.lines, k)
<1>1. /\ depth \in Nat /\ \A i \in 0..depth : st[i] \in Nat
      /\ \A i \in 0..depth : \A j \in 0..depth : i < j => st[i] < st[j]
  BY StackAscends
<1>2. w = st[a] /\ w \in Nat
  BY <1>1
<1>3. a \in Nat /\ 0..a \subseteq 0..depth /\ a \in 0..a
  BY <1>1
<1>4. ASSUME NEW i \in 0..depth PROVE st[i] < w <=> i < a
  <2>1. i \in Nat /\ st[i] \in Nat /\ a \in 0..depth /\ st[a] \in Nat
    BY <1>1
  <2>2. (i < a => st[i] < st[a]) /\ (a < i => st[a] < st[i])
    BY <1>1
  <2> QED BY <1>2, <1>3, <2>1, <2>2
<1>5. \A b : b \in new <=> b = w \/ (b \in old /\ b < w)
  BY NewBlocks
<1> HIDE DEF w, old, new
<1>6. \A b : b \in new <=> b \in OnStack(st, a)
  <2>1. ASSUME NEW b \in new PROVE b \in OnStack(st, a)
    <3>1. CASE b = w
      BY <1>2, <1>3, <3>1 DEF OnStack
    <3>2. CASE b \in old /\ b < w
      <4>1. PICK i \in 0..depth : b = st[i]
        BY <3>2 DEF OnStack, old
      <4>2. i < a
        BY <1>4, <3>2, <4>1
      <4>3. i \in 0..a
        BY <1>3, <4>1, <4>2
      <4> QED BY <4>1, <4>3 DEF OnStack
    <3> QED BY <1>5, <3>1, <3>2
  <2>2. ASSUME NEW b \in OnStack(st, a) PROVE b \in new
    <3>1. PICK i \in 0..a : b = st[i]
      BY DEF OnStack
    <3>2. i \in 0..depth /\ (i = a \/ i < a)
      BY <1>3
    <3>3. b = w \/ b < w
      BY <1>2, <1>4, <3>1, <3>2
    <3>4. b \in old
      BY <3>1, <3>2 DEF OnStack, old
    <3> QED BY <1>5, <3>3, <3>4
  <2> QED BY <2>1, <2>2
<1>7. new = OnStack(st, a)
  BY <1>6
<1>8. new \subseteq old /\ old \ new = {st[i] : i \in (a + 1)..depth}
  BY <1>7, StackPopped DEF old
<1>9. Cardinality(old \ new) = depth - a
  BY <1>8, StackCounted
<1>10. new \ old = {} /\ Cardinality({}) = 0
  BY <1>8, FS_EmptySet
<1>11. w \in old
  BY <1>2, <1>3, <1>7, <1>8 DEF OnStack
<1>12. IsConsistent(f.lines, k)
  BY <1>11 DEF IsConsistent, w, old
<1> QED BY <1>7, <1>9, <1>10, <1>12 DEF NewBlocksOf, OldBlocksOf, old, new

LEMMA LineBetweenBlocks ==
  ASSUME NEW f \in Files, NEW k \in 1..Size(f), IsLogical(f.lines[k]),
         NEW st, NEW depth, Ascends(st, depth), OnStack(st, depth) = Blocks(f.lines, k - 1),
         NEW a \in 0..(depth - 1), st[a] < Indentation(f.lines, k),
         \A i \in (a + 1)..depth : st[i] > Indentation(f.lines, k)
  PROVE  ~IsConsistent(f.lines, k)
<1> DEFINE w == Indentation(f.lines, k)
<1>1. /\ depth \in Nat /\ \A i \in 0..depth : st[i] \in Nat
      /\ \A i \in 0..depth : \A j \in 0..depth : i < j => st[i] < st[j]
  BY StackAscends
<1>2. w \in Nat /\ st[a] < w /\ \A i \in (a + 1)..depth : st[i] > w
  BY LinesOfFile, Indentations
<1> HIDE DEF w
<1>3. ASSUME NEW i \in 0..depth PROVE st[i] # w
  <2>1. i \in Nat /\ st[i] \in Nat /\ a \in 0..depth /\ st[a] \in Nat
    BY <1>1
  <2>2. CASE i \in (a + 1)..depth
    <3>1. st[i] > w
      BY <1>2, <2>2
    <3> QED BY <1>2, <2>1, <3>1
  <2>3. CASE i = a
    BY <1>2, <2>1, <2>3
  <2>4. CASE i < a
    <3>1. st[i] < st[a]
      BY <1>1, <2>1, <2>4
    <3> QED BY <1>2, <2>1, <3>1
  <2> QED BY <1>1, <2>1, <2>2, <2>3, <2>4
<1>4. w \notin Blocks(f.lines, k - 1)
  BY <1>3 DEF OnStack
<1>5. depth \in (a + 1)..depth /\ depth \in 0..depth
  BY <1>1
<1>6. st[depth] \in Blocks(f.lines, k - 1) /\ ~(st[depth] < w)
  <2>1. st[depth] > w /\ st[depth] \in Nat
    BY <1>1, <1>2, <1>5
  <2> QED BY <1>2, <1>5, <2>1 DEF OnStack
<1> QED BY <1>4, <1>6 DEF IsConsistent, w

-----------------------------------------------------------------------------
(* What the lexer finds at the start of a line. *)
Breaks == {"nl", "cr"}

LEMMA LineShape ==
  ASSUME NEW f \in Files, NEW k \in 1..Size(f)
  PROVE  /\ Len(f.lines[k].body) \in Nat /\ f.lines[k].end \in {"lf", "crlf", "none"}
         /\ Len(LineKinds(f.lines[k])) = Len(f.lines[k].body)
              + (IF f.lines[k].end = "none" THEN 0 ELSE IF f.lines[k].end = "lf" THEN 1 ELSE 2)
         /\ Len(LineKinds(f.lines[k])) \in Nat
         /\ Len(LineKinds(f.lines[k])) >= Len(f.lines[k].body)
         /\ f.lines[k].end # "none" => Len(LineKinds(f.lines[k])) > Len(f.lines[k].body)
         /\ \A i \in 1..Len(f.lines[k].body) : LineKinds(f.lines[k])[i] = f.lines[k].body[i]
         /\ f.lines[k].end = "lf" => LineKinds(f.lines[k])[Len(f.lines[k].body) + 1] = "nl"
         /\ f.lines[k].end = "crlf" =>
              /\ LineKinds(f.lines[k])[Len(f.lines[k].body) + 1] = "cr"
              /\ LineKinds(f.lines[k])[Len(f.lines[k].body) + 2] = "nl"
         /\ f.lines[k].end = "none" => k = Size(f)
<1> DEFINE line == f.lines[k]
           body == line.body
           e == EndText(line.end)
           kinds == LineKinds(line)
<1>1. line.end \in {"lf", "crlf", "none"} /\ (line.end = "none" => k = Size(f))
  BY LinesOfFile
<1>2. body \in Seq(BodyKinds) /\ Len(body) \in Nat /\ kinds = body \o e
  BY KindsOfLine DEF LineKinds
<1> HIDE DEF line, kinds, body
<1>3. /\ line.end = "lf" => e = <<"nl">>
      /\ line.end = "crlf" => e = <<"cr", "nl">>
      /\ line.end = "none" => e = <<>>
  BY DEF EndText
<1> HIDE DEF e
<1>4. e \in Seq(BodyKinds)
  <2>1. "nl" \in BodyKinds /\ "cr" \in BodyKinds
    BY DEF BodyKinds
  <2>2. <<"nl">> \in Seq(BodyKinds) /\ <<>> \in Seq(BodyKinds)
    BY <2>1
  <2>3. <<"cr", "nl">> \in Seq(BodyKinds)
    BY <2>1
  <2> QED BY <1>1, <1>3, <2>2, <2>3
<1>5. LiesBehind(kinds, 0, body) /\ LiesBehind(kinds, Len(body), e) /\ Len(kinds) = Len(body) + Len(e)
  BY <1>2, <1>4, PartsOfConcat
<1>6. Len(e) = IF line.end = "none" THEN 0 ELSE IF line.end = "lf" THEN 1 ELSE 2
  BY <1>1, <1>3
<1>7. \A i \in 1..Len(body) : kinds[i] = body[i]
  <2> TAKE i \in 1..Len(body)
  <2>1. kinds[0 + i] = body[i] /\ 0 + i = i
    BY <1>2, <1>5 DEF LiesBehind
  <2> QED BY <2>1
<1>8. ASSUME line.end = "lf" PROVE kinds[Len(body) + 1] = "nl"
  <2>0. e = <<"nl">>
    BY <1>3, <1>8
  <2>1. 1 \in 1..Len(e) /\ e[1] = "nl"
    BY <2>0
  <2> QED BY <1>5, <2>1 DEF LiesBehind
<1>9. ASSUME line.end = "crlf" PROVE kinds[Len(body) + 1] = "cr" /\ kinds[Len(body) + 2] = "nl"
  <2>1. 1 \in 1..Len(e) /\ 2 \in 1..Len(e) /\ e[1] = "cr" /\ e[2] = "nl"
    BY <1>3, <1>9
  <2> QED BY <1>5, <2>1 DEF LiesBehind
<1>10. Len(kinds) = Len(body) + (IF line.end = "none" THEN 0 ELSE IF line.end = "lf" THEN 1 ELSE 2)
  BY <1>5, <1>6
<1>11. Len(kinds) \in Nat /\ Len(kinds) >= Len(body) /\ (line.end # "none" => Len(kinds) > Len(body))
  <2> DEFINE n == Len(kinds)
             m == Len(body)
  <2>1. n = m \/ n = m + 1 \/ n = m + 2
    BY <1>2, <1>10
  <2>2. line.end # "none" => n = m + 1 \/ n = m + 2
    BY <1>2, <1>10
  <2>3. m \in Nat
    BY <1>2
  <2> HIDE DEF n, m
  <2>4. n \in Nat /\ n >= m /\ (line.end # "none" => n > m)
    BY <2>1, <2>2, <2>3
  <2> QED BY <2>4 DEF n, m
<1> QED BY <1>1, <1>2, <1>7, <1>8, <1>9, <1>10, <1>11 DEF line, kinds, body

LEMMA ShapeOfLogical ==
  ASSUME NEW f \in Files, NEW k \in 1..Size(f), IsLogical(f.lines[k])
  PROVE  /\ Len(f.lines[k].body) > 0 /\ 1 \in 1..Len(LineKinds(f.lines[k]))
         /\ LineKinds(f.lines[k])[1] \in WordKinds
<1> DEFINE line == f.lines[k]
<1>1. line.body # <<>> /\ IsBody(line) /\ line.body \in Seq(BodyKinds)
  BY LinesOfFile, KindsOfLine DEF IsLogical
<1>2. Len(line.body) > 0
  BY <1>1
<1>3. LineKinds(line)[1] \in WordKinds
  BY <1>1 DEF IsBody
<1>4. Len(LineKinds(line)) \in Nat /\ Len(LineKinds(line)) >= Len(line.body) /\ Len(line.body) \in Nat
  BY LineShape
<1>5. 1 \in 1..Len(LineKinds(line))
  BY <1>2, <1>4
<1> QED BY <1>2, <1>3, <1>5

LEMMA ShapeOfQuiet ==
  ASSUME NEW f \in Files, NEW k \in 1..Size(f), ~IsLogical(f.lines[k])
  PROVE  \/ Len(f.lines[k].body) = 0
         \/ Len(f.lines[k].body) = 1 /\ LineKinds(f.lines[k])[1] = "comment"
<1>1. CASE f.lines[k].body = <<>>
  BY <1>1
<1>2. CASE f.lines[k].body = <<"comment">>
  <2>1. Len(f.lines[k].body) = 1 /\ f.lines[k].body[1] = "comment"
    BY <1>2
  <2>2. 1 \in 1..Len(f.lines[k].body)
    BY <2>1
  <2>3. LineKinds(f.lines[k])[1] = f.lines[k].body[1]
    BY <2>2, LineShape
  <2> QED BY <2>1, <2>3
<1> QED BY <1>1, <1>2 DEF IsLogical

FirstIn(f, p) == IF KindIn(f, p) = "blank" THEN p + 1 ELSE p

IndentIn(f, p) == IF KindIn(f, p) = "blank" THEN lexer_count_indent(f.text[p].run) ELSE 0

LEMMA KindsBegin ==
  ASSUME NEW f \in Files, NEW k \in 1..Size(f)
  PROVE  /\ Len(LineKinds(f.lines[k])) = 0 =>
              k = Size(f) /\ ~IsLogical(f.lines[k]) /\ Behind(f, k) = Len(f.text)
         /\ Len(LineKinds(f.lines[k])) > 0 => LineKinds(f.lines[k])[1] # "blank"
<1> DEFINE kinds == LineKinds(f.lines[k])
           body == f.lines[k].body
<1>1. /\ Len(body) \in Nat /\ f.lines[k].end \in {"lf", "crlf", "none"}
      /\ Len(kinds) = Len(body)
           + (IF f.lines[k].end = "none" THEN 0 ELSE IF f.lines[k].end = "lf" THEN 1 ELSE 2)
      /\ f.lines[k].end = "lf" => kinds[Len(body) + 1] = "nl"
      /\ f.lines[k].end = "crlf" => kinds[Len(body) + 1] = "cr"
      /\ f.lines[k].end = "none" => k = Size(f)
  BY LineShape
<1>0. Len(kinds) \in Nat /\ Len(kinds) >= Len(body) /\ (f.lines[k].end # "none" => Len(kinds) > Len(body))
  BY LineShape
<1>2. Len(kinds) = 0 => Len(body) = 0 /\ k = Size(f)
  <2> SUFFICES ASSUME Len(kinds) = 0 PROVE Len(body) = 0 /\ k = Size(f)
    OBVIOUS
  <2>1. CASE f.lines[k].end = "none"
    BY <1>1, <2>1
  <2>2. CASE f.lines[k].end # "none"
    <3>1. Len(kinds) > Len(body) /\ Len(body) \in Nat
      BY <1>0, <1>1, <2>2
    <3> QED BY <3>1
  <2> QED BY <2>1, <2>2
<1>3. Len(kinds) = 0 => ~IsLogical(f.lines[k])
  <2>1. IsLogical(f.lines[k]) => Len(body) > 0
    BY ShapeOfLogical
  <2> QED BY <1>2, <2>1
<1>4. Len(kinds) = 0 => Behind(f, k) = Len(f.text)
  BY <1>2, LinePlaces
<1>5. ASSUME Len(kinds) > 0 PROVE kinds[1] # "blank"
  <2>1. CASE IsLogical(f.lines[k])
    BY <2>1, ShapeOfLogical DEF WordKinds
  <2>2. CASE ~IsLogical(f.lines[k])
    <3>1. Len(body) = 0 \/ (Len(body) = 1 /\ kinds[1] = "comment")
      BY <2>2, ShapeOfQuiet
    <3>2. CASE Len(body) = 0
      <4>1. Len(body) + 1 = 1
        BY <3>2
      <4> QED BY <1>1, <1>5, <3>2, <4>1
    <3> QED BY <3>1, <3>2
  <2> QED BY <2>1, <2>2
<1> QED BY <1>2, <1>3, <1>4, <1>5

(* Behind a line there is the indentation of the next and its body. *)
LEMMA NextLineStarts ==
  ASSUME NEW f \in Files, NEW k \in 1..Size(f), NEW p, p = Behind(f, k - 1) + 1
  PROVE  /\ FirstIn(f, p) = BodyAt(f, k) + 1
         /\ IndentIn(f, p) = Indentation(f.lines, k)
         /\ Len(LineKinds(f.lines[k])) = 0 => KindIn(f, FirstIn(f, p)) = "end"
         /\ Len(LineKinds(f.lines[k])) > 0 =>
              KindIn(f, FirstIn(f, p)) = LineKinds(f.lines[k])[1] /\ p <= Len(f.text)
<1> DEFINE run == f.lines[k].run
           kinds == LineKinds(f.lines[k])
           b == BodyAt(f, k)
           m == Behind(f, k - 1)
<1>1. /\ m \in Nat /\ b \in Nat /\ Behind(f, k) \in Nat
      /\ b = m + (IF run = <<>> THEN 0 ELSE 1)
      /\ Behind(f, k) = b + Len(kinds) /\ Behind(f, k) <= Len(f.text)
      /\ run # <<>> => f.text[m + 1] = [kind |-> "blank", run |-> run]
  BY LinePlace
<1>2. Len(kinds) \in Nat /\ Len(f.text) \in Nat /\ run \in Seq(Blanks)
  BY KindsOfLine, LinePlaces
<1>3. Len(kinds) = 0 => Behind(f, k) = Len(f.text)
  BY KindsBegin
<1>4. Len(kinds) > 0 => kinds[1] # "blank" /\ KindIn(f, b + 1) = kinds[1]
  <2>1. Len(kinds) > 0 => 1 \in 1..Len(kinds)
    BY <1>2
  <2> QED BY <2>1, KindsBegin, SymbolPlace
<1>5. Len(kinds) = 0 => KindIn(f, b + 1) = "end"
  BY <1>1, <1>2, <1>3 DEF KindIn
<1>6. /\ Indentation(f.lines, k) = Width(run)
      /\ lexer_count_indent(run) = Width(run) /\ (run = <<>> => Width(run) = 0)
  <2>1. k # 0
    BY LinesOfFile
  <2> QED BY <1>2, <2>1, WidthIsCounted DEF Indentation
<1>7. CASE run = <<>>
  <2>1. p = b + 1
    BY <1>1, <1>7
  <2>2. KindIn(f, p) # "blank"
    BY <1>2, <1>4, <1>5, <2>1
  <2>3. FirstIn(f, p) = b + 1 /\ IndentIn(f, p) = 0
    BY <2>1, <2>2 DEF FirstIn, IndentIn
  <2>4. Len(kinds) > 0 => p <= Len(f.text)
    BY <1>1, <1>2, <2>1
  <2> QED BY <1>4, <1>5, <1>6, <1>7, <2>3, <2>4
<1>8. CASE run # <<>>
  <2>1. p = m + 1 /\ p <= Len(f.text) /\ b + 1 = p + 1
    BY <1>1, <1>2, <1>8
  <2>2. f.text[p] = [kind |-> "blank", run |-> run]
    BY <1>1, <1>8, <2>1
  <2>3. KindIn(f, p) = "blank" /\ f.text[p].run = run
    BY <1>1, <1>2, <2>1, <2>2 DEF KindIn
  <2>4. FirstIn(f, p) = b + 1 /\ IndentIn(f, p) = Width(run)
    BY <1>6, <2>1, <2>3 DEF FirstIn, IndentIn
  <2> QED BY <1>4, <1>5, <1>6, <2>1, <2>4
<1> QED BY <1>7, <1>8

-----------------------------------------------------------------------------
(* Comments and lines that count for nothing. *)
LineEndIn(f, p) == Min({q \in p..(Len(f.text) + 1) : KindIn(f, q) \in {"nl", "end"}})

LEMMA LineEndFound ==
  ASSUME NEW f \in Files, NEW p \in Nat, NEW q \in p..(Len(f.text) + 1),
         KindIn(f, q) \in {"nl", "end"}, \A i \in p..(q - 1) : KindIn(f, i) \notin {"nl", "end"}
  PROVE  LineEndIn(f, p) = q
<1> DEFINE S == {i \in p..(Len(f.text) + 1) : KindIn(f, i) \in {"nl", "end"}}
<1>1. Len(f.text) \in Nat
  BY LinePlaces
<1>2. S \subseteq Nat /\ q \in S
  BY <1>1
<1>3. Min(S) \in S /\ \A y \in S : Min(S) <= y
  BY <1>2, LeastOf, Zenon
<1> DEFINE m == Min(S)
<1>4. m \in p..(Len(f.text) + 1) /\ m <= q /\ KindIn(f, m) \in {"nl", "end"}
  BY <1>2, <1>3
<1> HIDE DEF m
<1>5. m \in p..(q - 1) \/ m = q
  BY <1>1, <1>4
<1>6. m = q
  BY <1>4, <1>5
<1> QED BY <1>6 DEF LineEndIn, m

(* A comment ends with its line, in front of the line end if it has one. *)
LEMMA CommentEnds ==
  ASSUME NEW f \in Files, NEW k \in 1..Size(f), NEW i \in 1..Len(LineKinds(f.lines[k])),
         LineKinds(f.lines[k])[i] = "comment"
  PROVE  /\ i = Len(LineKinds(f.lines[k])) /\ k = Size(f) =>
              LineEndIn(f, BodyAt(f, k) + i) = BodyAt(f, k) + i + 1
         /\ i + 1 \in 1..Len(LineKinds(f.lines[k])) /\ LineKinds(f.lines[k])[i + 1] = "nl" =>
              LineEndIn(f, BodyAt(f, k) + i) = BodyAt(f, k) + i + 1
         /\ /\ i + 1 \in 1..Len(LineKinds(f.lines[k])) /\ LineKinds(f.lines[k])[i + 1] = "cr"
            /\ i + 2 \in 1..Len(LineKinds(f.lines[k])) /\ LineKinds(f.lines[k])[i + 2] = "nl"
            => LineEndIn(f, BodyAt(f, k) + i) = BodyAt(f, k) + i + 2
<1> DEFINE b == BodyAt(f, k)
           n == Len(LineKinds(f.lines[k]))
           p == b + i
           size == Len(f.text)
<1>1. /\ b \in Nat /\ n \in Nat /\ i \in 1..n /\ size \in Nat /\ Behind(f, k) = b + n
      /\ Behind(f, k) <= size
  BY LinePlace, LinePlaces, KindsOfLine
<1>2. \A j \in 1..n : KindIn(f, b + j) = LineKinds(f.lines[k])[j]
  BY SymbolPlace
<1>3. KindIn(f, p) = "comment" /\ p \in Nat /\ p <= size
  BY <1>1, <1>2
<1>4. ASSUME NEW q, q = p + 1, q <= size + 1, KindIn(f, q) \in {"nl", "end"}
      PROVE  LineEndIn(f, p) = q
  <2>1. q \in p..(size + 1) /\ \A x \in p..(q - 1) : x = p
    BY <1>1, <1>3, <1>4
  <2> QED BY <1>3, <1>4, <2>1, LineEndFound
<1>5. ASSUME i = n, k = Size(f) PROVE LineEndIn(f, p) = p + 1
  <2>1. Behind(f, k) = size
    BY <1>5, LinePlaces
  <2>2. p + 1 > size /\ p + 1 <= size + 1
    BY <1>1, <1>3, <1>5, <2>1
  <2>3. KindIn(f, p + 1) = "end"
    BY <2>2 DEF KindIn
  <2> QED BY <1>4, <2>2, <2>3
<1>6. ASSUME i + 1 \in 1..n, LineKinds(f.lines[k])[i + 1] = "nl" PROVE LineEndIn(f, p) = p + 1
  <2>1. KindIn(f, b + (i + 1)) = "nl" /\ b + (i + 1) = p + 1
    BY <1>1, <1>2, <1>6
  <2>2. p + 1 <= size + 1
    BY <1>1, <1>3
  <2> QED BY <1>4, <2>1, <2>2
<1>7. ASSUME i + 1 \in 1..n, LineKinds(f.lines[k])[i + 1] = "cr",
             i + 2 \in 1..n, LineKinds(f.lines[k])[i + 2] = "nl"
      PROVE  LineEndIn(f, p) = p + 2
  <2>1. KindIn(f, b + (i + 1)) = "cr" /\ b + (i + 1) = p + 1
    BY <1>1, <1>2, <1>7
  <2>2. KindIn(f, b + (i + 2)) = "nl" /\ b + (i + 2) = p + 2
    BY <1>1, <1>2, <1>7
  <2>3. p + 2 \in p..(size + 1) /\ \A x \in p..((p + 2) - 1) : x = p \/ x = p + 1
    <3>1. p + 2 <= size + 1
      BY <1>1, <1>7
    <3> HIDE DEF p, size
    <3> QED BY <1>3, <1>1, <3>1
  <2>4. \A x \in p..((p + 2) - 1) : KindIn(f, x) \notin {"nl", "end"}
    BY <1>3, <2>1, <2>3
  <2>5. KindIn(f, p + 2) \in {"nl", "end"}
    BY <2>2
  <2> QED BY <1>3, <2>3, <2>4, <2>5, LineEndFound
<1>8. p + 1 = b + i + 1 /\ p + 2 = b + i + 2
  BY <1>1
<1> QED BY <1>5, <1>6, <1>7, <1>8

(* The place behind a line that has no token. *)
SkippedTo(f, q) ==
  LET p == IF KindIn(f, q) = "comment" THEN LineEndIn(f, q) ELSE q
  IN IF KindIn(f, p) = "nl" THEN p + 1 ELSE p

LEMMA QuietLineSkipped ==
  ASSUME NEW f \in Files, NEW k \in 1..Size(f), ~IsLogical(f.lines[k]),
         Len(LineKinds(f.lines[k])) > 0
  PROVE  \/ SkippedTo(f, BodyAt(f, k) + 1) = Behind(f, k) + 1
         \/ KindIn(f, SkippedTo(f, BodyAt(f, k) + 1)) = "cr"
<1> DEFINE kinds == LineKinds(f.lines[k])
           n == Len(kinds)
           body == f.lines[k].body
           end == f.lines[k].end
           b == BodyAt(f, k)
           q == b + 1
           size == Len(f.text)
<1>1. b \in Nat /\ n \in Nat /\ n > 0 /\ Behind(f, k) = b + n /\ size \in Nat /\ Behind(f, k) <= size
  BY LinePlace, LinePlaces, KindsOfLine
<1>2. \A j \in 1..n : KindIn(f, b + j) = kinds[j]
  BY SymbolPlace
<1>3. end \in {"lf", "crlf", "none"}
      /\ n = Len(body) + (IF end = "none" THEN 0 ELSE IF end = "lf" THEN 1 ELSE 2)
  BY LineShape
<1>4. /\ end = "lf" => kinds[Len(body) + 1] = "nl"
      /\ end = "crlf" => kinds[Len(body) + 1] = "cr" /\ kinds[Len(body) + 2] = "nl"
      /\ end = "none" => k = Size(f)
  BY LineShape
<1>5. Len(body) = 0 \/ (Len(body) = 1 /\ kinds[1] = "comment")
  BY ShapeOfQuiet
<1>6. CASE Len(body) = 0
  <2>1. CASE end = "lf"
    <3>1. n = 1 /\ kinds[1] = "nl" /\ 1 \in 1..n
      BY <1>3, <1>4, <1>6, <2>1
    <3>2. KindIn(f, q) = "nl" /\ q = Behind(f, k)
      BY <1>1, <1>2, <3>1
    <3>3. SkippedTo(f, q) = q + 1
      BY <3>2 DEF SkippedTo
    <3> QED BY <3>2, <3>3
  <2>2. CASE end = "crlf"
    <3>1. kinds[1] = "cr" /\ 1 \in 1..n
      BY <1>1, <1>4, <1>6, <2>2
    <3>2. KindIn(f, q) = "cr"
      BY <1>2, <3>1
    <3>3. SkippedTo(f, q) = q
      BY <3>2 DEF SkippedTo
    <3> QED BY <3>2, <3>3
  <2>3. CASE end = "none"
    BY <1>1, <1>3, <1>6, <2>3
  <2> QED BY <1>3, <2>1, <2>2, <2>3
<1>7. CASE Len(body) = 1 /\ kinds[1] = "comment"
  <2>0. 1 \in 1..n /\ KindIn(f, q) = "comment"
    BY <1>1, <1>2, <1>7
  <2>1. CASE end = "lf"
    <3>1. n = 2 /\ kinds[2] = "nl" /\ 2 \in 1..n /\ 1 + 1 = 2
      BY <1>3, <1>4, <1>7, <2>1
    <3>2. LineEndIn(f, q) = b + 1 + 1
      BY <1>7, <2>0, <3>1, CommentEnds
    <3>3. b + 2 = b + 1 + 1 /\ b + 2 = Behind(f, k)
      BY <1>1, <3>1
    <3>4. LineEndIn(f, q) = b + 2 /\ KindIn(f, b + 2) = "nl"
      BY <1>2, <3>1, <3>2, <3>3
    <3>5. SkippedTo(f, q) = (b + 2) + 1
      BY <2>0, <3>4 DEF SkippedTo
    <3> QED BY <3>3, <3>5
  <2>2. CASE end = "crlf"
    <3>1. n = 3 /\ kinds[2] = "cr" /\ kinds[3] = "nl" /\ 2 \in 1..n /\ 3 \in 1..n /\ 1 + 1 = 2 /\ 1 + 2 = 3
      BY <1>3, <1>4, <1>7, <2>2
    <3>2. LineEndIn(f, q) = b + 1 + 2
      BY <1>7, <2>0, <3>1, CommentEnds
    <3>3. b + 3 = b + 1 + 2 /\ b + 3 = Behind(f, k)
      BY <1>1, <3>1
    <3>4. LineEndIn(f, q) = b + 3 /\ KindIn(f, b + 3) = "nl"
      BY <1>2, <3>1, <3>2, <3>3
    <3>5. SkippedTo(f, q) = (b + 3) + 1
      BY <2>0, <3>4 DEF SkippedTo
    <3> QED BY <3>3, <3>5
  <2>3. CASE end = "none"
    <3>1. n = 1 /\ k = Size(f)
      BY <1>3, <1>4, <1>7, <2>3
    <3>2. LineEndIn(f, q) = b + 1 + 1
      BY <1>7, <2>0, <3>1, CommentEnds
    <3>3. Behind(f, k) = size
      BY <3>1, LinePlaces
    <3>4. b + 1 + 1 > size /\ b + 1 + 1 = Behind(f, k) + 1
      BY <1>1, <3>1, <3>3
    <3>5. KindIn(f, b + 1 + 1) = "end"
      BY <3>4 DEF KindIn
    <3>6. SkippedTo(f, q) = b + 1 + 1
      BY <2>0, <3>2, <3>5 DEF SkippedTo
    <3> QED BY <3>4, <3>6
  <2> QED BY <1>3, <2>1, <2>2, <2>3
<1> QED BY <1>5, <1>6, <1>7

-----------------------------------------------------------------------------
(* How far the lexer has come: the tokens that it has given are the first  *)
(* ones of Lexed, or they are up to an inconsistent line.                 *)
Agrees(f, s) ==
  /\ s \in Seq(Tokens) /\ Len(s) <= Len(Lexed(f))
  /\ \A i \in 1..Len(s) : s[i] = Lexed(f)[i]

Erred(f, s) ==
  \E e \in 1..Len(s) :
    /\ e <= Len(Lexed(f)) /\ Lexed(f)[e] = "ERROR"
    /\ \A i \in 1..e : s[i] = Lexed(f)[i]

(* Behind line k, or at the line feed behind its carriage return.  What    *)
(* was given, and is due, are the told first tokens of the file, and the   *)
(* stack has the blocks behind line k.                                     *)
BehindLine(f, k, st, told, p, depth) ==
  /\ told = Told(f, k) /\ OnStack(st, depth) = Blocks(f.lines, k)
  /\ p = Behind(f, k) + 1 \/ (k > 0 /\ p = Behind(f, k) /\ KindIn(f, p) = "nl")

AtStart(f, st, told, p, depth) == \E k \in 0..Size(f) : BehindLine(f, k, st, told, p, depth)

(* Behind symbol j of the body of line k. *)
BehindSymbol(f, k, j, st, told, p, depth, paren) ==
  /\ IsLogical(f.lines[k])
  /\ told = ToldIn(f, k, j) /\ OnStack(st, depth) = Blocks(f.lines, k)
  /\ p = BodyAt(f, k) + j + 1
  /\ paren = Depths(LineKinds(f.lines[k]))[j]
  /\ j = Len(LineKinds(f.lines[k])) => f.lines[k].end = "none"
  /\ j > 0 => LineKinds(f.lines[k])[j] # "backslash"

Within(f, st, told, p, depth, paren) ==
  \E k \in 1..Size(f) : \E j \in 0..Len(LineKinds(f.lines[k])) :
    BehindSymbol(f, k, j, st, told, p, depth, paren)

(* At the end, with a token left. *)
AtLast(f, told, p, depth) == p = Len(f.text) + 1 /\ depth = 0 /\ told = Len(Lexed(f)) - 1

(* The lexer is where it should be.  A carriage return of a blank line is  *)
(* where the loop does not end (see the run crlf_blank_line).              *)
AtPlace(f, st, told, p, depth, starts, paren) ==
  \/ starts /\ paren = 0 /\ (AtStart(f, st, told, p, depth) \/ KindIn(f, p) = "cr")
  \/ ~starts /\ Within(f, st, told, p, depth, paren)
  \/ AtLast(f, told, p, depth)

(* The next tokens are for blocks that a line or the file has closed. *)
Due(f, told, due) ==
  told + due <= Len(Lexed(f)) /\ \A i \in 1..due : Lexed(f)[told + i] = "DEDENT"

Tracked(f, st, s, p, depth, due, starts, paren) ==
  /\ Agrees(f, s) /\ Due(f, Len(s), due)
  /\ AtPlace(f, st, Len(s) + due, p, depth, starts, paren)

-----------------------------------------------------------------------------
(* One token more. *)

LEMMA NextAgrees ==
  ASSUME NEW f \in Files, NEW s, Agrees(f, s), NEW t \in Tokens, Len(s) < Len(Lexed(f)),
         Lexed(f)[Len(s) + 1] = t
  PROVE  Agrees(f, Append(s, t)) /\ Len(Append(s, t)) = Len(s) + 1
<1> DEFINE r == Append(s, t)
<1>1. s \in Seq(Tokens) /\ Len(s) \in Nat /\ \A i \in 1..Len(s) : s[i] = Lexed(f)[i]
  BY DEF Agrees
<1>2. /\ r \in Seq(Tokens) /\ Len(r) = Len(s) + 1 /\ r[Len(s) + 1] = t
      /\ \A i \in 1..Len(s) : r[i] = s[i]
  BY <1>1, AppendProperties
<1> HIDE DEF r
<1>3. ASSUME NEW i \in 1..Len(r) PROVE r[i] = Lexed(f)[i]
  <2>1. i \in 1..Len(s) \/ i = Len(s) + 1
    BY <1>1, <1>2
  <2> QED BY <1>1, <1>2, <2>1
<1>4. Len(r) <= Len(Lexed(f))
  BY <1>1, <1>2, TokensBehindLines
<1> QED BY <1>2, <1>3, <1>4 DEF Agrees, r

LEMMA ErredGoesOn ==
  ASSUME NEW f \in Files, NEW s \in Seq(Tokens), Erred(f, s), NEW t \in Tokens
  PROVE  Erred(f, Append(s, t))
<1> DEFINE r == Append(s, t)
<1>1. PICK e \in 1..Len(s) : /\ e <= Len(Lexed(f)) /\ Lexed(f)[e] = "ERROR"
                             /\ \A i \in 1..e : s[i] = Lexed(f)[i]
  BY DEF Erred
<1>2. Len(r) = Len(s) + 1 /\ Len(s) \in Nat /\ \A i \in 1..Len(s) : r[i] = s[i]
  BY AppendProperties
<1> HIDE DEF r
<1>3. e \in 1..Len(r) /\ \A i \in 1..e : i \in 1..Len(s)
  BY <1>2
<1>4. \A i \in 1..e : r[i] = Lexed(f)[i]
  BY <1>1, <1>2, <1>3
<1> QED BY <1>1, <1>3, <1>4 DEF Erred, r

LEMMA ErrorFound ==
  ASSUME NEW f \in Files, NEW s, Agrees(f, s), Len(s) < Len(Lexed(f)),
         Lexed(f)[Len(s) + 1] = "ERROR"
  PROVE  Erred(f, Append(s, "ERROR"))
<1> DEFINE r == Append(s, "ERROR")
           n == Len(s) + 1
<1>1. Agrees(f, r) /\ Len(r) = n /\ Len(s) \in Nat
  <2>1. "ERROR" \in Tokens
    BY DEF Tokens
  <2> QED BY <2>1, NextAgrees DEF Agrees
<1>2. n \in 1..Len(r) /\ Lexed(f)[n] = "ERROR"
  BY <1>1
<1> HIDE DEF r, n
<1>3. n <= Len(Lexed(f)) /\ \A i \in 1..n : r[i] = Lexed(f)[i]
  BY <1>1 DEF Agrees
<1> QED BY <1>2, <1>3 DEF Erred, r

(* The tokens of a consistent line for the blocks. *)
LEMMA BlocksTold ==
  ASSUME NEW f \in Files, NEW k \in 1..Size(f), IsLogical(f.lines[k]), IsConsistent(f.lines, k)
  PROVE  /\ Told(f, k - 1) \in Nat /\ NewBlocksOf(f, k) \in Nat /\ OldBlocksOf(f, k) \in Nat
         /\ ToldIn(f, k, 0) = Told(f, k - 1) + NewBlocksOf(f, k) + OldBlocksOf(f, k)
         /\ \A i \in 1..NewBlocksOf(f, k) : Lexed(f)[Told(f, k - 1) + i] = "INDENT"
         /\ NewBlocksOf(f, k) = 0 =>
              \A i \in 1..OldBlocksOf(f, k) : Lexed(f)[Told(f, k - 1) + i] = "DEDENT"
         /\ ToldIn(f, k, 0) < Len(Lexed(f))
<1> DEFINE B == LexedBlocks(f.lines, k)
           a == NewBlocksOf(f, k)
           b == OldBlocksOf(f, k)
           m == Told(f, k - 1)
<1>1. m \in Nat /\ a \in Nat /\ b \in Nat
  BY TokenPlace, BlocksCounted
<1>2. LiesBehind(Lexed(f), m, B) /\ Len(B) \in Nat /\ ToldIn(f, k, 0) = m + Len(B)
  BY LinePlaceTokens
<1>3. Len(B) = a + b
  BY TokensOfBlocks
<1>4. \A i \in 1..a : B[i] = "INDENT"
  BY TokensOfBlocks
<1>5. \A i \in 1..b : B[a + i] = "DEDENT"
  BY TokensOfBlocks
<1>6. ToldIn(f, k, 0) < Len(Lexed(f))
  <2>1. 1 \in 1..Len(LineKinds(f.lines[k])) /\ 1 - 1 = 0
    BY ShapeOfLogical
  <2>2. /\ ToldIn(f, k, 0) \in Nat /\ ToldIn(f, k, 1) < Len(Lexed(f))
        /\ ToldIn(f, k, 1) = ToldIn(f, k, 0) \/ ToldIn(f, k, 1) = ToldIn(f, k, 0) + 1
    BY <2>1, WordPlace
  <2>3. Len(Lexed(f)) \in Nat
    BY TokensBehindLines
  <2> QED BY <2>2, <2>3
<1> HIDE DEF B, a, b, m
<1>7. ASSUME NEW i \in 1..a PROVE Lexed(f)[m + i] = "INDENT"
  <2>1. i \in 1..Len(B)
    BY <1>1, <1>3
  <2> QED BY <1>2, <1>4, <2>1 DEF LiesBehind
<1>8. ASSUME a = 0, NEW i \in 1..b PROVE Lexed(f)[m + i] = "DEDENT"
  <2>1. i \in 1..Len(B) /\ a + i = i
    BY <1>1, <1>3, <1>8
  <2> QED BY <1>2, <1>5, <2>1 DEF LiesBehind
<1>9. ToldIn(f, k, 0) = m + a + b
  BY <1>1, <1>2, <1>3
<1> QED BY <1>1, <1>6, <1>7, <1>8, <1>9 DEF m, a, b

LEMMA ErrorTold ==
  ASSUME NEW f \in Files, NEW k \in 1..Size(f), IsLogical(f.lines[k]), ~IsConsistent(f.lines, k)
  PROVE  Told(f, k - 1) < Len(Lexed(f)) /\ Lexed(f)[Told(f, k - 1) + 1] = "ERROR"
<1> DEFINE B == LexedBlocks(f.lines, k)
           m == Told(f, k - 1)
<1>1. LiesBehind(Lexed(f), m, B) /\ m \in Nat /\ Len(Lexed(f)) \in Nat
  BY TokenPlace, LinePlaceTokens, TokensBehindLines
<1>2. B = <<"ERROR">>
  BY TokensOfBlocks
<1>3. Len(B) = 1 /\ B[1] = "ERROR" /\ 1 \in 1..Len(B)
  BY <1>2
<1> HIDE DEF B, m
<1>4. m + Len(B) <= Len(Lexed(f)) /\ Lexed(f)[m + 1] = B[1]
  BY <1>1, <1>3 DEF LiesBehind
<1>5. m < Len(Lexed(f))
  BY <1>1, <1>3, <1>4
<1> QED BY <1>3, <1>4, <1>5 DEF m

-----------------------------------------------------------------------------
(* The start of a line, and the end of the file. *)
LEMMA PlaceBehindLine ==
  ASSUME NEW f \in Files, NEW k \in 0..Size(f), NEW st, NEW told, NEW p, NEW depth,
         BehindLine(f, k, st, told, p, depth), p <= Len(f.text), KindIn(f, FirstIn(f, p)) # "nl"
  PROVE  /\ k + 1 \in 1..Size(f) /\ (k + 1) - 1 = k
         /\ FirstIn(f, p) = BodyAt(f, k + 1) + 1
         /\ IndentIn(f, p) = Indentation(f.lines, k + 1)
         /\ Len(LineKinds(f.lines[k + 1])) = 0 => KindIn(f, FirstIn(f, p)) = "end"
         /\ Len(LineKinds(f.lines[k + 1])) > 0 =>
              KindIn(f, FirstIn(f, p)) = LineKinds(f.lines[k + 1])[1]
<1>1. Size(f) \in Nat /\ Behind(f, k) \in Nat /\ Len(f.text) \in Nat /\ Behind(f, Size(f)) = Len(f.text)
  BY LinesOfFile, LinePlaces
<1>2. p = Behind(f, k) + 1
  <2>1. KindIn(f, p) = "nl" => FirstIn(f, p) = p
    BY DEF FirstIn
  <2> QED BY <2>1 DEF BehindLine
<1>3. k # Size(f)
  BY <1>1, <1>2
<1> DEFINE m == k + 1
<1>4. m \in 1..Size(f) /\ m - 1 = k
  BY <1>1, <1>3
<1> HIDE DEF m
<1>5. /\ FirstIn(f, p) = BodyAt(f, m) + 1
      /\ IndentIn(f, p) = Indentation(f.lines, m)
      /\ Len(LineKinds(f.lines[m])) = 0 => KindIn(f, FirstIn(f, p)) = "end"
      /\ Len(LineKinds(f.lines[m])) > 0 =>
           KindIn(f, FirstIn(f, p)) = LineKinds(f.lines[m])[1]
  BY <1>2, <1>4, NextLineStarts
<1> QED BY <1>4, <1>5 DEF m

LEMMA LogicalLineStarts ==
  ASSUME NEW f \in Files, NEW st, NEW told, NEW p, NEW depth,
         AtStart(f, st, told, p, depth) \/ KindIn(f, p) = "cr",
         p <= Len(f.text), KindIn(f, FirstIn(f, p)) \notin {"nl", "cr", "comment", "end"}
  PROVE  \E k \in 1..Size(f) :
           /\ IsLogical(f.lines[k]) /\ told = Told(f, k - 1)
           /\ OnStack(st, depth) = Blocks(f.lines, k - 1)
           /\ FirstIn(f, p) = BodyAt(f, k) + 1 /\ IndentIn(f, p) = Indentation(f.lines, k)
<1>1. KindIn(f, p) # "cr"
  BY DEF FirstIn
<1>2. PICK k \in 0..Size(f) : BehindLine(f, k, st, told, p, depth)
  BY <1>1 DEF AtStart
<1> DEFINE m == k + 1
           kinds == LineKinds(f.lines[m])
<1>3. /\ m \in 1..Size(f) /\ m - 1 = k
      /\ FirstIn(f, p) = BodyAt(f, m) + 1 /\ IndentIn(f, p) = Indentation(f.lines, m)
      /\ Len(kinds) = 0 => KindIn(f, FirstIn(f, p)) = "end"
      /\ Len(kinds) > 0 => KindIn(f, FirstIn(f, p)) = kinds[1]
  BY <1>2, PlaceBehindLine
<1> HIDE DEF m
<1>4. Len(kinds) \in Nat
  BY <1>3, KindsOfLine
<1>5. kinds[1] \notin {"nl", "cr", "comment"} /\ Len(kinds) > 0
  BY <1>3, <1>4
<1>6. IsLogical(f.lines[m])
  <2>1. SUFFICES ASSUME ~IsLogical(f.lines[m]) PROVE FALSE
    OBVIOUS
  <2> DEFINE body == f.lines[m].body
  <2>2. Len(body) = 0
    BY <1>3, <1>5, <2>1, ShapeOfQuiet
  <2>3. /\ f.lines[m].end = "lf" => kinds[Len(body) + 1] = "nl"
        /\ f.lines[m].end = "crlf" => kinds[Len(body) + 1] = "cr"
        /\ f.lines[m].end \in {"lf", "crlf", "none"}
    BY <1>3, LineShape
  <2>4. f.lines[m].end = "none" => Len(kinds) = Len(body)
    <3>1. /\ Len(body) \in Nat
          /\ Len(kinds) = Len(body)
               + (IF f.lines[m].end = "none" THEN 0 ELSE IF f.lines[m].end = "lf" THEN 1 ELSE 2)
      BY <1>3, LineShape
    <3> QED BY <3>1
  <2>5. Len(body) + 1 = 1
    BY <2>2
  <2> QED BY <1>5, <2>2, <2>3, <2>4, <2>5
<1>7. told = Told(f, m - 1) /\ OnStack(st, depth) = Blocks(f.lines, m - 1)
  BY <1>2, <1>3 DEF BehindLine
<1> QED BY <1>3, <1>6, <1>7

LEMMA QuietLineStarts ==
  ASSUME NEW f \in Files, NEW st, NEW told, NEW p, NEW depth,
         AtStart(f, st, told, p, depth) \/ KindIn(f, p) = "cr",
         p <= Len(f.text), KindIn(f, FirstIn(f, p)) \in {"nl", "cr", "comment"}
  PROVE  \/ AtStart(f, st, told, SkippedTo(f, FirstIn(f, p)), depth)
         \/ KindIn(f, SkippedTo(f, FirstIn(f, p))) = "cr"
<1> DEFINE q == FirstIn(f, p)
           r == SkippedTo(f, q)
<1>1. CASE KindIn(f, p) = "cr"
  BY <1>1 DEF FirstIn, SkippedTo
<1>2. CASE KindIn(f, p) # "cr" /\ KindIn(f, q) = "nl"
  <2>1. PICK k \in 0..Size(f) : BehindLine(f, k, st, told, p, depth)
    BY <1>2 DEF AtStart
  <2>0. Behind(f, k) \in Nat /\ Len(f.text) \in Nat /\ Size(f) \in Nat
    BY LinePlaces, LinesOfFile
  <2>2. r = q + 1
    BY <1>2 DEF SkippedTo
  <2>3. CASE k > 0 /\ p = Behind(f, k) /\ KindIn(f, p) = "nl"
    <3>1. q = p
      BY <2>3 DEF FirstIn
    <3>2. r = Behind(f, k) + 1
      BY <2>2, <2>3, <3>1
    <3>3. BehindLine(f, k, st, told, r, depth)
      BY <2>1, <3>2 DEF BehindLine
    <3> QED BY <3>3 DEF AtStart
  <2>4. CASE p = Behind(f, k) + 1
    <3> DEFINE m == k + 1
               kinds == LineKinds(f.lines[m])
    <3>1. m \in 1..Size(f) /\ m - 1 = k
      <4>1. k # Size(f)
        BY <2>0, <2>4, LinePlaces
      <4> QED BY <2>0, <4>1
    <3> HIDE DEF m
    <3>2. /\ q = BodyAt(f, m) + 1
          /\ Len(kinds) = 0 => KindIn(f, q) = "end"
          /\ Len(kinds) > 0 => KindIn(f, q) = kinds[1]
      BY <2>4, <3>1, NextLineStarts
    <3>3. Len(kinds) \in Nat /\ Len(kinds) > 0 /\ kinds[1] = "nl"
      <4>1. Len(kinds) \in Nat
        BY <3>1, KindsOfLine
      <4> QED BY <1>2, <3>2, <4>1
    <3>4. ~IsLogical(f.lines[m])
      BY <3>1, <3>3, ShapeOfLogical DEF WordKinds
    <3>5. r = Behind(f, m) + 1 \/ KindIn(f, r) = "cr"
      BY <3>1, <3>2, <3>3, <3>4, QuietLineSkipped
    <3>6. Told(f, m) = Told(f, k) /\ Blocks(f.lines, m) = Blocks(f.lines, k)
      BY <3>1, <3>4, QuietLine, NoNewBlock
    <3>7. m \in 0..Size(f)
      BY <3>1, <2>0
    <3>8. r = Behind(f, m) + 1 => BehindLine(f, m, st, told, r, depth)
      BY <2>1, <3>6 DEF BehindLine
    <3> QED BY <3>5, <3>7, <3>8 DEF AtStart
  <2> QED BY <2>1, <2>3, <2>4 DEF BehindLine
<1>3. CASE KindIn(f, p) # "cr" /\ KindIn(f, q) # "nl"
  <2>1. PICK k \in 0..Size(f) : BehindLine(f, k, st, told, p, depth)
    BY <1>3 DEF AtStart
  <2> DEFINE m == k + 1
             kinds == LineKinds(f.lines[m])
  <2>2. /\ m \in 1..Size(f) /\ m - 1 = k
        /\ q = BodyAt(f, m) + 1
        /\ Len(kinds) = 0 => KindIn(f, q) = "end"
        /\ Len(kinds) > 0 => KindIn(f, q) = kinds[1]
    BY <1>3, <2>1, PlaceBehindLine
  <2> HIDE DEF m
  <2>3. Len(kinds) \in Nat /\ Len(kinds) > 0 /\ kinds[1] \in {"cr", "comment"}
    <3>1. Len(kinds) \in Nat
      BY <2>2, KindsOfLine
    <3> QED BY <1>3, <2>2, <3>1
  <2>4. ~IsLogical(f.lines[m])
    BY <2>2, <2>3, ShapeOfLogical DEF WordKinds
  <2>5. r = Behind(f, m) + 1 \/ KindIn(f, r) = "cr"
    BY <2>2, <2>3, <2>4, QuietLineSkipped
  <2>6. Told(f, m) = Told(f, k) /\ Blocks(f.lines, m) = Blocks(f.lines, k)
    BY <2>2, <2>4, QuietLine, NoNewBlock
  <2>7. m \in 0..Size(f)
    BY <2>2, LinesOfFile
  <2>8. r = Behind(f, m) + 1 => BehindLine(f, m, st, told, r, depth)
    BY <2>1, <2>6 DEF BehindLine
  <2> QED BY <2>5, <2>7, <2>8 DEF AtStart
<1> QED BY <1>1, <1>2, <1>3

(* At the end of the file all lines are told. *)
LEMMA FileEndsAtStart ==
  ASSUME NEW f \in Files, NEW st, NEW told, NEW p, NEW depth,
         AtStart(f, st, told, p, depth) \/ KindIn(f, p) = "cr",
         p > Len(f.text) \/ KindIn(f, FirstIn(f, p)) = "end"
  PROVE  told = Told(f, Size(f)) /\ OnStack(st, depth) = Blocks(f.lines, Size(f))
<1>0. Size(f) \in Nat /\ Len(f.text) \in Nat
  BY LinesOfFile, LinePlaces
<1>1. KindIn(f, p) # "cr"
  BY DEF FirstIn, KindIn
<1>2. PICK k \in 0..Size(f) : BehindLine(f, k, st, told, p, depth)
  BY <1>1 DEF AtStart
<1>3. p = Behind(f, k) + 1
  <2>1. KindIn(f, p) = "nl" => FirstIn(f, p) = p /\ ~(p > Len(f.text))
    BY DEF FirstIn, KindIn
  <2> QED BY <1>2, <2>1 DEF BehindLine
<1>4. CASE k = Size(f)
  BY <1>2, <1>4 DEF BehindLine
<1>5. CASE k # Size(f)
  <2> DEFINE m == k + 1
             kinds == LineKinds(f.lines[m])
  <2>1. m \in 1..Size(f) /\ m - 1 = k
    BY <1>0, <1>5
  <2> HIDE DEF m
  <2>2. /\ Len(kinds) > 0 => KindIn(f, FirstIn(f, p)) = kinds[1] /\ p <= Len(f.text)
        /\ Len(kinds) \in Nat
    BY <1>3, <2>1, NextLineStarts, KindsOfLine
  <2>3. Behind(f, k) \in Nat
    BY LinePlaces
  <2>4. Len(kinds) = 0
    <3> SUFFICES ASSUME Len(kinds) > 0 PROVE FALSE
      BY <2>2
    <3>1. kinds[1] = "end"
      BY <1>0, <1>3, <2>2, <2>3
    <3>2. kinds[1] \in BodyKinds
      BY <2>1, <2>2, KindsOfLine, SMTT(30)
    <3> QED BY <3>1, <3>2 DEF BodyKinds, WordKinds
  <2>5. m = Size(f) /\ ~IsLogical(f.lines[m])
    BY <2>1, <2>4, KindsBegin
  <2>6. Told(f, m) = Told(f, k) /\ Blocks(f.lines, m) = Blocks(f.lines, k)
    BY <2>1, <2>5, QuietLine, NoNewBlock
  <2> QED BY <1>2, <2>5, <2>6 DEF BehindLine
<1> QED BY <1>4, <1>5

LEMMA FileEndsWithin ==
  ASSUME NEW f \in Files, NEW st, NEW told, NEW p, NEW depth, NEW paren,
         Within(f, st, told, p, depth, paren), p > Len(f.text)
  PROVE  told = Told(f, Size(f)) /\ OnStack(st, depth) = Blocks(f.lines, Size(f))
<1>0. PICK k \in 1..Size(f) : \E j \in 0..Len(LineKinds(f.lines[k])) :
        BehindSymbol(f, k, j, st, told, p, depth, paren)
  BY DEF Within
<1>1. PICK j \in 0..Len(LineKinds(f.lines[k])) : BehindSymbol(f, k, j, st, told, p, depth, paren)
  BY <1>0
<1> DEFINE n == Len(LineKinds(f.lines[k]))
<1>2. /\ BodyAt(f, k) \in Nat /\ n \in Nat /\ Len(f.text) \in Nat
      /\ Behind(f, k) = BodyAt(f, k) + n /\ Behind(f, k) <= Len(f.text)
  BY LinePlace, LinePlaces, KindsOfLine
<1>3. p = BodyAt(f, k) + j + 1 /\ j \in 0..n
  BY <1>1 DEF BehindSymbol
<1>4. j = n
  BY <1>2, <1>3
<1>5. f.lines[k].end = "none" /\ IsLogical(f.lines[k]) /\ told = ToldIn(f, k, n)
      /\ OnStack(st, depth) = Blocks(f.lines, k)
  BY <1>1, <1>4 DEF BehindSymbol
<1>6. k = Size(f) /\ ToldIn(f, k, n) \in Nat
  <2>1. k = Size(f)
    BY <1>5, LinesOfFile
  <2>2. Told(f, k) \in Nat /\ Told(f, k) = ToldIn(f, k, n) + 0
    BY <1>5, LinePlaceTokens, TokenPlace
  <2>3. n \in 1..n
    <3>1. 1 \in 1..n
      BY <1>5, ShapeOfLogical
    <3> HIDE DEF n
    <3> QED BY <1>2, <3>1
  <2>4. ToldIn(f, k, n - 1) \in Nat /\ (ToldIn(f, k, n) = ToldIn(f, k, n - 1) \/ ToldIn(f, k, n) = ToldIn(f, k, n - 1) + 1)
    BY <1>5, <2>3, WordPlace
  <2> QED BY <2>1, <2>4
<1>7. Told(f, k) = ToldIn(f, k, n) + 0
  BY <1>5, LinePlaceTokens
<1> QED BY <1>5, <1>6, <1>7

-----------------------------------------------------------------------------
(* Inside of a line. *)
BodyOf(line) == Len(line.body)

LEMMA SymbolsOfBody ==
  ASSUME NEW f \in Files, NEW k \in 1..Size(f), IsLogical(f.lines[k]),
         NEW i \in 1..Len(LineKinds(f.lines[k]))
  PROVE  /\ Depths(LineKinds(f.lines[k]))[BodyOf(f.lines[k])] = 0
         /\ LineKinds(f.lines[k])[i] \notin Breaks => i <= BodyOf(f.lines[k])
         /\ i <= BodyOf(f.lines[k]) /\ LineKinds(f.lines[k])[i] \in Breaks =>
              \/ Depths(LineKinds(f.lines[k]))[i - 1] > 0
              \/ i > 1 /\ LineKinds(f.lines[k])[i - 1] = "backslash" /\ LineKinds(f.lines[k])[i] = "nl"
         /\ LineKinds(f.lines[k])[i] = "backslash" =>
              i < BodyOf(f.lines[k]) /\ LineKinds(f.lines[k])[i + 1] = "nl"
         /\ i <= BodyOf(f.lines[k]) /\ LineKinds(f.lines[k])[i] = "cr" =>
              i < BodyOf(f.lines[k]) /\ LineKinds(f.lines[k])[i + 1] = "nl"
         /\ LineKinds(f.lines[k])[i] = "comment" =>
              i = Len(LineKinds(f.lines[k])) \/ LineKinds(f.lines[k])[i + 1] \in Breaks
         /\ i = Len(LineKinds(f.lines[k])) /\ i <= BodyOf(f.lines[k]) => f.lines[k].end = "none"
<1> DEFINE line == f.lines[k]
           kinds == LineKinds(line)
           m == Len(line.body)
<1>1. IsBody(line)
  BY LinesOfFile
<1>2. /\ m \in Nat /\ Len(kinds) \in Nat /\ line.end \in {"lf", "crlf", "none"}
      /\ Len(kinds) = m + (IF line.end = "none" THEN 0 ELSE IF line.end = "lf" THEN 1 ELSE 2)
      /\ line.end = "lf" => kinds[m + 1] = "nl"
      /\ line.end = "crlf" => kinds[m + 1] = "cr" /\ kinds[m + 2] = "nl"
  BY LineShape
<1>3. /\ Depths(kinds)[m] = 0
      /\ \A x \in 1..m : kinds[x] \in {"nl", "cr"} => JoinedAt(kinds, x)
      /\ \A x \in 1..m : kinds[x] = "cr" => x < m /\ kinds[x + 1] = "nl"
      /\ \A x \in 1..m : kinds[x] = "backslash" => x < m /\ kinds[x + 1] = "nl"
      /\ \A x \in 1..m : kinds[x] = "comment" => x = Len(kinds) \/ kinds[x + 1] \in {"nl", "cr"}
  BY <1>1 DEF IsBody
<1>4. i \in 1..Len(kinds)
  OBVIOUS
<1>9. line.end # "none" => Len(kinds) > m
  BY LineShape
<1> HIDE DEF line, kinds, m
<1>5. i > m => kinds[i] \in Breaks
  <2> SUFFICES ASSUME i > m PROVE kinds[i] \in Breaks
    OBVIOUS
  <2>1. CASE line.end = "none"
    BY <1>2, <1>4, <2>1
  <2>2. CASE line.end = "lf"
    <3>1. i = m + 1
      BY <1>2, <1>4, <2>2
    <3> QED BY <1>2, <2>2, <3>1 DEF Breaks
  <2>3. CASE line.end = "crlf"
    <3>1. i = m + 1 \/ i = m + 2
      BY <1>2, <1>4, <2>3
    <3> QED BY <1>2, <2>3, <3>1 DEF Breaks
  <2> QED BY <1>2, <2>1, <2>2, <2>3
<1>6. i <= m => i \in 1..m
  BY <1>2, <1>4
<1>7. i <= m /\ kinds[i] \in Breaks =>
        Depths(kinds)[i - 1] > 0 \/ (i > 1 /\ kinds[i - 1] = "backslash" /\ kinds[i] = "nl")
  BY <1>3, <1>6 DEF Breaks, JoinedAt
<1>8. kinds[i] \notin Breaks => i <= m
  BY <1>2, <1>4, <1>5
<1>10. i = Len(kinds) /\ i <= m => line.end = "none"
  BY <1>2, <1>4, <1>9
<1>11. kinds[i] = "backslash" => i < m /\ kinds[i + 1] = "nl"
  BY <1>3, <1>6, <1>8 DEF Breaks
<1>12. kinds[i] = "comment" => i = Len(kinds) \/ kinds[i + 1] \in Breaks
  BY <1>3, <1>6, <1>8 DEF Breaks
<1>13. i <= m /\ kinds[i] = "cr" => i < m /\ kinds[i + 1] = "nl"
  BY <1>3, <1>6
<1> QED BY <1>3, <1>7, <1>8, <1>10, <1>11, <1>12, <1>13 DEF line, kinds, m, BodyOf

(* Symbols that change nothing. *)
Idle == {"blank", "comment", "backslash", "nl", "cr"}

LEMMA IdleSymbol ==
  ASSUME NEW f \in Files, NEW k \in 1..Size(f), IsLogical(f.lines[k]),
         NEW i \in 1..Len(LineKinds(f.lines[k])), LineKinds(f.lines[k])[i] \in Idle
  PROVE  /\ ToldIn(f, k, i) = ToldIn(f, k, i - 1)
         /\ Depths(LineKinds(f.lines[k]))[i] = Depths(LineKinds(f.lines[k]))[i - 1]
<1> DEFINE kinds == LineKinds(f.lines[k])
<1>1. ToldIn(f, k, i) = ToldIn(f, k, i - 1)
  BY WordPlace DEF Idle, WordKinds
<1>2. kinds \in Seq(BodyKinds)
  BY KindsOfLine
<1>3. Depths(kinds)[i] = Unclosed(Depths(kinds)[i - 1], kinds[i])
  BY <1>2, DepthsRecursion
<1>4. Depths(kinds)[i] = Depths(kinds)[i - 1]
  BY <1>3 DEF Unclosed, Idle
<1> QED BY <1>1, <1>4

(* The lexer is at the next symbol of the line or at the end of the file. *)
LEMMA NextSymbol ==
  ASSUME NEW f \in Files, NEW k \in 1..Size(f), NEW j \in 0..Len(LineKinds(f.lines[k])),
         NEW st, NEW told, NEW p, NEW depth, NEW paren,
         BehindSymbol(f, k, j, st, told, p, depth, paren), p <= Len(f.text)
  PROVE  /\ j + 1 \in 1..Len(LineKinds(f.lines[k])) /\ (j + 1) - 1 = j
         /\ p = BodyAt(f, k) + (j + 1)
         /\ KindIn(f, p) = LineKinds(f.lines[k])[j + 1]
<1> DEFINE n == Len(LineKinds(f.lines[k]))
<1>1. /\ BodyAt(f, k) \in Nat /\ n \in Nat /\ Len(f.text) \in Nat
      /\ Behind(f, k) = BodyAt(f, k) + n /\ Behind(f, k) <= Len(f.text)
  BY LinePlace, LinePlaces, KindsOfLine
<1>2. p = BodyAt(f, k) + j + 1 /\ j \in 0..n /\ (j = n => f.lines[k].end = "none")
  BY DEF BehindSymbol
<1>3. j # n
  <2> SUFFICES ASSUME j = n PROVE FALSE
    OBVIOUS
  <2>1. k = Size(f)
    BY <1>2, LinesOfFile
  <2>2. Behind(f, k) = Len(f.text)
    BY <2>1, LinePlaces
  <2> QED BY <1>1, <1>2, <2>2
<1> DEFINE i == j + 1
<1>4. i \in 1..n /\ i - 1 = j /\ p = BodyAt(f, k) + i
  BY <1>1, <1>2, <1>3
<1> HIDE DEF i
<1>5. KindIn(f, p) = LineKinds(f.lines[k])[i]
  BY <1>4, SymbolPlace
<1> QED BY <1>4, <1>5 DEF i

-----------------------------------------------------------------------------
(* Passing symbols without a token: the lexer stays within the lines. *)

LEMMA SymbolPassed ==
  ASSUME NEW f \in Files, NEW k \in 1..Size(f), NEW i \in 1..Len(LineKinds(f.lines[k])),
         NEW st, NEW told, NEW r, NEW depth, NEW paren,
         IsLogical(f.lines[k]), told = ToldIn(f, k, i), OnStack(st, depth) = Blocks(f.lines, k),
         r = BodyAt(f, k) + i + 1, paren = Depths(LineKinds(f.lines[k]))[i],
         i = Len(LineKinds(f.lines[k])) => f.lines[k].end = "none",
         LineKinds(f.lines[k])[i] # "backslash"
  PROVE  Within(f, st, told, r, depth, paren)
<1>1. i \in 0..Len(LineKinds(f.lines[k]))
  OBVIOUS
<1>2. BehindSymbol(f, k, i, st, told, r, depth, paren)
  BY DEF BehindSymbol
<1> QED BY <1>1, <1>2 DEF Within

Skipped(f, p, r, paren) ==
  \/ KindIn(f, p) = "blank" /\ r = p + 1
  \/ KindIn(f, p) = "comment" /\ r = LineEndIn(f, p)
  \/ KindIn(f, p) \in Breaks /\ paren > 0 /\ r = p + 1
  \/ KindIn(f, p) = "backslash" /\ KindIn(f, p + 1) = "nl" /\ r = p + 2

LEMMA SkippedWithin ==
  ASSUME NEW f \in Files, NEW st, NEW told, NEW p, NEW r, NEW depth, NEW paren,
         Within(f, st, told, p, depth, paren), p <= Len(f.text), Skipped(f, p, r, paren)
  PROVE  Within(f, st, told, r, depth, paren)
<1>1. PICK k \in 1..Size(f) : \E j \in 0..Len(LineKinds(f.lines[k])) :
        BehindSymbol(f, k, j, st, told, p, depth, paren)
  BY DEF Within
<1>2. PICK j \in 0..Len(LineKinds(f.lines[k])) : BehindSymbol(f, k, j, st, told, p, depth, paren)
  BY <1>1
<1> DEFINE kinds == LineKinds(f.lines[k])
           n == Len(kinds)
           m == BodyOf(f.lines[k])
           d == Depths(kinds)
           b == BodyAt(f, k)
           i == j + 1
<1>3. /\ i \in 1..n /\ i - 1 = j /\ p = b + i /\ KindIn(f, p) = kinds[i]
  BY <1>2, NextSymbol
<1>4. /\ IsLogical(f.lines[k]) /\ told = ToldIn(f, k, j) /\ OnStack(st, depth) = Blocks(f.lines, k)
      /\ paren = d[j]
  BY <1>2 DEF BehindSymbol
<1>5. b \in Nat /\ n \in Nat /\ m \in Nat /\ m <= n
  BY LinePlace, KindsOfLine, LineShape DEF BodyOf
<1> HIDE DEF i
<1>6. /\ d[m] = 0
      /\ kinds[i] \notin Breaks => i <= m
      /\ kinds[i] = "backslash" => i < m
      /\ kinds[i] = "comment" => i = n \/ kinds[i + 1] \in Breaks
      /\ i = n /\ i <= m => f.lines[k].end = "none"
  BY <1>3, <1>4, SymbolsOfBody
<1>7. kinds[i] \in Idle /\ Skipped(f, p, r, paren)
  BY <1>3 DEF Skipped, Idle, Breaks
<1>8. ToldIn(f, k, i) = told /\ d[i] = paren
  BY <1>3, <1>4, <1>7, IdleSymbol
<1>9. CASE i <= m /\ kinds[i] # "backslash" /\ r = p + 1
  <2>1. r = b + i + 1
    BY <1>3, <1>9
  <2> QED BY <1>3, <1>4, <1>6, <1>8, <1>9, <2>1, SymbolPassed
<1>10. CASE kinds[i] = "blank"
  <2>1. r = p + 1 /\ kinds[i] \notin Breaks
    BY <1>3, <1>10 DEF Skipped, Breaks
  <2> QED BY <1>6, <1>9, <1>10, <2>1
<1>11. CASE kinds[i] \in Breaks
  <2>1. r = p + 1 /\ paren > 0 /\ kinds[i] # "backslash"
    BY <1>3, <1>11 DEF Skipped, Breaks
  <2>2. i <= m
    <3> SUFFICES ASSUME i > m PROVE FALSE
      BY <1>3, <1>5
    <3>1. i = m + 1 \/ i = m + 2
      <4>1. n <= m + 2
        <5>1. /\ f.lines[k].end \in {"lf", "crlf", "none"}
              /\ n = m + (IF f.lines[k].end = "none" THEN 0 ELSE IF f.lines[k].end = "lf" THEN 1 ELSE 2)
          BY LineShape DEF BodyOf
        <5> QED BY <1>5, <5>1
      <4> QED BY <1>3, <1>5, <4>1
    <3>2. CASE i = m + 1
      <4>1. j = m
        BY <1>3, <1>5, <3>2
      <4> QED BY <1>4, <1>6, <2>1, <4>1
    <3>3. CASE i = m + 2
      <4>0. /\ f.lines[k].end \in {"lf", "crlf", "none"}
            /\ n = m + (IF f.lines[k].end = "none" THEN 0 ELSE IF f.lines[k].end = "lf" THEN 1 ELSE 2)
            /\ f.lines[k].end = "crlf" => kinds[m + 1] = "cr"
        BY LineShape DEF BodyOf
      <4>1. f.lines[k].end = "crlf"
        BY <1>3, <1>5, <3>3, <4>0, SMTT(30)
      <4>2. kinds[j] = "cr" /\ j \in 1..n /\ j - 1 = m
        BY <1>3, <1>5, <3>3, <4>0, <4>1, SMTT(30)
      <4>3. d[j] = d[m]
        BY <1>4, <4>2, IdleSymbol DEF Idle
      <4> QED BY <1>4, <1>6, <2>1, <4>3
    <3> QED BY <3>1, <3>2, <3>3
  <2> QED BY <1>9, <2>1, <2>2
<1>12. CASE kinds[i] = "backslash"
  <2> DEFINE y == i + 1
  <2>1. i < m /\ kinds[y] = "nl" /\ r = p + 2
    <3>1. kinds[i + 1] = "nl"
      BY <1>3, <1>4, <1>12, SymbolsOfBody
    <3> QED BY <1>3, <1>6, <1>12, <3>1 DEF Skipped, Breaks
  <2>2. y \in 1..n /\ y - 1 = i /\ y <= m /\ r = b + y + 1
    <3>1. y \in 1..n /\ y - 1 = i /\ y <= m
      BY <1>3, <1>5, <2>1, SMTT(30)
    <3>2. p = b + i /\ r = p + 2 /\ i \in Int /\ b \in Int
      BY <1>3, <1>5, <2>1
    <3> HIDE DEF b
    <3>3. r = b + y + 1
      BY <3>2
    <3> QED BY <3>1, <3>3 DEF b
  <2> HIDE DEF y
  <2>3. ToldIn(f, k, y) = told /\ d[y] = paren
    BY <1>4, <1>8, <2>1, <2>2, IdleSymbol DEF Idle
  <2>4. y = n => f.lines[k].end = "none"
    BY <1>4, <2>2, SymbolsOfBody
  <2> QED BY <1>4, <2>1, <2>2, <2>3, <2>4, SymbolPassed
<1>13. CASE kinds[i] = "comment"
  <2>1. r = LineEndIn(f, b + i) /\ i <= m /\ kinds[i] \notin Breaks
    BY <1>3, <1>6, <1>13 DEF Skipped, Breaks
  <2>2. CASE i = n
    <3>1. k = Size(f)
      BY <1>6, <2>1, <2>2, LinesOfFile
    <3>2. r = b + i + 1
      BY <1>3, <1>13, <2>1, <2>2, <3>1, CommentEnds
    <3>3. r = p + 1
      BY <1>3, <3>2
    <3> QED BY <1>9, <1>13, <2>1, <3>3
  <2>3. CASE i # n
    <3> DEFINE y == i + 1
    <3>0. y \in 1..n /\ y - 1 = i /\ kinds[y] \in Breaks
      BY <1>3, <1>5, <1>6, <1>13, <2>3, SMTT(30)
    <3>1. CASE kinds[y] = "nl"
      <4>1. r = b + i + 1
        BY <1>3, <1>13, <2>1, <3>0, <3>1, CommentEnds
      <4>2. r = p + 1
        BY <1>3, <4>1
      <4> QED BY <1>9, <1>13, <2>1, <4>2
    <3>2. CASE kinds[y] = "cr"
      <4> DEFINE z == i + 2
      <4>1. z \in 1..n /\ kinds[z] = "nl" /\ z = y + 1
        <5>1. CASE y <= m
          <6>1. y < m /\ kinds[y + 1] = "nl"
            BY <1>4, <3>0, <3>2, <5>1, SymbolsOfBody
          <6>2. y + 1 = z
            BY <1>3
          <6> QED BY <1>3, <1>5, <6>1, <6>2
        <5>2. CASE y > m
          <6>1. y = m + 1
            BY <1>3, <1>5, <2>1, <5>2
          <6>2. /\ f.lines[k].end \in {"lf", "crlf", "none"}
                /\ n = m + (IF f.lines[k].end = "none" THEN 0 ELSE IF f.lines[k].end = "lf" THEN 1 ELSE 2)
                /\ f.lines[k].end = "lf" => kinds[m + 1] = "nl"
                /\ f.lines[k].end = "crlf" => kinds[m + 2] = "nl"
            BY LineShape DEF BodyOf
          <6>3. f.lines[k].end = "crlf"
            BY <1>5, <3>0, <3>2, <6>1, <6>2
          <6>4. z = m + 2 /\ n = m + 2
            BY <1>3, <1>5, <6>1, <6>2, <6>3
          <6> QED BY <1>3, <1>5, <6>1, <6>2, <6>3, <6>4
        <5> QED BY <1>3, <1>5, <5>1, <5>2
      <4>2. r = b + i + 2
        BY <1>3, <1>13, <2>1, <3>0, <3>2, <4>1, CommentEnds
      <4>3. r = b + y + 1 /\ y # n
        BY <1>3, <1>5, <4>1, <4>2
      <4> HIDE DEF y
      <4>4. ToldIn(f, k, y) = told /\ d[y] = paren
        BY <1>4, <1>8, <3>0, <3>2, IdleSymbol DEF Idle
      <4> QED BY <1>4, <3>0, <3>2, <4>3, <4>4, SymbolPassed
    <3> QED BY <3>0, <3>1, <3>2 DEF Breaks
  <2> QED BY <2>2, <2>3
<1> QED BY <1>7, <1>10, <1>11, <1>12, <1>13 DEF Idle, Breaks

-----------------------------------------------------------------------------
(* What the lexer gives within a line is the next token of the line. *)

LEMMA ToldWithin ==
  ASSUME NEW f \in Files, NEW k \in 1..Size(f), NEW i \in 1..Len(LineKinds(f.lines[k])),
         IsLogical(f.lines[k])
  PROVE  ToldIn(f, k, i) \in Nat /\ ToldIn(f, k, i) < Len(Lexed(f))
<1>1. /\ ToldIn(f, k, i - 1) \in Nat /\ ToldIn(f, k, i) < Len(Lexed(f))
      /\ ToldIn(f, k, i) = ToldIn(f, k, i - 1) \/ ToldIn(f, k, i) = ToldIn(f, k, i - 1) + 1
  BY WordPlace
<1> QED BY <1>1

(* A word, or a bracket. *)
LEMMA WordWithin ==
  ASSUME NEW f \in Files, NEW st, NEW told, NEW p, NEW depth, NEW paren,
         Within(f, st, told, p, depth, paren), p <= Len(f.text), KindIn(f, p) \in WordKinds
  PROVE  /\ told \in Nat /\ told < Len(Lexed(f)) /\ Lexed(f)[told + 1] = KindIn(f, p)
         /\ Within(f, st, told + 1, p + 1, depth, Unclosed(paren, KindIn(f, p)))
<1>1. PICK k \in 1..Size(f) : \E j \in 0..Len(LineKinds(f.lines[k])) :
        BehindSymbol(f, k, j, st, told, p, depth, paren)
  BY DEF Within
<1>2. PICK j \in 0..Len(LineKinds(f.lines[k])) : BehindSymbol(f, k, j, st, told, p, depth, paren)
  BY <1>1
<1> DEFINE kinds == LineKinds(f.lines[k])
           n == Len(kinds)
           d == Depths(kinds)
           b == BodyAt(f, k)
           i == j + 1
<1>3. /\ i \in 1..n /\ i - 1 = j /\ p = b + i /\ KindIn(f, p) = kinds[i]
  BY <1>2, NextSymbol
<1>4. /\ IsLogical(f.lines[k]) /\ told = ToldIn(f, k, j) /\ OnStack(st, depth) = Blocks(f.lines, k)
      /\ paren = d[j]
  BY <1>2 DEF BehindSymbol
<1> HIDE DEF i
<1>5. /\ ToldIn(f, k, i) < Len(Lexed(f)) /\ told \in Nat
      /\ ToldIn(f, k, i) = told + 1 /\ Lexed(f)[told + 1] = kinds[i]
  <2>1. kinds[i] \in WordKinds
    BY <1>3
  <2>2. /\ ToldIn(f, k, i - 1) \in Nat /\ ToldIn(f, k, i) < Len(Lexed(f))
        /\ ToldIn(f, k, i) = ToldIn(f, k, i - 1) + 1
        /\ Lexed(f)[ToldIn(f, k, i)] = kinds[i]
    BY <1>3, <1>4, <2>1, WordPlace
  <2> QED BY <1>3, <1>4, <2>2
<1>6. told < Len(Lexed(f))
  BY <1>5, TokensBehindLines
<1>7. d[i] = Unclosed(paren, kinds[i])
  <2>1. kinds \in Seq(BodyKinds)
    BY KindsOfLine
  <2>2. d[i] = Unclosed(d[i - 1], kinds[i])
    BY <1>3, <2>1, DepthsRecursion
  <2> QED BY <1>3, <1>4, <2>2
<1>8. kinds[i] # "backslash" /\ kinds[i] \notin Breaks
  BY <1>3 DEF WordKinds, Breaks
<1>9. i = n => f.lines[k].end = "none"
  BY <1>3, <1>4, <1>8, SymbolsOfBody
<1>10. p + 1 = b + i + 1
  BY <1>3
<1>11. Within(f, st, told + 1, p + 1, depth, Unclosed(paren, kinds[i]))
  BY <1>3, <1>4, <1>5, <1>7, <1>8, <1>9, <1>10, SymbolPassed
<1> QED BY <1>3, <1>5, <1>6, <1>11

LEMMA BackslashWithin ==
  ASSUME NEW f \in Files, NEW st, NEW told, NEW p, NEW depth, NEW paren,
         Within(f, st, told, p, depth, paren), p <= Len(f.text), KindIn(f, p) = "backslash"
  PROVE  KindIn(f, p + 1) = "nl"
<1>1. PICK k \in 1..Size(f) : \E j \in 0..Len(LineKinds(f.lines[k])) :
        BehindSymbol(f, k, j, st, told, p, depth, paren)
  BY DEF Within
<1>2. PICK j \in 0..Len(LineKinds(f.lines[k])) : BehindSymbol(f, k, j, st, told, p, depth, paren)
  BY <1>1
<1> DEFINE kinds == LineKinds(f.lines[k])
           n == Len(kinds)
           m == BodyOf(f.lines[k])
           b == BodyAt(f, k)
           i == j + 1
           y == i + 1
<1>3. /\ i \in 1..n /\ p = b + i /\ KindIn(f, p) = kinds[i]
  BY <1>2, NextSymbol
<1>4. IsLogical(f.lines[k])
  BY <1>2 DEF BehindSymbol
<1> HIDE DEF i
<1>5. i < m /\ kinds[y] = "nl"
  BY <1>3, <1>4, SymbolsOfBody
<1>6. b \in Nat /\ n \in Nat /\ m \in Nat /\ m <= n
  BY LinePlace, KindsOfLine, LineShape DEF BodyOf
<1>7. y \in 1..n /\ p + 1 = b + y
  <2>1. y \in 1..n
    BY <1>3, <1>5, <1>6
  <2> HIDE DEF b, n
  <2> QED BY <1>3, <1>6, <2>1
<1> HIDE DEF y
<1>8. KindIn(f, b + y) = kinds[y]
  BY <1>7, SymbolPlace
<1> QED BY <1>5, <1>7, <1>8

(* The end of a line. *)
LEMMA LineEndsWithin ==
  ASSUME NEW f \in Files, NEW st, NEW told, NEW p, NEW depth,
         Within(f, st, told, p, depth, 0), p <= Len(f.text), KindIn(f, p) \in Breaks
  PROVE  /\ told \in Nat /\ told < Len(Lexed(f)) /\ Lexed(f)[told + 1] = "NEWLINE"
         /\ AtStart(f, st, told + 1, p + 1, depth)
<1>1. PICK k \in 1..Size(f) : \E j \in 0..Len(LineKinds(f.lines[k])) :
        BehindSymbol(f, k, j, st, told, p, depth, 0)
  BY DEF Within
<1>2. PICK j \in 0..Len(LineKinds(f.lines[k])) : BehindSymbol(f, k, j, st, told, p, depth, 0)
  BY <1>1
<1> DEFINE kinds == LineKinds(f.lines[k])
           end == f.lines[k].end
           n == Len(kinds)
           m == BodyOf(f.lines[k])
           d == Depths(kinds)
           b == BodyAt(f, k)
           i == j + 1
<1>3. /\ i \in 1..n /\ i - 1 = j /\ p = b + i /\ KindIn(f, p) = kinds[i]
  BY <1>2, NextSymbol
<1>4. /\ IsLogical(f.lines[k]) /\ told = ToldIn(f, k, j) /\ OnStack(st, depth) = Blocks(f.lines, k)
      /\ d[j] = 0 /\ (j > 0 => kinds[j] # "backslash")
  BY <1>2 DEF BehindSymbol
<1> HIDE DEF i
<1>5. /\ b \in Nat /\ n \in Nat /\ m \in Nat /\ m <= n
      /\ Behind(f, k) = b + n /\ Behind(f, k) <= Len(f.text) /\ Len(f.text) \in Nat
  BY LinePlace, LinePlaces, KindsOfLine, LineShape DEF BodyOf
<1>6. /\ end \in {"lf", "crlf", "none"}
      /\ n = m + (IF end = "none" THEN 0 ELSE IF end = "lf" THEN 1 ELSE 2)
      /\ end = "crlf" => kinds[m + 1] = "cr" /\ kinds[m + 2] = "nl"
  BY LineShape DEF BodyOf
<1>7. i > m
  <2> SUFFICES ASSUME i <= m PROVE FALSE
    BY <1>3, <1>5
  <2>1. d[i - 1] > 0 \/ (i > 1 /\ kinds[i - 1] = "backslash")
    BY <1>3, <1>4, SymbolsOfBody
  <2> QED BY <1>3, <1>4, <2>1
<1>8. ToldIn(f, k, i) = told
  <2>1. kinds[i] \in Idle
    BY <1>3 DEF Breaks, Idle
  <2> QED BY <1>3, <1>4, <2>1, IdleSymbol
<1>9. end # "none"
  BY <1>3, <1>5, <1>6, <1>7, SMTT(30)
<1>10. Told(f, k) = ToldIn(f, k, n) + 1 /\ Lexed(f)[Told(f, k)] = "NEWLINE"
  BY <1>4, <1>9, LinePlaceTokens
<1>11. told \in Nat /\ told < Len(Lexed(f))
  BY <1>3, <1>4, <1>8, ToldWithin
<1>12. k \in 0..Size(f) /\ k > 0
  BY LinesOfFile
<1>13. ASSUME ToldIn(f, k, n) = told,
              p + 1 = Behind(f, k) + 1 \/ (p + 1 = Behind(f, k) /\ KindIn(f, p + 1) = "nl")
       PROVE  /\ Lexed(f)[told + 1] = "NEWLINE"
              /\ AtStart(f, st, told + 1, p + 1, depth)
  <2>1. BehindLine(f, k, st, told + 1, p + 1, depth)
    BY <1>4, <1>10, <1>12, <1>13 DEF BehindLine
  <2> QED BY <1>10, <1>12, <1>13, <2>1 DEF AtStart
<1>14. CASE i = n
  BY <1>3, <1>5, <1>8, <1>11, <1>13, <1>14
<1>15. CASE i # n
  <2>1. end = "crlf" /\ i = m + 1 /\ n = i + 1
    BY <1>3, <1>5, <1>6, <1>7, <1>9, <1>15
  <2>2. n \in 1..n /\ n - 1 = i /\ kinds[n] = "nl"
    <3>1. m + 2 = n
      BY <1>5, <1>6, <2>1
    <3>2. kinds[m + 2] = "nl"
      BY <1>6, <2>1
    <3>3. n \in 1..n /\ n - 1 = i
      <4>1. i \in Int /\ i >= 1
        BY <1>3, <1>5
      <4>2. n = i + 1
        BY <2>1
      <4> HIDE DEF n
      <4> QED BY <4>1, <4>2
    <3> QED BY <3>1, <3>2, <3>3
  <2>3. ToldIn(f, k, n) = told
    BY <1>4, <1>8, <2>2, IdleSymbol DEF Idle
  <2>4. KindIn(f, b + n) = kinds[n]
    BY <2>2, SymbolPlace
  <2>5. p + 1 = Behind(f, k) /\ p + 1 = b + n
    <3> HIDE DEF b, n
    <3> QED BY <1>3, <1>5, <2>1
  <2> QED BY <1>11, <1>13, <2>2, <2>3, <2>4, <2>5
<1> QED BY <1>11, <1>14, <1>15

-----------------------------------------------------------------------------
(* The tokens that were given, with those of a look-ahead. *)
Before == IF saved = NotSaved THEN taken ELSE Append(taken, saved.token)

Emitted == IF scanning THEN Before ELSE Append(Before, token)

EmittedFollows ==
  \/ Tracked(file, indent_stack, Emitted, pos, indent_depth, pending_dedents, at_line_start, paren_depth)
  \/ Erred(file, Emitted)
  \/ ~scanning /\ token = "EOF" /\ Emitted = Lexed(file)

(* Where the parser goes back to, only a word has been given. *)
SavedFollows ==
  saved # NotSaved =>
    \/ Tracked(file, indent_stack, Append(taken, "word"), saved.pos, saved.depth, 0, FALSE, saved.paren)
    \/ Erred(file, Append(taken, "word"))

(* The invariant, for lines that the stack has room for. *)
Following == Shallow => EmittedFollows /\ SavedFollows

LEMMA EmittedType ==
  ASSUME IInv
  PROVE  Before \in Seq(Tokens) /\ Emitted \in Seq(Tokens)
<1>1. taken \in Seq(Tokens) /\ token \in Tokens /\ saved.token \in Tokens
  BY DEF IInv, LayoutTypeOK, Position
<1>2. Before \in Seq(Tokens)
  BY <1>1 DEF Before
<1> QED BY <1>1, <1>2 DEF Emitted

LEMMA StackInv ==
  ASSUME IInv
  PROVE  /\ Ascends(indent_stack, indent_depth)
         /\ file \in Files /\ Limit \in Nat
         /\ pos \in 1..(Len(file.text) + 1) /\ Len(file.text) \in Nat
         /\ pending_dedents \in Nat /\ paren_depth \in Nat /\ at_line_start \in BOOLEAN
         /\ scanning => pending_dedents = 0
<1>1. /\ file \in Files /\ indent_stack \in [0..(MAX_INDENT_STACK - 1) -> Nat]
      /\ indent_depth \in 0..(MAX_INDENT_STACK - 1)
      /\ pos \in 1..(Len(file.text) + 1)
      /\ pending_dedents \in Nat /\ paren_depth \in Nat /\ at_line_start \in BOOLEAN
      /\ indent_stack[0] = 0 /\ \A i \in 1..indent_depth : indent_stack[i - 1] < indent_stack[i]
      /\ scanning => pending_dedents = 0
  BY DEF IInv, LayoutTypeOK, Rising, NothingDueInLoop, source
<1>2. Limit \in Nat /\ Len(file.text) \in Nat
  BY <1>1, LayoutAssumption, LinePlaces DEF Limit
<1>3. Ascends(indent_stack, indent_depth)
  BY <1>1 DEF Ascends, Stacks, Limit
<1> QED BY <1>1, <1>2, <1>3

(* The file is what the lexer reads. *)
LEMMA Reads ==
  /\ \A p : KindAt(p) = KindIn(file, p)
  /\ First = FirstIn(file, pos) /\ indent = IndentIn(file, pos)
  /\ \A p : LineEnd(p) = LineEndIn(file, p)
  /\ Len(source) = Len(file.text)
BY DEF KindAt, KindIn, First, FirstIn, indent, IndentIn, LineEnd, LineEndIn, source

-----------------------------------------------------------------------------
LEMMA InitFollowing ==
  ASSUME Init
  PROVE  Following
<1>1. file \in Files /\ Emitted = <<>> /\ pos = 1 /\ indent_depth = 0 /\ pending_dedents = 0
      /\ at_line_start = TRUE /\ paren_depth = 0 /\ saved = NotSaved
      /\ indent_stack = [i \in 0..(MAX_INDENT_STACK - 1) |-> 0]
  BY DEF Init, Emitted, Before
<1>2. OnStack(indent_stack, indent_depth) = {0}
  <2>1. 0 \in 0..(MAX_INDENT_STACK - 1)
    BY LayoutAssumption
  <2>2. indent_stack[0] = 0
    BY <1>1, <2>1
  <2>3. 0..0 = {0}
    OBVIOUS
  <2> QED BY <1>1, <2>2, <2>3 DEF OnStack
<1>3. BehindLine(file, 0, indent_stack, 0, pos, indent_depth)
  <2>1. Told(file, 0) = 0 /\ Behind(file, 0) = 0 /\ Blocks(file.lines, 0) = {0}
    <3>1. Told(file, 0) = 0
      BY <1>1, TokensBehindLines
    <3>2. Behind(file, 0) = 0
      BY <1>1, LinePlaces
    <3>3. Blocks(file.lines, 0) = {0}
      BY <1>1, FirstBlock
    <3> QED BY <3>1, <3>2, <3>3
  <2>2. pos = Behind(file, 0) + 1
    BY <1>1, <2>1
  <2> QED BY <1>2, <2>1, <2>2 DEF BehindLine
<1>4. 0 \in 0..Size(file)
  BY <1>1, LinesOfFile
<1>5. AtStart(file, indent_stack, 0, pos, indent_depth)
  BY <1>3, <1>4 DEF AtStart
<1>6. Agrees(file, <<>>) /\ Due(file, 0, 0) /\ Len(<<>>) = 0
  <2>1. Len(Lexed(file)) \in Nat
    BY <1>1, TokensBehindLines
  <2>2. Len(<<>>) = 0 /\ <<>> \in Seq(Tokens)
    OBVIOUS
  <2> QED BY <2>1, <2>2 DEF Agrees, Due
<1>7. Tracked(file, indent_stack, <<>>, pos, indent_depth, 0, at_line_start, paren_depth)
  BY <1>1, <1>5, <1>6 DEF Tracked, AtPlace
<1> QED BY <1>1, <1>7 DEF Following, EmittedFollows, SavedFollows

LEMMA SavedStays ==
  ASSUME SavedFollows, UNCHANGED <<file, saved, taken>>,
         saved # NotSaved => indent_stack' = indent_stack
  PROVE  SavedFollows'
<1>1. CASE saved = NotSaved
  BY <1>1 DEF SavedFollows, NotSaved
<1>2. CASE saved # NotSaved
  BY <1>2 DEF SavedFollows, NotSaved
<1> QED BY <1>1, <1>2

(* A step of the loop without a token. *)
LEMMA SilentStep ==
  ASSUME IInv, Following, scanning, GoOnScanning,
         UNCHANGED <<indent_stack, pending_dedents>>,
         ASSUME Shallow,
                AtPlace(file, indent_stack, Len(Emitted), pos, indent_depth, at_line_start, paren_depth)
         PROVE  AtPlace(file, indent_stack, Len(Emitted), pos', indent_depth', at_line_start', paren_depth')
  PROVE  Following'
<1> SUFFICES ASSUME Shallow PROVE EmittedFollows' /\ SavedFollows'
  BY DEF Following, Shallow
<1>1. Emitted' = Emitted /\ file' = file /\ UNCHANGED <<file, saved, taken>>
  BY DEF GoOnScanning, Emitted, Before, NotSaved
<1>2. SavedFollows'
  BY <1>1, SavedStays DEF Following
<1>3. pending_dedents = 0 /\ Len(Emitted) \in Nat
  BY StackInv, EmittedType
<1>4. CASE Erred(file, Emitted)
  BY <1>1, <1>2, <1>4 DEF EmittedFollows
<1>5. CASE Tracked(file, indent_stack, Emitted, pos, indent_depth, pending_dedents, at_line_start, paren_depth)
  <2>0. Len(Emitted) + pending_dedents = Len(Emitted)
    BY <1>3
  <2>1. /\ Agrees(file, Emitted) /\ Due(file, Len(Emitted), pending_dedents)
        /\ AtPlace(file, indent_stack, Len(Emitted), pos, indent_depth, at_line_start, paren_depth)
    BY <1>5, <2>0 DEF Tracked
  <2>2. AtPlace(file, indent_stack, Len(Emitted), pos', indent_depth', at_line_start', paren_depth')
    BY <2>1
  <2>3. Tracked(file, indent_stack, Emitted, pos', indent_depth', pending_dedents, at_line_start', paren_depth')
    BY <2>0, <2>1, <2>2 DEF Tracked
  <2> QED BY <1>1, <1>2, <2>3 DEF EmittedFollows
<1> QED BY <1>4, <1>5 DEF Following, EmittedFollows

(* A step of the loop with a token: it is the next one, or an error. *)
GivenRightly(t) ==
  \/ Erred(file, Append(Emitted, t))
  \/ /\ Len(Emitted) < Len(Lexed(file)) /\ Lexed(file)[Len(Emitted) + 1] = t
     /\ Due(file, Len(Emitted) + 1, pending_dedents')
     /\ AtPlace(file, indent_stack', Len(Emitted) + 1 + pending_dedents', pos', indent_depth',
                at_line_start', paren_depth')
  \/ t = "EOF" /\ Append(Emitted, t) = Lexed(file)

LEMMA TokenStep ==
  ASSUME IInv, Following, scanning, NEW t \in Tokens, Give(t),
         saved # NotSaved => indent_stack' = indent_stack,
         ASSUME Shallow, Agrees(file, Emitted),
                AtPlace(file, indent_stack, Len(Emitted), pos, indent_depth, at_line_start, paren_depth)
         PROVE  GivenRightly(t)
  PROVE  Following'
<1> SUFFICES ASSUME Shallow PROVE EmittedFollows' /\ SavedFollows'
  BY DEF Following, Shallow
<1>1. Emitted' = Append(Emitted, t) /\ UNCHANGED <<file, saved, taken>> /\ token' = t /\ ~scanning'
  BY DEF Give, Emitted, Before, NotSaved
<1>2. SavedFollows'
  BY <1>1, SavedStays DEF Following
<1>3. pending_dedents = 0 /\ Emitted \in Seq(Tokens) /\ Len(Emitted) \in Nat /\ file \in Files
  BY StackInv, EmittedType
<1>4. CASE Erred(file, Emitted)
  <2>1. Erred(file, Append(Emitted, t))
    BY <1>3, <1>4, ErredGoesOn
  <2> QED BY <1>1, <1>2, <2>1 DEF EmittedFollows
<1>5. CASE Tracked(file, indent_stack, Emitted, pos, indent_depth, pending_dedents, at_line_start, paren_depth)
  <2>0. Len(Emitted) + pending_dedents = Len(Emitted)
    BY <1>3
  <2>1. /\ Agrees(file, Emitted)
        /\ AtPlace(file, indent_stack, Len(Emitted), pos, indent_depth, at_line_start, paren_depth)
    BY <1>5, <2>0 DEF Tracked
  <2>2. GivenRightly(t)
    BY <2>1
  <2>3. CASE Erred(file, Append(Emitted, t))
    BY <1>1, <1>2, <2>3 DEF EmittedFollows
  <2>4. CASE t = "EOF" /\ Append(Emitted, t) = Lexed(file)
    BY <1>1, <1>2, <2>4 DEF EmittedFollows
  <2>5. CASE /\ Len(Emitted) < Len(Lexed(file)) /\ Lexed(file)[Len(Emitted) + 1] = t
             /\ Due(file, Len(Emitted) + 1, pending_dedents')
             /\ AtPlace(file, indent_stack', Len(Emitted) + 1 + pending_dedents', pos', indent_depth',
                        at_line_start', paren_depth')
    <3>1. Agrees(file, Append(Emitted, t)) /\ Len(Append(Emitted, t)) = Len(Emitted) + 1
      BY <1>3, <2>1, <2>5, NextAgrees
    <3>2. Tracked(file, indent_stack', Append(Emitted, t), pos', indent_depth', pending_dedents',
                  at_line_start', paren_depth')
      BY <2>5, <3>1 DEF Tracked
    <3> QED BY <1>1, <1>2, <3>2 DEF EmittedFollows
  <2> QED BY <2>2, <2>3, <2>4, <2>5 DEF GivenRightly
<1> QED BY <1>4, <1>5 DEF Following, EmittedFollows

-----------------------------------------------------------------------------
(* One lemma for each action. *)

(* Where the loop is: at the start of a line, in a line or at the end. *)
LEMMA AtLinePlace ==
  ASSUME IInv, NEW told, AtLine,
         AtPlace(file, indent_stack, told, pos, indent_depth, at_line_start, paren_depth)
  PROVE  /\ at_line_start /\ paren_depth = 0 /\ pos <= Len(file.text)
         /\ AtStart(file, indent_stack, told, pos, indent_depth) \/ KindIn(file, pos) = "cr"
<1>1. pos <= Len(file.text) /\ at_line_start /\ paren_depth = 0
  BY Reads DEF AtLine
<1>2. Len(file.text) \in Nat
  BY StackInv
<1> QED BY <1>1, <1>2 DEF AtPlace, AtLast

LEMMA InLinePlace ==
  ASSUME IInv, NEW told, InLine,
         AtPlace(file, indent_stack, told, pos, indent_depth, at_line_start, paren_depth)
  PROVE  /\ ~at_line_start /\ pos <= Len(file.text)
         /\ Within(file, indent_stack, told, pos, indent_depth, paren_depth)
<1>1. pos <= Len(file.text) /\ ~AtLine
  BY Reads DEF InLine
<1>2. Len(file.text) \in Nat
  BY StackInv
<1>3. ~(at_line_start /\ paren_depth = 0)
  BY <1>1, Reads DEF AtLine
<1>4. ~at_line_start
  BY <1>3 DEF IInv, NoLineInBrackets
<1> QED BY <1>1, <1>2, <1>4 DEF AtPlace, AtLast

LEMMA SkipLineFollows ==
  ASSUME IInv, Following, SkipLine
  PROVE  Following'
<1>1. /\ scanning /\ AtLine /\ GoOnScanning /\ UNCHANGED lexer
      /\ KindIn(file, FirstIn(file, pos)) \in {"nl", "cr", "comment"}
  BY Reads DEF SkipLine, NoTokens
<1>2. pos' = SkippedTo(file, FirstIn(file, pos))
  <2>1. \E p \in {IF KindAt(First) = "comment" THEN LineEnd(First) ELSE First} :
          pos' = IF KindAt(p) = "nl" THEN p + 1 ELSE p
    BY DEF SkipLine
  <2> QED BY <2>1, Reads DEF SkippedTo
<1>3. /\ UNCHANGED <<indent_stack, pending_dedents>>
      /\ indent_depth' = indent_depth /\ at_line_start' = at_line_start /\ paren_depth' = paren_depth
  BY <1>1 DEF lexer
<1>4. ASSUME AtPlace(file, indent_stack, Len(Emitted), pos, indent_depth, at_line_start, paren_depth)
      PROVE  AtPlace(file, indent_stack, Len(Emitted), pos', indent_depth', at_line_start', paren_depth')
  <2>1. /\ at_line_start /\ paren_depth = 0 /\ pos <= Len(file.text)
        /\ AtStart(file, indent_stack, Len(Emitted), pos, indent_depth) \/ KindIn(file, pos) = "cr"
    BY <1>1, <1>4, AtLinePlace
  <2>2. \/ AtStart(file, indent_stack, Len(Emitted), pos', indent_depth)
        \/ KindIn(file, pos') = "cr"
    BY <1>1, <1>2, <2>1, StackInv, QuietLineStarts
  <2> QED BY <1>3, <2>1, <2>2 DEF AtPlace
<1> QED BY <1>1, <1>3, <1>4, SilentStep

LEMMA SkipFollows ==
  ASSUME IInv, Following, Skip
  PROVE  Following'
<1>1. scanning /\ InLine /\ GoOnScanning /\ UNCHANGED lexer
  BY DEF Skip, InLine
<1>2. Skipped(file, pos, pos', paren_depth)
  <2>1. \/ KindIn(file, pos) = "blank" /\ pos' = pos + 1
        \/ KindIn(file, pos) = "comment" /\ pos' = LineEndIn(file, pos)
        \/ JoinsLines /\ pos' = IF KindIn(file, pos) = "backslash" THEN pos + 2 ELSE pos + 1
    BY Reads DEF Skip
  <2>2. JoinsLines => \/ KindIn(file, pos) \in {"nl", "cr"} /\ paren_depth > 0
                      \/ KindIn(file, pos) = "backslash" /\ KindIn(file, pos + 1) = "nl"
    BY Reads DEF JoinsLines
  <2> QED BY <2>1, <2>2 DEF Skipped, Breaks
<1>3. /\ UNCHANGED <<indent_stack, pending_dedents>>
      /\ indent_depth' = indent_depth /\ at_line_start' = at_line_start /\ paren_depth' = paren_depth
  BY <1>1 DEF lexer
<1>4. ASSUME AtPlace(file, indent_stack, Len(Emitted), pos, indent_depth, at_line_start, paren_depth)
      PROVE  AtPlace(file, indent_stack, Len(Emitted), pos', indent_depth', at_line_start', paren_depth')
  <2>1. /\ ~at_line_start /\ pos <= Len(file.text)
        /\ Within(file, indent_stack, Len(Emitted), pos, indent_depth, paren_depth)
    BY <1>1, <1>4, InLinePlace
  <2>2. Within(file, indent_stack, Len(Emitted), pos', indent_depth, paren_depth)
    BY <1>2, <2>1, StackInv, SkippedWithin
  <2> QED BY <1>3, <2>1, <2>2 DEF AtPlace
<1> QED BY <1>1, <1>3, <1>4, SilentStep

(* The first symbol of a logical line. *)
LEMMA FirstSymbol ==
  ASSUME NEW f \in Files, NEW k \in 1..Size(f), IsLogical(f.lines[k]), NEW st, NEW depth,
         OnStack(st, depth) = Blocks(f.lines, k)
  PROVE  AtPlace(f, st, ToldIn(f, k, 0), BodyAt(f, k) + 1, depth, FALSE, 0)
<1>1. Depths(LineKinds(f.lines[k]))[0] = 0
  <2>1. LineKinds(f.lines[k]) \in Seq(BodyKinds)
    BY KindsOfLine
  <2> QED BY <2>1, DepthsRecursion
<1>2. 0 \in 0..Len(LineKinds(f.lines[k])) /\ 0 # Len(LineKinds(f.lines[k]))
  <2>1. 1 \in 1..Len(LineKinds(f.lines[k])) /\ Len(LineKinds(f.lines[k])) \in Nat
    BY ShapeOfLogical, KindsOfLine
  <2> QED BY <2>1
<1>3. BodyAt(f, k) + 1 = BodyAt(f, k) + 0 + 1
  <2>1. BodyAt(f, k) \in Nat
    BY LinePlace
  <2> QED BY <2>1
<1>4. BehindSymbol(f, k, 0, st, ToldIn(f, k, 0), BodyAt(f, k) + 1, depth, 0)
  BY <1>1, <1>2, <1>3 DEF BehindSymbol
<1> QED BY <1>2, <1>4 DEF Within, AtPlace

LEMMA LineOfPlace ==
  ASSUME IInv, BeginLine, NEW told,
         AtPlace(file, indent_stack, told, pos, indent_depth, at_line_start, paren_depth)
  PROVE  /\ paren_depth = 0
         /\ \E k \in 1..Size(file) :
              /\ IsLogical(file.lines[k]) /\ told = Told(file, k - 1)
              /\ OnStack(indent_stack, indent_depth) = Blocks(file.lines, k - 1)
              /\ pos' = BodyAt(file, k) + 1 /\ indent = Indentation(file.lines, k)
<1>1. AtLine /\ KindIn(file, FirstIn(file, pos)) \notin {"nl", "cr", "comment", "end"}
      /\ pos' = FirstIn(file, pos)
  BY Reads DEF BeginLine, NoTokens
<1>2. /\ paren_depth = 0 /\ pos <= Len(file.text)
      /\ AtStart(file, indent_stack, told, pos, indent_depth) \/ KindIn(file, pos) = "cr"
  BY <1>1, AtLinePlace
<1>3. file \in Files
  BY StackInv
<1> QED BY <1>1, <1>2, <1>3, Reads, LogicalLineStarts

-----------------------------------------------------------------------------
(* The four ways in which a line begins. *)

LEMMA SameIndentFollows ==
  ASSUME IInv, Following, SameIndent
  PROVE  Following'
<1>1. /\ scanning /\ BeginLine /\ GoOnScanning /\ indent = indent_stack[indent_depth]
      /\ UNCHANGED <<indent_stack, pending_dedents>> /\ indent_depth' = indent_depth
      /\ at_line_start' = FALSE /\ paren_depth' = paren_depth
  BY DEF SameIndent, BeginLine
<1>2. ASSUME AtPlace(file, indent_stack, Len(Emitted), pos, indent_depth, at_line_start, paren_depth)
      PROVE  AtPlace(file, indent_stack, Len(Emitted), pos', indent_depth', at_line_start', paren_depth')
  <2>0. /\ paren_depth = 0
        /\ \E k \in 1..Size(file) :
             /\ IsLogical(file.lines[k]) /\ Len(Emitted) = Told(file, k - 1)
             /\ OnStack(indent_stack, indent_depth) = Blocks(file.lines, k - 1)
             /\ pos' = BodyAt(file, k) + 1 /\ indent = Indentation(file.lines, k)
    BY <1>1, <1>2, LineOfPlace
  <2>1. PICK k \in 1..Size(file) :
          /\ IsLogical(file.lines[k]) /\ Len(Emitted) = Told(file, k - 1)
          /\ OnStack(indent_stack, indent_depth) = Blocks(file.lines, k - 1)
          /\ pos' = BodyAt(file, k) + 1 /\ indent = Indentation(file.lines, k)
    BY <2>0
  <2>2. file \in Files /\ Ascends(indent_stack, indent_depth) /\ indent_depth \in 0..indent_depth
        /\ indent_depth \in Nat
    BY StackInv, StackAscends
  <2>3. /\ IsConsistent(file.lines, k) /\ NewBlocksOf(file, k) = 0
        /\ OldBlocksOf(file, k) = indent_depth - indent_depth
        /\ Blocks(file.lines, k) = OnStack(indent_stack, indent_depth)
    <3>1. Indentation(file.lines, k) = indent_stack[indent_depth]
      BY <1>1, <2>1
    <3> QED BY <2>1, <2>2, <3>1, LineOfBlock
  <2>4. /\ ToldIn(file, k, 0) = Told(file, k - 1) + NewBlocksOf(file, k) + OldBlocksOf(file, k)
        /\ Told(file, k - 1) \in Nat
    BY <2>1, <2>2, <2>3, BlocksTold
  <2>5. ToldIn(file, k, 0) = Len(Emitted)
    BY <2>1, <2>2, <2>3, <2>4
  <2>6. AtPlace(file, indent_stack, ToldIn(file, k, 0), BodyAt(file, k) + 1, indent_depth, FALSE, 0)
    BY <2>1, <2>2, <2>3, FirstSymbol
  <2> QED BY <1>1, <2>0, <2>1, <2>5, <2>6
<1> QED BY <1>1, <1>2, SilentStep

LEMMA NoneDue ==
  ASSUME NEW f \in Files, NEW n \in Nat, n < Len(Lexed(f))
  PROVE  Due(f, n + 1, 0)
<1>1. Len(Lexed(f)) \in Nat
  BY TokensBehindLines
<1> QED BY <1>1 DEF Due

LEMMA IndentFollows ==
  ASSUME IInv, Following, Indent
  PROVE  Following'
<1>1. /\ scanning /\ BeginLine /\ Give("INDENT") /\ indent > indent_stack[indent_depth]
      /\ pending_dedents' = pending_dedents
      /\ at_line_start' = FALSE /\ paren_depth' = paren_depth
  BY DEF Indent, BeginLine
<1>2. saved = NotSaved /\ pending_dedents' = 0 /\ pending_dedents' \in Nat
  BY <1>1, LineBegins
<1>3. ASSUME Shallow, Agrees(file, Emitted),
             AtPlace(file, indent_stack, Len(Emitted), pos, indent_depth, at_line_start, paren_depth)
      PROVE  GivenRightly("INDENT")
  <2>0. /\ paren_depth = 0
        /\ \E k \in 1..Size(file) :
             /\ IsLogical(file.lines[k]) /\ Len(Emitted) = Told(file, k - 1)
             /\ OnStack(indent_stack, indent_depth) = Blocks(file.lines, k - 1)
             /\ pos' = BodyAt(file, k) + 1 /\ indent = Indentation(file.lines, k)
    BY <1>1, <1>3, LineOfPlace
  <2>1. PICK k \in 1..Size(file) :
          /\ IsLogical(file.lines[k]) /\ Len(Emitted) = Told(file, k - 1)
          /\ OnStack(indent_stack, indent_depth) = Blocks(file.lines, k - 1)
          /\ pos' = BodyAt(file, k) + 1 /\ indent = Indentation(file.lines, k)
    BY <2>0
  <2>2. file \in Files /\ Ascends(indent_stack, indent_depth)
    BY StackInv
  <2>3. /\ IsConsistent(file.lines, k) /\ NewBlocksOf(file, k) = 1 /\ OldBlocksOf(file, k) = 0
        /\ Blocks(file.lines, k) = OnStack(indent_stack, indent_depth) \cup {indent}
    BY <1>1, <2>1, <2>2, DeeperLine
  <2>4. /\ ToldIn(file, k, 0) = Told(file, k - 1) + NewBlocksOf(file, k) + OldBlocksOf(file, k)
        /\ Told(file, k - 1) \in Nat /\ ToldIn(file, k, 0) < Len(Lexed(file))
        /\ \A i \in 1..NewBlocksOf(file, k) : Lexed(file)[Told(file, k - 1) + i] = "INDENT"
    BY <2>1, <2>2, <2>3, BlocksTold
  <2>5. /\ ToldIn(file, k, 0) = Len(Emitted) + 1 /\ Len(Emitted) \in Nat
        /\ Len(Emitted) < Len(Lexed(file)) /\ Lexed(file)[Len(Emitted) + 1] = "INDENT"
    <3>1. Len(Lexed(file)) \in Nat
      BY <2>2, TokensBehindLines
    <3>2. 1 \in 1..NewBlocksOf(file, k)
      BY <2>3
    <3>3. Lexed(file)[Told(file, k - 1) + 1] = "INDENT"
      BY <2>4, <3>2
    <3>4. ToldIn(file, k, 0) = Told(file, k - 1) + 1
      BY <2>3, <2>4
    <3> QED BY <2>1, <2>4, <3>1, <3>3, <3>4
  <2>6. indent_depth < Limit
    <3>1. indent \in Nat /\ indent < MAX_INDENT_STACK /\ indent_depth \in 0..(MAX_INDENT_STACK - 1)
          /\ MAX_INDENT_STACK \in Nat
      BY <1>1, <1>3, LineBegins
    <3>2. indent_depth <= indent_stack[indent_depth] /\ indent_stack[indent_depth] \in Nat
      BY <3>1 DEF IInv, Rising, LayoutTypeOK
    <3> QED BY <1>1, <3>1, <3>2 DEF Limit
  <2>7. /\ indent_depth' = indent_depth + 1
        /\ indent_stack' = [indent_stack EXCEPT ![indent_depth + 1] = indent]
    BY <2>6 DEF Indent, Limit
  <2>8. OnStack(indent_stack', indent_depth') = Blocks(file.lines, k)
    <3>1. indent \in Nat
      BY <1>1, LineBegins
    <3>2. OnStack([indent_stack EXCEPT ![indent_depth + 1] = indent], indent_depth + 1)
            = OnStack(indent_stack, indent_depth) \cup {indent}
      BY <1>1, <2>2, <2>6, <3>1, StackPushed
    <3> QED BY <2>3, <2>7, <3>2
  <2>9. AtPlace(file, indent_stack', ToldIn(file, k, 0), BodyAt(file, k) + 1, indent_depth', FALSE, 0)
    BY <2>1, <2>2, <2>8, FirstSymbol
  <2>10. Due(file, Len(Emitted) + 1, pending_dedents')
    BY <1>2, <2>2, <2>5, NoneDue
  <2>11. Len(Emitted) + 1 + pending_dedents' = ToldIn(file, k, 0)
    BY <1>2, <2>5
  <2> QED BY <1>1, <2>0, <2>1, <2>5, <2>9, <2>10, <2>11 DEF GivenRightly
<1>4. "INDENT" \in Tokens
  BY DEF Tokens
<1> QED BY <1>1, <1>2, <1>3, <1>4, TokenStep

LEMMA DedentFollows ==
  ASSUME IInv, Following, Dedent
  PROVE  Following'
<1>1. /\ scanning /\ BeginLine /\ Give("DEDENT") /\ indent < indent_stack[indent_depth]
      /\ indent = indent_stack[Outer] /\ PopTo(Outer)
      /\ pending_dedents' = pending_dedents + (indent_depth - Outer) - 1
      /\ at_line_start' = FALSE /\ paren_depth' = paren_depth
  BY DEF Dedent, BeginLine
<1>2. /\ saved = NotSaved /\ pending_dedents = 0
      /\ Outer \in 0..(indent_depth - 1) /\ indent_depth' = Outer /\ indent_stack' = indent_stack
  BY <1>1, LineBegins, ClosesBlocks
<1>3. file \in Files /\ Ascends(indent_stack, indent_depth) /\ indent_depth \in Nat
  BY StackInv, StackAscends
<1> DEFINE n == indent_depth - Outer
<1>4. n \in Nat /\ n > 0 /\ pending_dedents' = n - 1 /\ Outer \in 0..indent_depth
  BY <1>1, <1>2, <1>3
<1> HIDE DEF n
<1>5. pending_dedents' \in Nat
  BY <1>4
<1>6. ASSUME Shallow, Agrees(file, Emitted),
             AtPlace(file, indent_stack, Len(Emitted), pos, indent_depth, at_line_start, paren_depth)
      PROVE  GivenRightly("DEDENT")
  <2>0. /\ paren_depth = 0
        /\ \E k \in 1..Size(file) :
             /\ IsLogical(file.lines[k]) /\ Len(Emitted) = Told(file, k - 1)
             /\ OnStack(indent_stack, indent_depth) = Blocks(file.lines, k - 1)
             /\ pos' = BodyAt(file, k) + 1 /\ indent = Indentation(file.lines, k)
    BY <1>1, <1>6, LineOfPlace
  <2>1. PICK k \in 1..Size(file) :
          /\ IsLogical(file.lines[k]) /\ Len(Emitted) = Told(file, k - 1)
          /\ OnStack(indent_stack, indent_depth) = Blocks(file.lines, k - 1)
          /\ pos' = BodyAt(file, k) + 1 /\ indent = Indentation(file.lines, k)
    BY <2>0
  <2>2. /\ IsConsistent(file.lines, k) /\ NewBlocksOf(file, k) = 0 /\ OldBlocksOf(file, k) = n
        /\ Blocks(file.lines, k) = OnStack(indent_stack, Outer)
    <3>1. Indentation(file.lines, k) = indent_stack[Outer]
      BY <1>1, <2>1
    <3> QED BY <1>3, <1>4, <2>1, <3>1, LineOfBlock DEF n
  <2> DEFINE m == Told(file, k - 1)
  <2>3. /\ ToldIn(file, k, 0) = m + NewBlocksOf(file, k) + OldBlocksOf(file, k)
        /\ m \in Nat /\ ToldIn(file, k, 0) < Len(Lexed(file))
        /\ NewBlocksOf(file, k) = 0 =>
             \A i \in 1..OldBlocksOf(file, k) : Lexed(file)[m + i] = "DEDENT"
    BY <1>3, <2>1, <2>2, BlocksTold
  <2>4. Len(Emitted) = m /\ Len(Lexed(file)) \in Nat
    BY <1>3, <2>1, TokensBehindLines
  <2> HIDE DEF m
  <2>5. /\ ToldIn(file, k, 0) = m + n /\ m + n < Len(Lexed(file))
        /\ \A i \in 1..n : Lexed(file)[m + i] = "DEDENT"
    BY <1>4, <2>2, <2>3
  <2>6. m < Len(Lexed(file)) /\ Lexed(file)[m + 1] = "DEDENT"
    <3>1. 1 \in 1..n
      BY <1>4
    <3>2. Lexed(file)[m + 1] = "DEDENT"
      BY <2>5, <3>1
    <3> QED BY <1>4, <2>3, <2>4, <2>5, <3>2
  <2>7. Due(file, m + 1, n - 1)
    <3>1. (m + 1) + (n - 1) <= Len(Lexed(file))
      BY <1>4, <2>3, <2>4, <2>5
    <3>2. ASSUME NEW i \in 1..(n - 1) PROVE Lexed(file)[(m + 1) + i] = "DEDENT"
      <4> DEFINE x == i + 1
      <4>1. x \in 1..n /\ (m + 1) + i = m + x
        BY <1>4, <2>3
      <4> HIDE DEF x
      <4>2. Lexed(file)[m + x] = "DEDENT"
        BY <2>5, <4>1
      <4> QED BY <4>1, <4>2
    <3> QED BY <3>1, <3>2 DEF Due
  <2>8. m + 1 + (n - 1) = ToldIn(file, k, 0)
    BY <1>4, <2>3, <2>5
  <2>9. AtPlace(file, indent_stack, ToldIn(file, k, 0), BodyAt(file, k) + 1, Outer, FALSE, 0)
    BY <1>3, <2>1, <2>2, FirstSymbol
  <2> QED BY <1>1, <1>2, <1>4, <2>0, <2>1, <2>4, <2>6, <2>7, <2>8, <2>9 DEF GivenRightly
<1>7. "DEDENT" \in Tokens
  BY DEF Tokens
<1> QED BY <1>1, <1>2, <1>5, <1>6, <1>7, TokenStep

LEMMA InconsistentFollows ==
  ASSUME IInv, Following, Inconsistent
  PROVE  Following'
<1>1. /\ scanning /\ BeginLine /\ Give("ERROR") /\ indent < indent_stack[indent_depth]
      /\ indent # indent_stack[Outer] /\ PopTo(Outer)
  BY DEF Inconsistent, BeginLine
<1>2. /\ saved = NotSaved /\ indent \in Nat
      /\ Outer \in 0..(indent_depth - 1) /\ indent_stack' = indent_stack
  BY <1>1, LineBegins, ClosesBlocks
<1>3. file \in Files /\ Ascends(indent_stack, indent_depth) /\ indent_depth \in Nat
  BY StackInv, StackAscends
<1>4. /\ indent_stack[Outer] < indent
      /\ \A i \in (Outer + 1)..indent_depth : indent_stack[i] > indent
  <2>1. LayoutTypeOK /\ indent_stack[0] = 0
    BY DEF IInv, Rising
  <2>2. /\ Outer = 0 \/ indent_stack[Outer] <= indent
        /\ \A i \in (Outer + 1)..indent_depth : indent_stack[i] > indent
    BY <1>2, <2>1, OuterIsOpen
  <2>3. indent_stack[Outer] \in Nat
    BY <1>2, <1>3, StackAscends
  <2>4. indent_stack[Outer] <= indent
    BY <1>2, <2>1, <2>2
  <2> QED BY <1>1, <1>2, <2>2, <2>3, <2>4
<1>5. ASSUME Shallow, Agrees(file, Emitted),
             AtPlace(file, indent_stack, Len(Emitted), pos, indent_depth, at_line_start, paren_depth)
      PROVE  GivenRightly("ERROR")
  <2>0. \E k \in 1..Size(file) :
             /\ IsLogical(file.lines[k]) /\ Len(Emitted) = Told(file, k - 1)
             /\ OnStack(indent_stack, indent_depth) = Blocks(file.lines, k - 1)
             /\ pos' = BodyAt(file, k) + 1 /\ indent = Indentation(file.lines, k)
    BY <1>1, <1>5, LineOfPlace
  <2>1. PICK k \in 1..Size(file) :
          /\ IsLogical(file.lines[k]) /\ Len(Emitted) = Told(file, k - 1)
          /\ OnStack(indent_stack, indent_depth) = Blocks(file.lines, k - 1)
          /\ indent = Indentation(file.lines, k)
    BY <2>0
  <2>2. ~IsConsistent(file.lines, k)
    BY <1>2, <1>3, <1>4, <2>1, LineBetweenBlocks
  <2>3. Told(file, k - 1) < Len(Lexed(file)) /\ Lexed(file)[Told(file, k - 1) + 1] = "ERROR"
    BY <1>3, <2>1, <2>2, ErrorTold
  <2>4. Erred(file, Append(Emitted, "ERROR"))
    BY <1>3, <1>5, <2>1, <2>3, ErrorFound
  <2> QED BY <2>4 DEF GivenRightly
<1>6. "ERROR" \in Tokens
  BY DEF Tokens
<1> QED BY <1>1, <1>2, <1>5, <1>6, TokenStep

-----------------------------------------------------------------------------
(* The symbols of a line that have a token, and the end of the file. *)

LEMMA NewLineFollows ==
  ASSUME IInv, Following, NewLine
  PROVE  Following'
<1>1. /\ scanning /\ InLine /\ Give("NEWLINE") /\ pos' = pos + 1 /\ at_line_start' = TRUE
      /\ KindIn(file, pos) \in Breaks /\ ~JoinsLines
      /\ UNCHANGED <<indent_stack, indent_depth, pending_dedents, paren_depth>>
  BY Reads DEF NewLine, InLine, Breaks
<1>2. paren_depth = 0 /\ pending_dedents' = 0 /\ file \in Files
  BY <1>1, StackInv, Reads DEF JoinsLines, Breaks
<1>3. ASSUME Shallow, Agrees(file, Emitted),
             AtPlace(file, indent_stack, Len(Emitted), pos, indent_depth, at_line_start, paren_depth)
      PROVE  GivenRightly("NEWLINE")
  <2> DEFINE n == Len(Emitted)
  <2>1. pos <= Len(file.text) /\ Within(file, indent_stack, n, pos, indent_depth, 0)
    BY <1>1, <1>2, <1>3, InLinePlace
  <2>2. /\ n \in Nat /\ n < Len(Lexed(file)) /\ Lexed(file)[n + 1] = "NEWLINE"
        /\ AtStart(file, indent_stack, n + 1, pos + 1, indent_depth)
    BY <1>1, <1>2, <2>1, LineEndsWithin
  <2>3. Due(file, n + 1, 0) /\ n + 1 + 0 = n + 1
    BY <1>2, <2>2, NoneDue
  <2>4. AtPlace(file, indent_stack, n + 1, pos + 1, indent_depth, TRUE, 0)
    BY <2>2 DEF AtPlace
  <2> QED BY <1>1, <1>2, <2>2, <2>3, <2>4 DEF GivenRightly
<1>4. "NEWLINE" \in Tokens
  BY DEF Tokens
<1> QED BY <1>1, <1>3, <1>4, TokenStep

LEMMA ScanFollows ==
  ASSUME IInv, Following, Scan
  PROVE  Following'
<1> DEFINE t == IF KindAt(pos) = "backslash" THEN "ERROR" ELSE KindAt(pos)
<1>1. /\ scanning /\ InLine /\ Give(t) /\ pos' = pos + 1
      /\ KindIn(file, pos) \in {"word", "open", "close", "backslash"} /\ ~JoinsLines
      /\ paren_depth' = Bracket(KindAt(pos))
      /\ UNCHANGED <<indent_stack, indent_depth, pending_dedents, at_line_start>>
  BY Reads DEF Scan, InLine
<1>2. /\ t = (IF KindIn(file, pos) = "backslash" THEN "ERROR" ELSE KindIn(file, pos))
      /\ t \in Tokens
  BY <1>1, Reads DEF Tokens
<1>3. paren_depth' = Unclosed(paren_depth, KindIn(file, pos))
  BY <1>1, Reads DEF Bracket, Unclosed
<1> HIDE DEF t
<1>4. pending_dedents' = 0 /\ file \in Files
  BY <1>1, StackInv
<1>5. ASSUME Shallow, Agrees(file, Emitted),
             AtPlace(file, indent_stack, Len(Emitted), pos, indent_depth, at_line_start, paren_depth)
      PROVE  GivenRightly(t)
  <2> DEFINE n == Len(Emitted)
  <2>1. /\ ~at_line_start /\ pos <= Len(file.text)
        /\ Within(file, indent_stack, n, pos, indent_depth, paren_depth)
    BY <1>1, <1>5, InLinePlace
  <2>2. KindIn(file, pos) \in WordKinds
    <3>1. KindIn(file, pos) = "backslash" => KindIn(file, pos + 1) = "nl"
      BY <1>4, <2>1, BackslashWithin
    <3>2. KindIn(file, pos) # "backslash"
      BY <1>1, <3>1, Reads DEF JoinsLines
    <3> QED BY <1>1, <3>2 DEF WordKinds
  <2>3. t = KindIn(file, pos)
    BY <1>2, <2>2 DEF WordKinds
  <2>4. /\ n \in Nat /\ n < Len(Lexed(file)) /\ Lexed(file)[n + 1] = t
        /\ Within(file, indent_stack, n + 1, pos + 1, indent_depth, paren_depth')
    BY <1>3, <1>4, <2>1, <2>2, <2>3, WordWithin
  <2>5. Due(file, n + 1, 0) /\ n + 1 + 0 = n + 1
    BY <1>4, <2>4, NoneDue
  <2>6. AtPlace(file, indent_stack, n + 1, pos + 1, indent_depth, at_line_start, paren_depth')
    BY <2>1, <2>4 DEF AtPlace
  <2> QED BY <1>1, <1>4, <2>4, <2>5, <2>6 DEF GivenRightly
<1> QED BY <1>1, <1>2, <1>5, TokenStep

LEMMA AllGiven ==
  ASSUME NEW f \in Files, NEW s, Agrees(f, s), Len(s) = Len(Lexed(f)) - 1
  PROVE  Append(s, "EOF") = Lexed(f)
<1> DEFINE r == Append(s, "EOF")
<1>1. Lexed(f) \in Seq(Tokens) /\ Len(Lexed(f)) \in Nat /\ Lexed(f)[Len(Lexed(f))] = "EOF"
  BY TokensBehindLines
<1>2. s \in Seq(Tokens) /\ Len(s) \in Nat
  BY DEF Agrees
<1>3. Len(s) < Len(Lexed(f)) /\ Len(s) + 1 = Len(Lexed(f)) /\ Lexed(f)[Len(s) + 1] = "EOF"
  BY <1>1, <1>2
<1>4. Agrees(f, r) /\ Len(r) = Len(Lexed(f))
  <2>1. "EOF" \in Tokens
    BY DEF Tokens
  <2> QED BY <1>3, <2>1, NextAgrees
<1> HIDE DEF r
<1>5. r \in Seq(Tokens) /\ \A i \in 1..Len(r) : r[i] = Lexed(f)[i]
  BY <1>4 DEF Agrees
<1>6. r = Lexed(f)
  BY <1>1, <1>4, <1>5, SeqEqual
<1> QED BY <1>6 DEF r

LEMMA BlocksAtEnd ==
  ASSUME NEW f \in Files, NEW st, NEW depth, Ascends(st, depth),
         OnStack(st, depth) = Blocks(f.lines, Size(f))
  PROVE  LastBlocks(f) = depth
<1>1. depth \in Nat /\ 0 \in 0..depth /\ 0 + 1 = 1 /\ depth - 0 = depth
  BY StackAscends
<1>2. OnStack(st, 0) = {0}
  <2>1. st[0] = 0 /\ 0..0 = {0}
    BY DEF Ascends
  <2> QED BY <2>1 DEF OnStack
<1>3. OnStack(st, depth) \ OnStack(st, 0) = {st[i] : i \in (0 + 1)..depth}
  BY <1>1, StackPopped
<1>4. Cardinality({st[i] : i \in (0 + 1)..depth}) = depth - 0
  BY <1>1, StackCounted
<1> QED BY <1>1, <1>2, <1>3, <1>4 DEF LastBlocks

LEMMA EndOfFileFollows ==
  ASSUME IInv, Following, EndOfFile
  PROVE  Following'
<1>1. /\ scanning /\ AtEnd /\ pos' = Len(file.text) + 1 /\ at_line_start' = at_line_start
      /\ indent_depth > 0 =>
           /\ PopTo(0) /\ pending_dedents' = indent_depth - 1 /\ Give("DEDENT")
      /\ ~(indent_depth > 0) => UNCHANGED <<indent_depth, indent_stack, pending_dedents>> /\ Give("EOF")
  BY Reads DEF EndOfFile
<1>2. file \in Files /\ Ascends(indent_stack, indent_depth) /\ indent_depth \in Nat
      /\ pos \in 1..(Len(file.text) + 1) /\ Len(file.text) \in Nat
  BY StackInv, StackAscends
<1>3. indent_stack' = indent_stack
  BY <1>1 DEF PopTo
<1>4. ASSUME Agrees(file, Emitted),
             AtPlace(file, indent_stack, Len(Emitted), pos, indent_depth, at_line_start, paren_depth)
      PROVE  \/ AtLast(file, Len(Emitted), pos, indent_depth)
             \/ /\ Len(Emitted) = Told(file, Size(file))
                /\ OnStack(indent_stack, indent_depth) = Blocks(file.lines, Size(file))
  <2>1. pos > Len(file.text) \/ (AtLine /\ KindIn(file, FirstIn(file, pos)) = "end")
    BY <1>1, Reads DEF AtEnd
  <2>2. CASE AtStart(file, indent_stack, Len(Emitted), pos, indent_depth) \/ KindIn(file, pos) = "cr"
    BY <1>2, <2>1, <2>2, FileEndsAtStart
  <2>3. CASE ~at_line_start /\ Within(file, indent_stack, Len(Emitted), pos, indent_depth, paren_depth)
    <3>1. pos > Len(file.text)
      BY <2>1, <2>3 DEF AtLine
    <3> QED BY <1>2, <2>3, <3>1, FileEndsWithin
  <2> QED BY <1>4, <2>2, <2>3 DEF AtPlace
<1>5. /\ Len(Lexed(file)) = Told(file, Size(file)) + LastBlocks(file) + 1
      /\ Len(Lexed(file)) \in Nat /\ Told(file, Size(file)) \in Nat
      /\ \A i \in 1..LastBlocks(file) : Lexed(file)[Told(file, Size(file)) + i] = "DEDENT"
  <2>1. Size(file) \in 0..Size(file)
    BY <1>2, LinesOfFile
  <2> QED BY <1>2, <2>1, TokensBehindLines
<1>6. OnStack(indent_stack, indent_depth) = Blocks(file.lines, Size(file)) =>
        LastBlocks(file) = indent_depth
  BY <1>2, BlocksAtEnd
<1>7. CASE indent_depth > 0
  <2>1. PopTo(0) /\ pending_dedents' = indent_depth - 1 /\ Give("DEDENT") /\ indent_depth' = 0
    BY <1>1, <1>7 DEF PopTo
  <2>2. ASSUME Shallow, Agrees(file, Emitted),
               AtPlace(file, indent_stack, Len(Emitted), pos, indent_depth, at_line_start, paren_depth)
        PROVE  GivenRightly("DEDENT")
    <3>1. ~AtLast(file, Len(Emitted), pos, indent_depth)
      BY <1>7 DEF AtLast
    <3> DEFINE m == Told(file, Size(file))
               n == indent_depth
    <3>2. Len(Emitted) = m /\ LastBlocks(file) = n
      BY <1>4, <1>6, <2>2, <3>1
    <3>3. /\ m \in Nat /\ n \in Nat /\ n > 0 /\ Len(Lexed(file)) \in Nat /\ Len(Lexed(file)) = m + n + 1
          /\ \A i \in 1..n : Lexed(file)[m + i] = "DEDENT"
      BY <1>2, <1>5, <1>7, <3>2
    <3> HIDE DEF m, n
    <3>4. m < Len(Lexed(file)) /\ Lexed(file)[m + 1] = "DEDENT"
      BY <3>3
    <3>5. Due(file, m + 1, n - 1)
      <4>1. (m + 1) + (n - 1) <= Len(Lexed(file))
        BY <3>3
      <4>2. ASSUME NEW i \in 1..(n - 1) PROVE Lexed(file)[(m + 1) + i] = "DEDENT"
        <5> DEFINE x == i + 1
        <5>1. x \in 1..n /\ (m + 1) + i = m + x
          BY <3>3
        <5> HIDE DEF x
        <5>2. Lexed(file)[m + x] = "DEDENT"
          BY <3>3, <5>1
        <5> QED BY <5>1, <5>2
      <4> QED BY <4>1, <4>2 DEF Due
    <3>6. m + 1 + (n - 1) = Len(Lexed(file)) - 1
      BY <3>3
    <3>7. AtPlace(file, indent_stack', m + 1 + (n - 1), pos', indent_depth', at_line_start', paren_depth')
      BY <1>1, <2>1, <3>6 DEF AtPlace, AtLast
    <3>8. pending_dedents' = n - 1
      BY <2>1 DEF n
    <3> QED BY <3>2, <3>4, <3>5, <3>7, <3>8 DEF GivenRightly
  <2>3. "DEDENT" \in Tokens
    BY DEF Tokens
  <2> QED BY <1>1, <1>3, <2>1, <2>2, <2>3, TokenStep
<1>8. CASE ~(indent_depth > 0)
  <2>1. Give("EOF") /\ indent_depth = 0
    BY <1>1, <1>2, <1>8
  <2>2. ASSUME Shallow, Agrees(file, Emitted),
               AtPlace(file, indent_stack, Len(Emitted), pos, indent_depth, at_line_start, paren_depth)
        PROVE  GivenRightly("EOF")
    <3>1. Len(Emitted) = Len(Lexed(file)) - 1
      <4>1. CASE AtLast(file, Len(Emitted), pos, indent_depth)
        BY <4>1 DEF AtLast
      <4>2. CASE /\ Len(Emitted) = Told(file, Size(file))
                 /\ OnStack(indent_stack, indent_depth) = Blocks(file.lines, Size(file))
        BY <1>5, <1>6, <2>1, <4>2
      <4> QED BY <1>4, <2>2, <4>1, <4>2
    <3>2. Append(Emitted, "EOF") = Lexed(file)
      BY <1>2, <2>2, <3>1, AllGiven
    <3> QED BY <3>2 DEF GivenRightly
  <2>3. "EOF" \in Tokens
    BY DEF Tokens
  <2> QED BY <1>1, <1>3, <2>1, <2>2, <2>3, TokenStep
<1> QED BY <1>7, <1>8

-----------------------------------------------------------------------------
(* The parser takes a token: it is behind the ones that were given, or it  *)
(* is a DEDENT that is due.                                                *)
LEMMA NextDue ==
  ASSUME NEW f \in Files, NEW s, NEW due \in Nat, due > 0, Agrees(f, s), Due(f, Len(s), due)
  PROVE  /\ Agrees(f, Append(s, "DEDENT")) /\ Len(Append(s, "DEDENT")) = Len(s) + 1
         /\ Len(s) \in Nat /\ Due(f, Len(s) + 1, due - 1)
<1> DEFINE n == Len(s)
<1>1. n \in Nat /\ Len(Lexed(f)) \in Nat
  BY TokensBehindLines DEF Agrees
<1>2. n + due <= Len(Lexed(f)) /\ \A i \in 1..due : Lexed(f)[n + i] = "DEDENT"
  BY DEF Due
<1> HIDE DEF n
<1>3. n < Len(Lexed(f)) /\ Lexed(f)[n + 1] = "DEDENT"
  <2>1. 1 \in 1..due
    OBVIOUS
  <2> QED BY <1>1, <1>2, <2>1
<1>4. Due(f, n + 1, due - 1)
  <2>1. (n + 1) + (due - 1) <= Len(Lexed(f))
    BY <1>1, <1>2
  <2>2. ASSUME NEW i \in 1..(due - 1) PROVE Lexed(f)[(n + 1) + i] = "DEDENT"
    <3> DEFINE x == i + 1
    <3>1. x \in 1..due /\ (n + 1) + i = n + x
      BY <1>1
    <3> HIDE DEF x
    <3>2. Lexed(f)[n + x] = "DEDENT"
      BY <1>2, <3>1
    <3> QED BY <3>1, <3>2
  <2> QED BY <2>1, <2>2 DEF Due
<1>5. "DEDENT" \in Tokens
  BY DEF Tokens
<1>6. Len(s) < Len(Lexed(f)) /\ Lexed(f)[Len(s) + 1] = "DEDENT"
  BY <1>3 DEF n
<1>7. Agrees(f, Append(s, "DEDENT")) /\ Len(Append(s, "DEDENT")) = Len(s) + 1
  BY <1>5, <1>6, NextAgrees
<1> QED BY <1>1, <1>4, <1>7 DEF n

LEMMA TakeFollows ==
  ASSUME IInv, Following, Take
  PROVE  Following'
<1> SUFFICES ASSUME Shallow PROVE EmittedFollows' /\ SavedFollows'
  BY DEF Following, Shallow
<1>1. /\ ~scanning /\ saved = NotSaved /\ saved' = saved /\ token # "EOF"
      /\ taken' = Append(taken, token)
      /\ UNCHANGED <<file, pos, indent_stack, indent_depth, at_line_start, paren_depth>>
      /\ IF pending_dedents > 0
         THEN /\ pending_dedents' = pending_dedents - 1 /\ scanning' = scanning
              /\ token' = "DEDENT"
         ELSE scanning' = TRUE /\ UNCHANGED <<pending_dedents, token>>
  BY DEF Take, lexer_advance
<1>2. SavedFollows'
  BY <1>1 DEF SavedFollows, NotSaved
<1>3. /\ \/ Tracked(file, indent_stack, Emitted, pos, indent_depth, pending_dedents, at_line_start, paren_depth)
         \/ Erred(file, Emitted)
      /\ Emitted = taken' /\ Emitted \in Seq(Tokens) /\ file \in Files /\ pending_dedents \in Nat
  <2>1. Emitted = taken'
    BY <1>1 DEF Emitted, Before
  <2> QED BY <1>1, <2>1, EmittedType, StackInv DEF Following, EmittedFollows
<1>4. CASE pending_dedents > 0
  <2>1. Emitted' = Append(Emitted, "DEDENT") /\ pending_dedents' = pending_dedents - 1
    BY <1>1, <1>3, <1>4 DEF Emitted, Before, NotSaved
  <2>2. CASE Erred(file, Emitted)
    <3>1. "DEDENT" \in Tokens
      BY DEF Tokens
    <3>2. Erred(file, Append(Emitted, "DEDENT"))
      BY <1>3, <2>2, <3>1, ErredGoesOn
    <3> QED BY <1>1, <1>2, <2>1, <3>2 DEF EmittedFollows
  <2>3. CASE Tracked(file, indent_stack, Emitted, pos, indent_depth, pending_dedents, at_line_start, paren_depth)
    <3> DEFINE r == Append(Emitted, "DEDENT")
    <3>1. /\ Agrees(file, r) /\ Len(r) = Len(Emitted) + 1 /\ Len(Emitted) \in Nat
          /\ Due(file, Len(Emitted) + 1, pending_dedents - 1)
      BY <1>3, <1>4, <2>3, NextDue DEF Tracked
    <3>2. AtPlace(file, indent_stack, Len(Emitted) + pending_dedents, pos, indent_depth, at_line_start, paren_depth)
      BY <2>3 DEF Tracked
    <3> HIDE DEF r
    <3>3. Len(r) + (pending_dedents - 1) = Len(Emitted) + pending_dedents
      BY <1>3, <3>1
    <3>4. Tracked(file, indent_stack, r, pos, indent_depth, pending_dedents - 1, at_line_start, paren_depth)
      BY <3>1, <3>2, <3>3 DEF Tracked
    <3> QED BY <1>1, <1>2, <2>1, <3>4 DEF EmittedFollows, r
  <2> QED BY <1>3, <2>2, <2>3
<1>5. CASE ~(pending_dedents > 0)
  <2>1. Emitted' = Emitted
    BY <1>1, <1>3, <1>5 DEF Emitted, Before, NotSaved
  <2> QED BY <1>1, <1>2, <1>3, <1>5, <2>1 DEF EmittedFollows
<1> QED BY <1>4, <1>5

LEMMA LookAheadFollows ==
  ASSUME IInv, Following, LookAhead
  PROVE  Following'
<1> SUFFICES ASSUME Shallow PROVE EmittedFollows' /\ SavedFollows'
  BY DEF Following, Shallow
<1>1. /\ ~scanning /\ saved = NotSaved /\ token = "word" /\ pending_dedents = 0
      /\ at_line_start = FALSE
      /\ UNCHANGED <<file, pos, indent_stack, indent_depth, at_line_start, paren_depth, taken>>
      /\ saved' = [pos |-> pos, token |-> token, depth |-> indent_depth,
                   pending |-> pending_dedents, line |-> at_line_start,
                   paren |-> paren_depth, blocks |-> open_blocks]
      /\ scanning' = TRUE /\ UNCHANGED <<pending_dedents, token>>
  BY DEF LookAhead, lexer_advance, IInv, WordInLine, LayoutTypeOK
<1>2. /\ saved'.pos = pos /\ saved'.token = "word" /\ saved'.depth = indent_depth
      /\ saved'.paren = paren_depth /\ NotSaved.token = "none"
  BY <1>1 DEF NotSaved
<1>3. saved' # NotSaved
  BY <1>2
<1>4. Emitted = Append(taken, "word") /\ Emitted' = Append(taken, "word")
  <2>1. Emitted = Append(taken, "word")
    BY <1>1 DEF Emitted, Before
  <2>2. NotSaved' = NotSaved
    BY DEF NotSaved
  <2>3. Emitted' = Append(taken, "word")
    BY <1>1, <1>2, <1>3, <2>2 DEF Emitted, Before
  <2> QED BY <2>1, <2>3
<1>5. \/ Tracked(file, indent_stack, Append(taken, "word"), pos, indent_depth, 0, FALSE, paren_depth)
      \/ Erred(file, Append(taken, "word"))
  BY <1>1, <1>4 DEF Following, EmittedFollows
<1>6. EmittedFollows'
  BY <1>1, <1>4, <1>5 DEF EmittedFollows
<1>7. SavedFollows'
  BY <1>1, <1>2, <1>5 DEF SavedFollows
<1> QED BY <1>6, <1>7

LEMMA GoBackFollows ==
  ASSUME IInv, Following, GoBack
  PROVE  Following'
<1> SUFFICES ASSUME Shallow PROVE EmittedFollows' /\ SavedFollows'
  BY DEF Following, Shallow
<1>1. /\ saved # NotSaved /\ saved' = NotSaved /\ ~scanning
      /\ pos' = saved.pos /\ token' = saved.token /\ indent_depth' = saved.depth
      /\ pending_dedents' = saved.pending /\ at_line_start' = saved.line
      /\ paren_depth' = saved.paren
      /\ UNCHANGED <<file, indent_stack, scanning, taken>>
  BY DEF GoBack, lexer_restore_pos
<1>2. saved.token = "word" /\ saved.pending = 0 /\ saved.line = FALSE
  BY <1>1 DEF IInv, ReadyToGoBack, LayoutTypeOK, Position
<1>3. Emitted' = Append(taken, "word")
  BY <1>1, <1>2 DEF Emitted, Before, NotSaved
<1>4. \/ Tracked(file, indent_stack, Append(taken, "word"), saved.pos, saved.depth, 0, FALSE, saved.paren)
      \/ Erred(file, Append(taken, "word"))
  BY <1>1 DEF Following, SavedFollows
<1>5. EmittedFollows'
  BY <1>1, <1>2, <1>3, <1>4 DEF EmittedFollows
<1>6. SavedFollows'
  BY <1>1 DEF SavedFollows, NotSaved
<1> QED BY <1>5, <1>6

LEMMA GoOnFollows ==
  ASSUME IInv, Following, GoOn
  PROVE  Following'
<1> SUFFICES ASSUME Shallow PROVE EmittedFollows' /\ SavedFollows'
  BY DEF Following, Shallow
<1>1. /\ ~scanning /\ saved # NotSaved /\ saved' = NotSaved /\ taken' = Append(taken, saved.token)
      /\ UNCHANGED <<file, pos, indent_stack, indent_depth, pending_dedents, at_line_start,
                     paren_depth, token, scanning>>
  BY DEF GoOn, lexer
<1>2. Emitted' = Emitted
  BY <1>1 DEF Emitted, Before, NotSaved
<1>3. EmittedFollows'
  BY <1>1, <1>2 DEF Following, EmittedFollows
<1>4. SavedFollows'
  BY <1>1 DEF SavedFollows, NotSaved
<1> QED BY <1>3, <1>4

LEMMA StutteringFollows ==
  ASSUME Following, UNCHANGED vars
  PROVE  Following'
<1>1. UNCHANGED <<file, pos, indent_stack, indent_depth, pending_dedents, at_line_start,
                  paren_depth, token, scanning, saved, taken>>
  BY DEF vars, lexer
<1>2. Emitted' = Emitted
  BY <1>1 DEF Emitted, Before, NotSaved
<1>3. EmittedFollows => EmittedFollows'
  BY <1>1, <1>2 DEF EmittedFollows
<1>4. SavedFollows => SavedFollows'
  BY <1>1 DEF SavedFollows, NotSaved
<1> QED BY <1>3, <1>4 DEF Following, Shallow

LEMMA NextFollows == IInv /\ Following /\ [Next]_vars => Following'
BY SkipLineFollows, IndentFollows, DedentFollows, InconsistentFollows, SameIndentFollows,
   SkipFollows, NewLineFollows, ScanFollows, EndOfFileFollows, TakeFollows, LookAheadFollows,
   GoBackFollows, GoOnFollows, StutteringFollows
DEF Next, Loop

-----------------------------------------------------------------------------
(* The tokens that the lexer has are those of the language, up to the first*)
(* line that depends on the worth of a tab.                                *)
LanguageTokens == Tokens \cup {"TabError"}

IsTabbed(f, k) ==
  IsLogical(f.lines[k]) /\ IsConsistent(f.lines, k) /\ DependsOnTabs(f.lines, k)

InLanguage(f) == [k \in 1..Size(f) |-> LineTokens(f.lines, k)]

LEMMA SameLine ==
  ASSUME NEW f \in Files, LinesEnd(f.lines), NEW k \in 1..Size(f), ~IsTabbed(f, k)
  PROVE  LineTokens(f.lines, k) = LexedLine(f.lines, k)
<1>1. IsLogical(f.lines[k]) => f.lines[k].end # "none"
  BY DEF LinesEnd, Size
<1>2. IsLogical(f.lines[k]) => BlockTokens(f.lines, k) = LexedBlocks(f.lines, k)
  BY DEF IsTabbed, BlockTokens, LexedBlocks
<1> QED BY <1>1, <1>2 DEF LineTokens, LexedLine

LEMMA TabbedLine ==
  ASSUME NEW f \in Files, NEW k \in 1..Size(f), IsTabbed(f, k)
  PROVE  /\ LineTokens(f.lines, k) \in Seq(LanguageTokens)
         /\ Len(LineTokens(f.lines, k)) >= 1 /\ LineTokens(f.lines, k)[1] = "TabError"
<1> DEFINE W == Words(LineKinds(f.lines[k]))
           L == LineTokens(f.lines, k)
<1>1. L = <<"TabError">> \o W \o <<"NEWLINE">>
  BY DEF LineTokens, BlockTokens, IsTabbed
<1>2. W \in Seq(LanguageTokens) /\ "TabError" \in LanguageTokens /\ "NEWLINE" \in LanguageTokens
  <2>1. Tokens \subseteq LanguageTokens /\ "NEWLINE" \in Tokens
    BY DEF LanguageTokens, Tokens
  <2>2. W \in Seq(Tokens)
    BY WordsAreTokens
  <2> HIDE DEF W
  <2> QED BY <2>1, <2>2 DEF LanguageTokens
<1> HIDE DEF W, L
<1> DEFINE e == <<"TabError">>
           nl == <<"NEWLINE">>
           u == e \o W
<1>3. /\ e \in Seq(LanguageTokens) /\ nl \in Seq(LanguageTokens)
      /\ Len(e) = 1 /\ Len(nl) = 1 /\ e[1] = "TabError"
  BY <1>2
<1>4. L = u \o nl
  BY <1>1
<1> HIDE DEF e, nl
<1>5. u \in Seq(LanguageTokens) /\ LiesBehind(u, 0, e) /\ Len(u) = 1 + Len(W)
  <2>1. e \in Seq(LanguageTokens) /\ W \in Seq(LanguageTokens)
    BY <1>2, <1>3
  <2>2. LiesBehind(e \o W, 0, e) /\ Len(e \o W) = Len(e) + Len(W)
    BY <2>1, PartsOfConcat
  <2>3. e \o W \in Seq(LanguageTokens)
    BY <2>1
  <2> QED BY <1>3, <2>2, <2>3
<1> HIDE DEF u
<1>6. L \in Seq(LanguageTokens) /\ LiesBehind(L, 0, u) /\ Len(L) = Len(u) + 1
  <2>1. u \in Seq(LanguageTokens) /\ nl \in Seq(LanguageTokens)
    BY <1>3, <1>5
  <2>2. LiesBehind(u \o nl, 0, u) /\ Len(u \o nl) = Len(u) + Len(nl)
    BY <2>1, PartsOfConcat
  <2>3. u \o nl \in Seq(LanguageTokens)
    BY <2>1
  <2> QED BY <1>3, <1>4, <2>2, <2>3
<1>7. Len(W) \in Nat /\ Len(u) \in Nat /\ Len(u) >= 1
  BY <1>2, <1>5
<1>8. u[1] = "TabError" /\ L[1] = u[1]
  <2>1. u[0 + 1] = e[1] /\ L[0 + 1] = u[1]
    BY <1>3, <1>5, <1>6, <1>7 DEF LiesBehind
  <2> QED BY <1>3, <2>1
<1> QED BY <1>6, <1>7, <1>8 DEF L

LEMMA LinesInLanguage ==
  ASSUME NEW f \in Files, LinesEnd(f.lines)
  PROVE  /\ InLanguage(f) \in Seq(Seq(LanguageTokens)) /\ Len(InLanguage(f)) = Size(f)
         /\ EndTokens(f.lines) \in Seq(LanguageTokens)
         /\ f.tokens = FlattenSeq(InLanguage(f)) \o EndTokens(f.lines)
         /\ f.tokens \in Seq(LanguageTokens)
<1>1. Size(f) \in Nat /\ Tokens \subseteq LanguageTokens
  BY LinesOfFile DEF LanguageTokens
<1>2. ASSUME NEW k \in 1..Size(f) PROVE LineTokens(f.lines, k) \in Seq(LanguageTokens)
  <2>1. CASE IsTabbed(f, k)
    BY <2>1, TabbedLine
  <2>2. CASE ~IsTabbed(f, k)
    <3>1. LineTokens(f.lines, k) = LexedLine(f.lines, k) /\ LexedLine(f.lines, k) \in Seq(Tokens)
      BY <2>2, SameLine, TokensOfLine
    <3> QED BY <1>1, <3>1
  <2> QED BY <2>1, <2>2
<1>3. InLanguage(f) \in Seq(Seq(LanguageTokens)) /\ Len(InLanguage(f)) = Size(f)
  BY <1>1, <1>2 DEF InLanguage
<1>4. EndTokens(f.lines) \in Seq(LanguageTokens)
  <2> DEFINE D == Times("DEDENT", LastBlocks(f))
  <2>1. D \in Seq(Tokens)
    BY BlocksCounted, SomeTimes DEF Tokens
  <2>2. EndTokens(f.lines) = D \o <<"EOF">>
    BY DEF EndTokens, LastBlocks, Size
  <2> HIDE DEF D
  <2>3. "EOF" \in Tokens
    BY DEF Tokens
  <2>4. D \o <<"EOF">> \in Seq(Tokens)
    BY <2>1, <2>3
  <2> QED BY <1>1, <2>2, <2>4
<1>5. f.tokens = FlattenSeq(InLanguage(f)) \o EndTokens(f.lines)
  BY LinesOfFile DEF FileTokens, InLanguage, Size
<1>6. FlattenSeq(InLanguage(f)) \in Seq(LanguageTokens)
  BY <1>3, FlattenedAt
<1>7. f.tokens \in Seq(LanguageTokens)
  BY <1>4, <1>5, <1>6
<1> QED BY <1>3, <1>4, <1>5, <1>7

LEMMA WithoutTabs ==
  ASSUME NEW f \in Files, LinesEnd(f.lines), \A k \in 1..Size(f) : ~IsTabbed(f, k)
  PROVE  f.tokens = Lexed(f)
<1>1. InLanguage(f) = Tellings(f)
  BY SameLine DEF InLanguage, Tellings
<1> QED BY <1>1, LinesInLanguage DEF Lexed

(* The first n tokens are the same, and the language goes on with its error. *)
SameUpToTabs(f, n) ==
  /\ n < Len(f.tokens) /\ f.tokens[n + 1] = "TabError"
  /\ n <= Len(Lexed(f)) /\ \A i \in 1..n : f.tokens[i] = Lexed(f)[i]

LEMMA WithTabs ==
  ASSUME NEW f \in Files, LinesEnd(f.lines), \E k \in 1..Size(f) : IsTabbed(f, k)
  PROVE  \E n \in Nat : SameUpToTabs(f, n)
<1> DEFINE Tabs == {k \in 1..Size(f) : IsTabbed(f, k)}
           m == Min(Tabs)
           U == InLanguage(f)
           V == Tellings(f)
           E == EndTokens(f.lines)
           P == FlatTo(U, m - 1)
           n == Len(P)
<1>1. Size(f) \in Nat
  BY LinesOfFile
<1>2. m \in 1..Size(f) /\ IsTabbed(f, m) /\ \A k \in 1..(m - 1) : k \in 1..Size(f) /\ ~IsTabbed(f, k)
  <2>1. Tabs \subseteq Nat /\ Tabs # {}
    OBVIOUS
  <2>2. m \in Tabs /\ \A k \in Tabs : m <= k
    BY <2>1, LeastOf
  <2> HIDE DEF m
  <2>3. \A k \in 1..(m - 1) : k \in 1..Size(f) /\ ~(m <= k)
    BY <1>1, <2>2
  <2> QED BY <2>2, <2>3
<1> HIDE DEF m, Tabs
<1>3. /\ U \in Seq(Seq(LanguageTokens)) /\ Len(U) = Size(f)
      /\ V \in Seq(Seq(LanguageTokens)) /\ Len(V) = Size(f)
      /\ E \in Seq(LanguageTokens) /\ f.tokens = FlattenSeq(U) \o E /\ Lexed(f) = FlattenSeq(V) \o E
  <2>1. V \in Seq(Seq(Tokens)) /\ Len(V) = Size(f) /\ Tokens \subseteq LanguageTokens
    BY TokensOfFile DEF LanguageTokens
  <2>2. Lexed(f) = FlattenSeq(V) \o E
    BY DEF Lexed
  <2>3. Seq(Tokens) \subseteq Seq(LanguageTokens)
    BY <2>1
  <2>4. V \in Seq(Seq(LanguageTokens))
    <3> HIDE DEF V
    <3> QED BY <2>1, <2>3
  <2> QED BY <2>1, <2>2, <2>4, LinesInLanguage
<1>4. P = FlatTo(V, m - 1)
  <2>1. \A k \in 1..(m - 1) : U[k] = V[k]
    BY <1>2, SameLine DEF InLanguage, Tellings
  <2> HIDE DEF U, V
  <2>2. SubSeq(U, 1, m - 1) = [k \in 1..(m - 1) |-> U[k]] /\ SubSeq(V, 1, m - 1) = [k \in 1..(m - 1) |-> V[k]]
    BY <1>1, <1>2, <1>3
  <2>3. SubSeq(U, 1, m - 1) = SubSeq(V, 1, m - 1)
    BY <2>1, <2>2
  <2> QED BY <2>3 DEF FlatTo
<1>5. U[m] = LineTokens(f.lines, m) /\ Len(U[m]) >= 1 /\ U[m][1] = "TabError" /\ U[m] \in Seq(LanguageTokens)
  BY <1>2, TabbedLine DEF InLanguage
<1> HIDE DEF U, V, E
<1>6. m \in 1..Size(f) /\ m - 1 \in 0..Size(f)
  BY <1>1, <1>2
<1>7. /\ FlattenSeq(U) \in Seq(LanguageTokens) /\ FlattenSeq(V) \in Seq(LanguageTokens)
      /\ n \in Nat /\ LiesBehind(FlattenSeq(U), 0, P) /\ LiesBehind(FlattenSeq(U), n, U[m])
  BY <1>3, <1>6, FlattenedAt
<1>8. LiesBehind(FlattenSeq(V), 0, P)
  BY <1>3, <1>4, <1>6, FlattenedAt
<1> HIDE DEF P
<1>9. /\ LiesBehind(f.tokens, 0, FlattenSeq(U)) /\ LiesBehind(Lexed(f), 0, FlattenSeq(V))
      /\ f.tokens \in Seq(LanguageTokens) /\ Lexed(f) \in Seq(LanguageTokens)
  BY <1>3, <1>7, PartsOfConcat
<1>10. /\ Len(f.tokens) \in Nat /\ Len(Lexed(f)) \in Nat /\ Len(FlattenSeq(U)) \in Nat
       /\ Len(FlattenSeq(V)) \in Nat /\ Len(U[m]) \in Nat
  BY <1>5, <1>7, <1>9
<1>11. n < Len(f.tokens) /\ f.tokens[n + 1] = "TabError"
  <2>1. n + 1 \in 1..Len(FlattenSeq(U)) /\ FlattenSeq(U)[n + 1] = U[m][1]
    BY <1>5, <1>7, <1>10 DEF LiesBehind
  <2>2. f.tokens[0 + (n + 1)] = FlattenSeq(U)[n + 1] /\ Len(FlattenSeq(U)) <= Len(f.tokens)
    BY <1>9, <1>10, <2>1 DEF LiesBehind
  <2>3. 0 + (n + 1) = n + 1 /\ n < Len(f.tokens)
    BY <1>7, <1>10, <2>1, <2>2
  <2> QED BY <1>5, <2>1, <2>2, <2>3
<1>12. n <= Len(Lexed(f))
  BY <1>7, <1>8, <1>9, <1>10 DEF LiesBehind
<1>13. ASSUME NEW i \in 1..n PROVE f.tokens[i] = Lexed(f)[i]
  <2>1. 0 + i = i /\ i \in 1..Len(FlattenSeq(U)) /\ i \in 1..Len(FlattenSeq(V))
    BY <1>7, <1>8, <1>10 DEF LiesBehind
  <2>2. FlattenSeq(U)[0 + i] = P[i] /\ FlattenSeq(V)[0 + i] = P[i]
    BY <1>7, <1>8 DEF LiesBehind
  <2>3. f.tokens[0 + i] = FlattenSeq(U)[i] /\ Lexed(f)[0 + i] = FlattenSeq(V)[i]
    BY <1>9, <2>1 DEF LiesBehind
  <2> QED BY <2>1, <2>2, <2>3
<1>14. SameUpToTabs(f, n)
  BY <1>11, <1>12, <1>13 DEF SameUpToTabs
<1> QED BY <1>7, <1>14

-----------------------------------------------------------------------------
(* Following says what TokensFollowLines says. *)

LEMMA EqualBeginnings ==
  ASSUME NEW T, NEW s \in Seq(T), NEW t \in Seq(T), NEW n \in Nat,
         n <= Len(s), n <= Len(t), \A i \in 1..n : s[i] = t[i]
  PROVE  IsPrefix(SubSeq(s, 1, n), t)
<1> DEFINE a == SubSeq(s, 1, n)
<1>1. a = [i \in 1..n |-> s[i]] /\ Len(a) = n /\ a \in Seq(T)
  OBVIOUS
<1>2. SubSeq(t, 1, n) = [i \in 1..n |-> t[i]]
  OBVIOUS
<1> HIDE DEF a
<1>3. SubSeq(a, 1, n) = [i \in 1..n |-> a[i]]
  BY <1>1
<1>4. SubSeq(a, 1, Len(a)) = SubSeq(t, 1, Len(a))
  <2>1. \A i \in 1..n : a[i] = t[i]
    BY <1>1
  <2>2. [i \in 1..n |-> a[i]] = [i \in 1..n |-> t[i]]
    BY <2>1
  <2> QED BY <1>1, <1>2, <1>3, <2>2
<1> QED BY <1>1, <1>4 DEF IsPrefix, a

LEMMA WholeBeginnings ==
  ASSUME NEW T, NEW s \in Seq(T), NEW t \in Seq(T),
         Len(s) <= Len(t), \A i \in 1..Len(s) : s[i] = t[i]
  PROVE  IsPrefix(s, t)
<1>1. Len(s) \in Nat /\ Len(s) <= Len(s) /\ SubSeq(s, 1, Len(s)) = s
  OBVIOUS
<1>2. IsPrefix(SubSeq(s, 1, Len(s)), t)
  BY <1>1, EqualBeginnings
<1> QED BY <1>1, <1>2

(* What the language says of tokens that were given. *)
SaidOf(f, s) ==
  \/ IsPrefix(s, f.tokens)
  \/ \E e \in DOMAIN f.tokens :
       \/ f.tokens[e] = "ERROR" /\ IsPrefix(SubSeq(f.tokens, 1, e), s)
       \/ f.tokens[e] = "TabError" /\ IsPrefix(SubSeq(f.tokens, 1, e - 1), s)

(* The first n tokens of the language are the lexer's. *)
LEMMA SaidOfFirst ==
  ASSUME NEW f \in Files, LinesEnd(f.lines), NEW s \in Seq(Tokens), Agrees(f, s) \/ Erred(f, s),
         NEW n \in Nat, n <= Len(f.tokens), n <= Len(Lexed(f)),
         \A i \in 1..n : f.tokens[i] = Lexed(f)[i]
  PROVE  \/ SaidOf(f, s)
         \/ n < Len(Lexed(f)) /\ IsPrefix(SubSeq(f.tokens, 1, n), s)
<1>1. /\ s \in Seq(LanguageTokens) /\ f.tokens \in Seq(LanguageTokens)
      /\ Len(s) \in Nat /\ Len(f.tokens) \in Nat /\ DOMAIN f.tokens = 1..Len(f.tokens)
      /\ Len(Lexed(f)) \in Nat
  <2>1. s \in Seq(LanguageTokens)
    BY DEF LanguageTokens
  <2>2. f.tokens \in Seq(LanguageTokens) /\ Len(Lexed(f)) \in Nat
    BY LinesInLanguage, TokensBehindLines
  <2> QED BY <2>1, <2>2
<1>2. CASE Agrees(f, s)
  <2>1. Len(s) <= Len(Lexed(f)) /\ \A i \in 1..Len(s) : s[i] = Lexed(f)[i]
    BY <1>2 DEF Agrees
  <2>2. CASE Len(s) <= n
    <3>1. Len(s) <= Len(f.tokens) /\ \A i \in 1..Len(s) : i \in 1..n
      BY <1>1, <2>2
    <3>2. \A i \in 1..Len(s) : s[i] = f.tokens[i]
      BY <2>1, <3>1
    <3>3. IsPrefix(s, f.tokens)
      BY <1>1, <3>1, <3>2, WholeBeginnings
    <3> QED BY <3>3 DEF SaidOf
  <2>3. CASE ~(Len(s) <= n)
    <3>1. n < Len(Lexed(f)) /\ n <= Len(s) /\ \A i \in 1..n : i \in 1..Len(s)
      BY <1>1, <2>1, <2>3
    <3>2. \A i \in 1..n : f.tokens[i] = s[i]
      BY <2>1, <3>1
    <3>3. IsPrefix(SubSeq(f.tokens, 1, n), s)
      BY <1>1, <3>1, <3>2, EqualBeginnings
    <3> QED BY <3>1, <3>3
  <2> QED BY <2>2, <2>3
<1>3. CASE Erred(f, s)
  <2>1. PICK e \in 1..Len(s) : /\ e <= Len(Lexed(f)) /\ Lexed(f)[e] = "ERROR"
                               /\ \A i \in 1..e : s[i] = Lexed(f)[i]
    BY <1>3 DEF Erred
  <2>2. e \in Nat /\ e >= 1 /\ e <= Len(s)
    BY <1>1
  <2>3. CASE e <= n
    <3>1. e \in 1..n /\ e \in DOMAIN f.tokens /\ e <= Len(f.tokens) /\ \A i \in 1..e : i \in 1..n
      BY <1>1, <2>2, <2>3
    <3>2. f.tokens[e] = "ERROR" /\ \A i \in 1..e : f.tokens[i] = s[i]
      BY <2>1, <3>1
    <3>3. IsPrefix(SubSeq(f.tokens, 1, e), s)
      BY <1>1, <2>2, <3>1, <3>2, EqualBeginnings
    <3> QED BY <3>1, <3>2, <3>3 DEF SaidOf
  <2>4. CASE ~(e <= n)
    <3>1. n < Len(Lexed(f)) /\ n <= Len(s) /\ \A i \in 1..n : i \in 1..e
      BY <1>1, <2>1, <2>2, <2>4
    <3>2. \A i \in 1..n : f.tokens[i] = s[i]
      BY <2>1, <3>1
    <3>3. IsPrefix(SubSeq(f.tokens, 1, n), s)
      BY <1>1, <3>1, <3>2, EqualBeginnings
    <3> QED BY <3>1, <3>3
  <2> QED BY <2>3, <2>4
<1> QED BY <1>2, <1>3

LEMMA SaidOfGiven ==
  ASSUME NEW f \in Files, LinesEnd(f.lines), NEW s \in Seq(Tokens), Agrees(f, s) \/ Erred(f, s)
  PROVE  SaidOf(f, s)
<1>0. Len(f.tokens) \in Nat /\ DOMAIN f.tokens = 1..Len(f.tokens) /\ Len(Lexed(f)) \in Nat
  BY LinesInLanguage, TokensBehindLines
<1>1. CASE \A k \in 1..Size(f) : ~IsTabbed(f, k)
  <2>1. f.tokens = Lexed(f)
    BY <1>1, WithoutTabs
  <2>2. SaidOf(f, s) \/ Len(Lexed(f)) < Len(Lexed(f))
    BY <1>0, <2>1, SaidOfFirst
  <2> QED BY <1>0, <2>2
<1>2. CASE \E k \in 1..Size(f) : IsTabbed(f, k)
  <2>1. PICK n \in Nat : SameUpToTabs(f, n)
    BY <1>2, WithTabs
  <2>2. n + 1 \in DOMAIN f.tokens /\ (n + 1) - 1 = n /\ n <= Len(f.tokens)
    BY <1>0, <2>1 DEF SameUpToTabs
  <2>3. SaidOf(f, s) \/ IsPrefix(SubSeq(f.tokens, 1, n), s)
    BY <2>1, <2>2, SaidOfFirst DEF SameUpToTabs
  <2> QED BY <2>1, <2>2, <2>3 DEF SaidOf, SameUpToTabs
<1> QED BY <1>1, <1>2

(* Without the token of a look-ahead, or the one that is to come. *)
LEMMA ShorterAgrees ==
  ASSUME NEW f \in Files, NEW s \in Seq(Tokens), NEW t \in Tokens, Agrees(f, Append(s, t))
  PROVE  Agrees(f, s)
<1> DEFINE r == Append(s, t)
<1>1. Len(r) = Len(s) + 1 /\ Len(s) \in Nat /\ \A i \in 1..Len(s) : r[i] = s[i]
  BY AppendProperties
<1>2. Len(r) <= Len(Lexed(f)) /\ Len(Lexed(f)) \in Nat /\ \A i \in 1..Len(r) : r[i] = Lexed(f)[i]
  BY TokensBehindLines DEF Agrees
<1> HIDE DEF r
<1>3. \A i \in 1..Len(s) : s[i] = Lexed(f)[i]
  <2>1. \A i \in 1..Len(s) : i \in 1..Len(r)
    BY <1>1
  <2> QED BY <1>1, <1>2, <2>1
<1>4. Len(s) <= Len(Lexed(f))
  BY <1>1, <1>2
<1> QED BY <1>3, <1>4 DEF Agrees

LEMMA ShorterErred ==
  ASSUME NEW f \in Files, NEW s \in Seq(Tokens), Erred(f, Append(s, "word"))
  PROVE  Erred(f, s)
<1> DEFINE r == Append(s, "word")
<1>1. "word" \in Tokens
  BY DEF Tokens
<1>2. /\ Len(r) = Len(s) + 1 /\ Len(s) \in Nat /\ r[Len(s) + 1] = "word"
      /\ \A i \in 1..Len(s) : r[i] = s[i]
  BY <1>1, AppendProperties
<1>3. PICK e \in 1..Len(r) : /\ e <= Len(Lexed(f)) /\ Lexed(f)[e] = "ERROR"
                             /\ \A i \in 1..e : r[i] = Lexed(f)[i]
  BY DEF Erred
<1> HIDE DEF r
<1>4. r[e] = "ERROR"
  BY <1>2, <1>3
<1>5. e # Len(s) + 1
  BY <1>2, <1>4
<1>6. e \in 1..Len(s) /\ \A i \in 1..e : i \in 1..Len(s)
  BY <1>2, <1>5
<1>7. \A i \in 1..e : s[i] = Lexed(f)[i]
  BY <1>2, <1>3, <1>6
<1> QED BY <1>3, <1>6, <1>7 DEF Erred

LEMMA FollowingImplies ==
  ASSUME IInv, Following
  PROVE  TokensFollowLines
<1> SUFFICES ASSUME Shallow, LinesEnd(file.lines) PROVE GivenInLanguage
  BY DEF TokensFollowLines
<1>1. /\ file \in Files /\ Emitted \in Seq(Tokens) /\ taken \in Seq(Tokens)
      /\ Lexed(file) \in Seq(Tokens) /\ Len(Lexed(file)) \in Nat
  BY StackInv, EmittedType, TokensBehindLines DEF IInv, LayoutTypeOK
<1>2. Agrees(file, Given) \/ Erred(file, Given)
  <2>1. CASE saved = NotSaved
    <3>1. Given = Emitted
      BY <2>1 DEF Given, Emitted, Before
    <3>2. Agrees(file, Emitted) \/ Erred(file, Emitted)
      <4>1. Emitted = Lexed(file) => Agrees(file, Emitted)
        BY <1>1 DEF Agrees
      <4> QED BY <4>1 DEF Following, EmittedFollows, Tracked
    <3> QED BY <3>1, <3>2
  <2>2. CASE saved # NotSaved
    <3>1. Given = taken
      BY <2>2 DEF Given
    <3>2. Agrees(file, Append(taken, "word")) \/ Erred(file, Append(taken, "word"))
      BY <2>2 DEF Following, SavedFollows, Tracked
    <3>3. "word" \in Tokens
      BY DEF Tokens
    <3> QED BY <1>1, <3>1, <3>2, <3>3, ShorterAgrees, ShorterErred
  <2> QED BY <2>1, <2>2
<1>3. Given \in Seq(Tokens)
  <2>1. token \in Tokens
    BY DEF IInv, LayoutTypeOK
  <2> QED BY <1>1, <2>1 DEF Given
<1> QED BY <1>1, <1>2, <1>3, SaidOfGiven DEF SaidOf, GivenInLanguage

(* For every file whose logical lines have line ends, the parser is given  *)
(* the tokens that the language has for the lines, in their order and      *)
(* without a gap, up to the first line that the language refuses: through  *)
(* brackets, backslashes, comments, blank lines, CRLF, several blocks      *)
(* closed by one line, and look-aheads that go back or on at any word.     *)
THEOREM TokensAlwaysFollowLines == Spec => []TokensFollowLines
<1>1. IInv /\ Following => TokensFollowLines
  BY FollowingImplies
<1>2. Init => IInv /\ Following
  BY InitIInv, InitFollowing
<1>3. IInv /\ Following /\ [Next]_vars => (IInv /\ Following)'
  BY NextIInv, NextFollows
<1> QED BY <1>1, <1>2, <1>3, PTL DEF Spec
=============================================================================
