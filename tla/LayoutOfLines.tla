---------------------------- MODULE LayoutOfLines ----------------------------
(***************************************************************************)
(* The lexer on files of lines, and what it owes to the definition of the  *)
(* language: the tokens of the lines.                                      *)
(***************************************************************************)
EXTENDS Layout, PythonLines

ASSUME LinesAssumption ==
  \A f \in Files : /\ IsFile(f.lines)
                   /\ f.text = Text(f.lines)
                   /\ f.tokens = FileTokens(f.lines)

(* What the parser has been given, without what a look-ahead has not       *)
(* decided about.                                                          *)
Given == IF scanning \/ saved # NotSaved THEN taken ELSE Append(taken, token)

(* They are those of the language up to its first error, an inconsistent   *)
(* line, which the lexer reports too, or one that it does not report.      *)
GivenInLanguage ==
  \/ IsPrefix(Given, file.tokens)
  \/ \E e \in DOMAIN file.tokens :
       \/ file.tokens[e] = "ERROR" /\ IsPrefix(SubSeq(file.tokens, 1, e), Given)
       \/ file.tokens[e] = "TabError" /\ IsPrefix(SubSeq(file.tokens, 1, e - 1), Given)

(* Where each logical line has a line end, the parser gets the tokens of   *)
(* the lines: joined lines are one line, blank lines and comments none,    *)
(* tabs go to multiples of 8, and a look-ahead changes nothing of what     *)
(* follows.  Behind a last logical line without one the language has a     *)
(* NEWLINE that the code does not give (lexer.c:769).                      *)
LinesEnd(lines) == \A k \in 1..Len(lines) : IsLogical(lines[k]) => lines[k].end # "none"

TokensFollowLines == Shallow /\ LinesEnd(file.lines) => GivenInLanguage
=============================================================================
