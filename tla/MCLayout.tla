------------------------------- MODULE MCLayout -------------------------------
EXTENDS LayoutOfLines

Indents == {<<>>, <<" ">>, <<" ", " ">>, <<"\t">>, <<" ", "\t">>}

Statement == <<"word">>
Brackets == <<"open", "nl", "comment", "cr", "nl", "word", "close">>
Continued == <<"word", "backslash", "nl", "word">>
Commented == <<"word", "comment">>

Statements == {Line(run, Statement, "lf") : run \in Indents}

Others ==
  {Line(<<" ">>, Brackets, "lf"), Line(<<>>, Brackets, "crlf"),
   Line(<<" ">>, Continued, "lf"), Line(<<" ", " ">>, Commented, "crlf"),
   Line(<<" ">>, <<"comment">>, "crlf"), Line(<<" ", " ">>, <<>>, "lf"),
   Line(<<>>, <<"word", "blank", "word">>, "crlf"), Line(<<>>, <<"close">>, "lf")}

(* TokensFollowLines says nothing of files whose last statement has no end; *)
(* the other properties do.                                                 *)
LastLines ==
  {Line(<<" ">>, Statement, "none"), Line(<<" ">>, <<"comment">>, "none"),
   Line(<<" ">>, <<>>, "none")}

File(lines) == [lines |-> lines, text |-> Text(lines), tokens |-> FileTokens(lines)]

ManyLines ==
  {<<a, b, c, d>> : a \in Statements, b \in Statements, c \in Statements, d \in Statements}
  \cup {<<a, b, c>> : a \in Statements, b \in Others, c \in Statements \cup Others}
  \cup {<<a, b, c>> : a \in Statements, b \in Others \cup Statements, c \in LastLines}

MCFiles == {File(lines) : lines \in ManyLines}

CRLFFiles ==
  {File(<<a, Line(run, <<>>, "crlf"), a>>) : a \in Statements, run \in {<<>>, <<" ">>}}
=============================================================================
