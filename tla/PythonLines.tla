------------------------------ MODULE PythonLines ------------------------------
(***************************************************************************)
(* Python's definition of layout: a file as a sequence of lines, and the   *)
(* tokens of its logical lines.  A line is a run of blanks, a body and a   *)
(* line end; the body has the line ends of joined lines inside.  Lines     *)
(* without a body, or with nothing but a comment, count for nothing, and a *)
(* logical line is in the blocks of the earlier lines that nothing less    *)
(* indented, or equally indented, separates from it.                       *)
(***************************************************************************)
EXTENDS Integers, SequencesExt, FiniteSetsExt

Blanks == {" ", "\t"}

WordKinds == {"word", "open", "close"}

BodyKinds == WordKinds \cup {"blank", "comment", "backslash", "nl", "cr"}

Lines == [run : Seq(Blanks), body : Seq(BodyKinds), end : {"lf", "crlf", "none"}]

Line(run, body, end) == [run |-> run, body |-> body, end |-> end]

EndText(end) ==
  CASE end = "lf" -> <<"nl">> [] end = "crlf" -> <<"cr", "nl">> [] end = "none" -> <<>>

(* The symbols of a line behind its indentation. *)
LineKinds(line) == line.body \o EndText(line.end)

IsLogical(line) == line.body \notin {<<>>, <<"comment">>}

(* The brackets that are open behind the first symbols of a line. *)
Depths(kinds) ==
  LET depth[n \in 0..Len(kinds)] ==
        CASE n = 0 -> 0
          [] n > 0 /\ kinds[n] = "open" -> depth[n - 1] + 1
          [] n > 0 /\ kinds[n] = "close" /\ depth[n - 1] > 0 -> depth[n - 1] - 1
          [] OTHER -> depth[n - 1]
  IN depth

(* A line goes on behind a line end in brackets or behind a backslash, and *)
(* ends with its brackets closed; a comment goes up to a line end.         *)
JoinedAt(kinds, i) ==
  \/ Depths(kinds)[i - 1] > 0
  \/ i > 1 /\ kinds[i - 1] = "backslash" /\ kinds[i] = "nl"

IsBody(line) ==
  LET kinds == LineKinds(line)
      size == Len(line.body)
  IN /\ kinds[1] \in WordKinds
     /\ Depths(kinds)[size] = 0
     /\ \A i \in 1..size : kinds[i] \in {"nl", "cr"} => JoinedAt(kinds, i)
     /\ \A i \in 1..size : kinds[i] = "cr" => i < size /\ kinds[i + 1] = "nl"
     /\ \A i \in 1..size : kinds[i] = "backslash" => i < size /\ kinds[i + 1] = "nl"
     /\ \A i \in 1..size : kinds[i] = "comment" =>
          i = Len(kinds) \/ kinds[i + 1] \in {"nl", "cr"}

(* Only the last line may lack its end. *)
IsFile(lines) ==
  /\ lines \in Seq(Lines)
  /\ \A k \in 1..Len(lines) : /\ IsLogical(lines[k]) => IsBody(lines[k])
                              /\ lines[k].end = "none" => k = Len(lines)

-----------------------------------------------------------------------------
Blank(run) == IF run = <<>> THEN <<>> ELSE <<[kind |-> "blank", run |-> run]>>

Syms(kinds) == [i \in 1..Len(kinds) |-> [kind |-> kinds[i], run |-> <<>>]]

LineText(line) == Blank(line.run) \o Syms(LineKinds(line))

Text(lines) == FlattenSeq([k \in 1..Len(lines) |-> LineText(lines[k])])

-----------------------------------------------------------------------------
(* Tabs go to multiples of 8. *)
Columns(run) ==
  LET W[n \in 0..Len(run)] ==
        IF n = 0 THEN 0
        ELSE IF run[n] = " " THEN W[n - 1] + 1
        ELSE CHOOSE w \in (W[n - 1] + 1)..(W[n - 1] + 8) : w % 8 = 0
  IN W

Width(run) == Columns(run)[Len(run)]

(* Line 0 is an imaginary line that is not indented. *)
Indentation(lines, k) == IF k = 0 THEN 0 ELSE Width(lines[k].run)

Counting(lines, k) == {0} \cup {j \in 1..k : IsLogical(lines[j])}

(* The last lines of the blocks behind line k, *)
LastOfBlocks(lines, k) ==
  {j \in Counting(lines, k) :
     \A i \in Counting(lines, k) : i > j => Indentation(lines, i) > Indentation(lines, j)}

(* and the blocks by their indentation. *)
Blocks(lines, k) == {Indentation(lines, j) : j \in LastOfBlocks(lines, k)}

IsConsistent(lines, k) ==
  \/ Indentation(lines, k) \in Blocks(lines, k - 1)
  \/ \A b \in Blocks(lines, k - 1) : b < Indentation(lines, k)

(* The worth of a tab decides where line k belongs: whether it is indented *)
(* more or less than a block depends on tabs going to multiples of 8 or    *)
(* being one column wide.                                                  *)
Length(lines, k) == IF k = 0 THEN 0 ELSE Len(lines[k].run)

DependsOnTabs(lines, k) ==
  \E j \in LastOfBlocks(lines, k - 1) :
    ~ /\ Indentation(lines, k) < Indentation(lines, j) <=> Length(lines, k) < Length(lines, j)
      /\ Indentation(lines, k) > Indentation(lines, j) <=> Length(lines, k) > Length(lines, j)

Times(token, n) == [i \in 1..n |-> token]

(* A token for each block that line k opens, or closes. *)
BlockTokens(lines, k) ==
  IF ~IsConsistent(lines, k) THEN <<"ERROR">>
  ELSE IF DependsOnTabs(lines, k) THEN <<"TabError">>
  ELSE Times("INDENT", Cardinality(Blocks(lines, k) \ Blocks(lines, k - 1)))
         \o Times("DEDENT", Cardinality(Blocks(lines, k - 1) \ Blocks(lines, k)))

Words(kinds) ==
  FlattenSeq([i \in 1..Len(kinds) |-> IF kinds[i] \in WordKinds THEN <<kinds[i]>> ELSE <<>>])

(* The end of the file ends a logical line like a line end does. *)
LineTokens(lines, k) ==
  IF ~IsLogical(lines[k]) THEN <<>>
  ELSE BlockTokens(lines, k) \o Words(LineKinds(lines[k])) \o <<"NEWLINE">>

EndTokens(lines) ==
  Times("DEDENT", Cardinality(Blocks(lines, Len(lines)) \ {0})) \o <<"EOF">>

FileTokens(lines) ==
  FlattenSeq([k \in 1..Len(lines) |-> LineTokens(lines, k)]) \o EndTokens(lines)
=============================================================================
