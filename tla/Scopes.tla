------------------------------- MODULE Scopes -------------------------------
(***************************************************************************)
(* What src/src/codegen.c finds out about a function before it generates   *)
(* code for it: the names it captures from the contexts around it, and     *)
(* whether it is a generator function.  Both look into some expressions    *)
(* and statements only.                                                    *)
(*                                                                         *)
(* Parameters are a record [posonlyargs, args, vararg, kwonlyargs, kwarg]  *)
(* of sequences of names (vararg and kwarg: one or none) with the          *)
(* expressions defaults, aligned with the end of args, and kw_defaults,    *)
(* one sequence for each of kwonlyargs: its default, or empty.             *)
(***************************************************************************)
EXTENDS Emission

ParameterNames(params) ==
  params.posonlyargs \o params.args \o params.vararg \o params.kwonlyargs \o params.kwarg

count_parameters(params) == Len(ParameterNames(params))

(* Only assignments at the top of the body make a name local. *)
is_param_or_local_def(params, body, name) ==
  \/ name \in Range(ParameterNames(params))
  \/ \E i \in 1..Len(body) :
       /\ body[i].k = "assign"
       /\ \E j \in 1..Len(body[i].targets) : body[i].targets[j] = [k |-> "name", id |-> name]

find_in_parent(c, name) == HasLocal(c, name) \/ name \in c.enclosing

(* The parts both searches go into, and the ones only the first does.      *)
Operands(e) ==
  CASE e.k = "bin_op" -> <<e.left, e.right>>
    [] e.k \in {"unary_op", "attribute"} -> <<e.value>>
    [] e.k = "compare" -> <<e.left>> \o e.comparators
    [] e.k = "call" -> <<e.func>> \o e.args
    [] e.k = "subscript" -> <<e.value, e.slice>>
    [] e.k = "if_exp" -> <<e.test, e.body, e.orelse>>
    [] OTHER -> <<>>

Elements(e) ==
  CASE e.k = "display" -> e.elts [] e.k = "dict" -> e.keys \o e.values [] OTHER -> <<>>

RECURSIVE collect_names(_, _), collect_names_from_stmt(_, _)

(* The names e refers to, each once, in the order in which they are met *)
collect_names(names, e) ==
  IF e.k # "name" THEN FoldLeft(collect_names, names, Operands(e) \o Elements(e))
  ELSE IF e.id \in Range(names) THEN names ELSE Append(names, e.id)

collect_names_from_stmts(names, ss) == FoldLeft(collect_names_from_stmt, names, ss)

collect_names_from_stmt(names, s) ==
  CASE s.k \in {"expr", "assign", "return"} -> collect_names(names, s.value)
    [] s.k = "aug_assign" -> collect_names(collect_names(names, s.target), s.value)
    [] s.k = "if" -> collect_names_from_stmts(collect_names(names, s.test), s.body \o s.orelse)
    [] s.k = "while" -> collect_names_from_stmts(collect_names(names, s.test), s.body)
    [] s.k = "for" -> collect_names_from_stmts(collect_names(names, s.iter), s.body)
    [] OTHER -> names

(* Variant: global names are captured too. *)
CapturesGlobals(c, params, body) ==
  SelectSeq(collect_names_from_stmts(<<>>, body),
            LAMBDA n : ~is_param_or_local_def(params, body, n))

collect_free_vars(c, params, body) ==
  SelectSeq(collect_names_from_stmts(<<>>, body),
            LAMBDA n : ~is_param_or_local_def(params, body, n) /\ find_in_parent(c, n))

collect_free_vars_from_expr(c, params, body) ==
  SelectSeq(collect_names(<<>>, body),
            LAMBDA n : n \notin Range(params.args) /\ find_in_parent(c, n))

-----------------------------------------------------------------------------
RECURSIVE contains_yield_expr(_), contains_yield_stmts(_)

contains_yield_expr(e) ==
  \/ e.k \in {"yield", "yield_from"}
  \/ \E i \in 1..Len(Operands(e)) : contains_yield_expr(Operands(e)[i])

contains_yield_stmt(s) ==
  CASE s.k \in {"expr", "assign", "aug_assign", "return"} -> contains_yield_expr(s.value)
    [] s.k \in {"if", "while"} -> \/ contains_yield_expr(s.test)
                                  \/ contains_yield_stmts(s.body \o s.orelse)
    [] s.k = "for" -> contains_yield_expr(s.iter) \/ contains_yield_stmts(s.body \o s.orelse)
    [] s.k = "try" -> \/ contains_yield_stmts(s.body \o s.orelse \o s.finalbody)
                      \/ \E i \in 1..Len(s.handlers) : contains_yield_stmts(s.handlers[i].body)
    [] s.k = "with" -> contains_yield_stmts(s.body)
    [] OTHER -> FALSE

contains_yield_stmts(ss) == \E i \in 1..Len(ss) : contains_yield_stmt(ss[i])

is_generator_function(body) == contains_yield_stmts(body)

=============================================================================
