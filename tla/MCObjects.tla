------------------------------ MODULE MCObjects ------------------------------
(* Worlds, each with its own question                                      *)
EXTENDS Objects

(* The orders of hierarchies of five classes with up to two bases, and of  *)
(* four with up to three; which of them a class inherits from              *)
Orderings ==
  [max_classes |-> 5, max_bases |-> 2, max_instances |-> 0,
   kinds |-> [n \in {} |-> {}], slots |-> {<<>>}, slots_below |-> FALSE, operations |-> {},
   foreign_super |-> FALSE]
WideOrderings == [Orderings EXCEPT !.max_classes = 4, !.max_bases = 3]
Hierarchies ==
  [Orderings EXCEPT !.max_classes = 4, !.max_instances = 1, !.operations = {"call", "isinstance"}]

(* Every kind of attribute, by an instance and by a class *)
Descriptors ==
  [max_classes |-> 3, max_bases |-> 1, max_instances |-> 1,
   kinds |-> [n \in {"m"} |-> Kinds \cup {"none"}], slots |-> {<<>>}, slots_below |-> FALSE,
   operations |-> {"call", "get", "set", "del"}, foreign_super |-> FALSE]
ClassAttributes ==
  [Descriptors EXCEPT !.max_bases = 2, !.max_instances = 0, !.operations = {"class get"}]

(* Slots, none to all of the names *)
Slots ==
  [max_classes |-> 2, max_bases |-> 1, max_instances |-> 1,
   kinds |-> [n \in {"m", "n"} |-> IF n = "m" THEN {"function", "settable", "none"}
                                ELSE {"object", "none"}],
   slots |-> {<<>>, <<{}>>, <<{"m"}>>, <<{"m", "n"}>>},
   slots_below |-> FALSE,
   operations |-> {"call", "get", "set", "del"}, foreign_super |-> FALSE]

(* Methods of the classes above, where each class has at most one base *)
Chains ==
  [max_classes |-> 3, max_bases |-> 1, max_instances |-> 1,
   kinds |-> [n \in {"m"} |-> {"function", "object", "none"}], slots |-> {<<>>}, slots_below |-> FALSE,
   operations |-> {"call", "super", "set"}, foreign_super |-> FALSE]

(* Methods that operations call, whatever the instance holds *)
Specials ==
  [max_classes |-> 3, max_bases |-> 2, max_instances |-> 1,
   kinds |-> [n \in {"__len__"} |-> {"function", "none"}], slots |-> {<<>>}, slots_below |-> FALSE,
   operations |-> {"call", "special", "set"}, foreign_super |-> FALSE]

(* What __init__ can be *)
Constructors ==
  [max_classes |-> 3, max_bases |-> 2, max_instances |-> 2,
   kinds |-> [n \in {"__init__"} |-> {"function", "object", "none"}],
   slots |-> {<<>>}, slots_below |-> FALSE, operations |-> {"call"}, foreign_super |-> FALSE]

MCWorlds ==
  {Orderings, WideOrderings, Hierarchies, Descriptors, ClassAttributes, Slots, Chains, Specials,
   Constructors}

(* Worlds in which the compiled program does not act as Python; ActsAsPython *)
(* is violated in each.                                                      *)
OtherWorlds ==
  [super_in_diamond |-> [Chains EXCEPT !.max_classes = 4, !.max_bases = 2],
   super_of_another |-> [Chains EXCEPT !.foreign_super = TRUE],
   super_static |-> [Chains EXCEPT !.kinds = [n \in {"m"} |-> {"staticmethod"}]],
   super_class |-> [Chains EXCEPT !.kinds = [n \in {"m"} |-> {"classmethod"}]],
   super_property |-> [Chains EXCEPT !.kinds = [n \in {"m"} |-> {"property"}]],
   static_special |-> [Specials EXCEPT !.kinds = [n \in {"__len__"} |-> {"staticmethod"}]],
   class_special |-> [Specials EXCEPT !.kinds = [n \in {"__len__"} |-> {"classmethod"}]],
   object_special |-> [Specials EXCEPT !.kinds = [n \in {"__len__"} |-> {"object"}]],
   static_init |-> [Constructors EXCEPT !.kinds = [n \in {"__init__"} |-> {"staticmethod"}]],
   class_init |-> [Constructors EXCEPT !.kinds = [n \in {"__init__"} |-> {"classmethod"}]],
   slots_of_class |-> [Slots EXCEPT !.operations = {"class get"}],
   slots_and_bases |-> [Slots EXCEPT !.slots_below = TRUE],
   slots_of_one_base |-> [Slots EXCEPT !.max_classes = 3, !.max_bases = 2]]

ASSUME MCWorldsAssumption ==
  /\ \A w \in MCWorlds : Alike(w)
  /\ \A name \in DOMAIN OtherWorlds : ~Alike(OtherWorlds[name])
=============================================================================
