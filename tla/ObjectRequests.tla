---------------------------- MODULE ObjectRequests ----------------------------
(***************************************************************************)
(* What a program does with classes and instances, and the answers it      *)
(* gets.  An attribute is known by its kind and by the class that defines  *)
(* it, a stored value by itself.                                           *)
(***************************************************************************)
EXTENDS Integers, Sequences

Properties == {"property", "settable"}   \* the second with setter and deleter
Kinds == Properties \cup {"function", "staticmethod", "classmethod", "object"}

(* A world bounds what a program does: [max_classes, max_bases,            *)
(* max_instances, kinds: the kinds of attribute for each name, or "none",  *)
(* slots: the possible __slots__, slots_below: of classes with bases too,  *)
(* operations, foreign_super: of a class that the instance is not of].     *)
IsWorld(w) ==
  /\ {w.max_classes, w.max_bases, w.max_instances} \subseteq Nat
  /\ \A n \in DOMAIN w.kinds : w.kinds[n] \subseteq Kinds \cup {"none"}
  /\ w.slots_below \in BOOLEAN /\ w.foreign_super \in BOOLEAN
  /\ w.slots \subseteq {<<>>} \cup {<<names>> : names \in SUBSET DOMAIN w.kinds}

BaseLists(w, made) == UNION {[1..k -> 1..made] : k \in 0..w.max_bases}

(* What the body of a class can define *)
Bodies(w) ==
  {attrs \in UNION {[names -> Kinds] : names \in SUBSET DOMAIN w.kinds} :
     \A n \in DOMAIN w.kinds :
       (IF n \in DOMAIN attrs THEN attrs[n] ELSE "none") \in w.kinds[n]}

(* A name is a slot of a class or an attribute of it, not both. *)
SlotsFor(w, bases, attrs) ==
  {slots \in w.slots :
     slots = <<>> \/ ((bases = <<>> \/ w.slots_below) /\ slots[1] \cap DOMAIN attrs = {})}

Asked(op, i, c, n, v) ==
  [op |-> op, instance |-> i, class |-> c, name |-> n, value |-> v, bases |-> <<>>]
AskedClass(bases) == [Asked("class", 0, 0, "", 0) EXCEPT !.bases = bases]
Unasked == Asked("", 0, 0, "", 0)

(* of is a stored value, or the class that defines an attribute; to is the *)
(* object that a function is bound to or called with.                      *)
Nobody == <<>>
ToInstance(i) == <<"instance", i>>
ToClass(c) == <<"class", c>>
ToClassAndInstance(c, i) == <<"class", c, "instance", i>>

Answer(is, of, to) == [is |-> is, of |-> of, to |-> to]
Nothing == Answer("nothing", 0, Nobody)
AttributeError == Answer("AttributeError", 0, Nobody)
TypeError == Answer("TypeError", 0, Nobody)
Done == Answer("done", 0, Nobody)
Default == Answer("default", 0, Nobody)
Truth(b) == Answer("truth", IF b THEN 1 ELSE 0, Nobody)
Stored(v) == Answer("stored", v, Nobody)
Itself(c) == Answer("itself", c, Nobody)
Function(c) == Answer("function", c, Nobody)
Bound(c, to) == Answer("bound", c, to)
Called(c, to) == Answer("called", c, to)

(* Values under names *)
NoValues == [n \in {} |-> 0]
Store(values, n, v) == [m \in DOMAIN values \cup {n} |-> IF m = n THEN v ELSE values[m]]
LeaveZero(values, n) == [values EXCEPT ![n] = 0]
Without(values, n) == [m \in DOMAIN values \ {n} |-> values[m]]
=============================================================================
