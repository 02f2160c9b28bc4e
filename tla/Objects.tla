------------------------------- MODULE Objects -------------------------------
(***************************************************************************)
(* Classes and instances of a compiled program at run time: $Cls, $Inst,   *)
(* $Prop, $SM, $CM, $BM and $Super of src/runtime/src.                     *)
(*                                                                         *)
(* A class is numbered in the order of creation.  Its method resolution    *)
(* order is merged from those of its bases, one step for each turn of the  *)
(* loop of computeMRO.  After that its attributes are set once: a class    *)
(* is not bound to a name before its body is done, and $Cls has no         *)
(* __setattr__.  An attribute is known by its kind and by the class that   *)
(* defines it.                                                             *)
(***************************************************************************)
EXTENDS ObjectRequests

CONSTANTS Values,   \* what a program stores in instances
          Worlds    \* what a program can do

ASSUME ObjectsAssumption ==
  /\ Values \subseteq Int
  /\ \A w \in Worlds : IsWorld(w)

VARIABLES world,
          classes,     \* the classes: [bases, mro, attrs, slots]
          making,      \* the classes in the making, none or one: [bases, lists, result]
          instances,   \* the instances: [type, attrs, slotValues]
          asked,       \* the last operation: [op, instance, class, name, value, bases]
          answer       \* what came of it: [is, of, to]

vars == <<world, classes, making, instances, asked, answer>>

Names == DOMAIN world.kinds
ClassIds == 1..Len(classes)
InstanceIds == 1..Len(instances)

Init == /\ world \in Worlds
        /\ classes = <<>> /\ making = <<>> /\ instances = <<>>
        /\ asked = Unasked /\ answer = Nothing

-----------------------------------------------------------------------------
(* Creating a class.  The lists are those of the bases and, last, the      *)
(* bases themselves; an empty one is passed over, which the code does by   *)
(* taking it out.                                                          *)

Tails(list) == {list[i] : i \in 2..Len(list)}
InTailOfBases(lists, c) == \E k \in 1..(Len(lists) - 1) : c \in Tails(lists[k])
InTail(lists, c) == \E k \in 1..Len(lists) : c \in Tails(lists[k])

GoodHead(lists, k) == lists[k] # <<>> /\ ~InTail(lists, Head(lists[k]))
GoodHeads(lists) == {k \in 1..Len(lists) : GoodHead(lists, k)}
FirstOf(S) == CHOOSE k \in S : \A j \in S : k <= j
LastCandidate(lists) ==
  Head(lists[CHOOSE k \in GoodHeads(lists) : \A j \in GoodHeads(lists) : j <= k])
Candidate(lists) == Head(lists[FirstOf(GoodHeads(lists))])

Merged(lists) == \A k \in 1..Len(lists) : lists[k] = <<>>

(* A candidate is in no tail, so that it can only be removed from heads.   *)
Remove(lists, c) ==
  [k \in 1..Len(lists) |->
     IF lists[k] # <<>> /\ Head(lists[k]) = c THEN Tail(lists[k]) ELSE lists[k]]

ToMerge(bases) == Append([k \in 1..Len(bases) |-> classes[bases[k]].mro], bases)

(* $Cls.of, with more bases than max_bases left out *)
NewClass(bases) ==
  /\ making = <<>> /\ Len(classes) < world.max_classes
  /\ making' = <<[bases |-> bases, lists |-> ToMerge(bases),
                  result |-> <<Len(classes) + 1>>]>>
  /\ UNCHANGED <<world, classes, instances, asked, answer>>

TakeHead ==
  /\ making # <<>>
  /\ LET m == making[1]
         candidate == Candidate(m.lists)
     IN /\ GoodHeads(m.lists) # {}
        /\ making' = <<[bases |-> m.bases, lists |-> Remove(m.lists, candidate),
                        result |-> Append(m.result, candidate)]>>
  /\ UNCHANGED <<world, classes, instances, asked, answer>>

NoneRefused ==
  /\ making # <<>> /\ ~Merged(making[1].lists) /\ GoodHeads(making[1].lists) = {}
  /\ UNCHANGED vars

RefuseClass ==
  /\ making # <<>>
  /\ ~Merged(making[1].lists) /\ GoodHeads(making[1].lists) = {}
  /\ making' = <<>>
  /\ asked' = AskedClass(making[1].bases) /\ answer' = TypeError
  /\ UNCHANGED <<world, classes, instances>>

(* The order is complete; then the body sets attributes and __slots__. *)
FinishClass(attrs, slots) ==
  /\ making # <<>>
  /\ Merged(making[1].lists)
  /\ slots \in SlotsFor(world, making[1].bases, attrs)
  /\ classes' = Append(classes, [bases |-> making[1].bases, mro |-> making[1].result,
                                 attrs |-> attrs, slots |-> slots])
  /\ making' = <<>>
  /\ asked' = AskedClass(making[1].bases) /\ answer' = Done
  /\ UNCHANGED <<world, instances>>

-----------------------------------------------------------------------------
(* Attributes of a class *)

hasAttr(c, n) ==
  \E i \in 1..Len(classes[c].mro) : n \in DOMAIN classes[classes[c].mro[i]].attrs

(* The first class of the order that has the attribute *)
Definer(c, n) ==
  LET mro == classes[c].mro
  IN mro[FirstOf({i \in 1..Len(mro) : n \in DOMAIN classes[mro[i]].attrs})]

getRawAttr(c, n) == classes[Definer(c, n)].attrs[n]

getAttr(c, n) ==
  CASE ~hasAttr(c, n) -> AttributeError
    [] hasAttr(c, n) /\ getRawAttr(c, n) = "staticmethod" -> Function(Definer(c, n))
    [] hasAttr(c, n) /\ getRawAttr(c, n) = "classmethod" -> Bound(Definer(c, n), ToClass(c))
    [] OTHER -> Itself(Definer(c, n))

hasSlots(c) == classes[c].slots # <<>>
isSlot(c, n) == hasSlots(c) /\ n \in classes[c].slots[1]

(* isinstance walks the bases. *)
isSubclass(sub, sup) ==
  LET below[c \in ClassIds] ==
        c = sup \/ \E k \in 1..Len(classes[c].bases) : below[classes[c].bases[k]]
  IN below[sub]

-----------------------------------------------------------------------------
(* Attributes of an instance.  attrs is not used where there are slots,    *)
(* and slotValues has the slots that are not null.                         *)

isOwnProperty(c, n) == n \in DOMAIN classes[c].attrs /\ classes[c].attrs[n] \in Properties
isProperty(c, n) == hasAttr(c, n) /\ getRawAttr(c, n) \in Properties

(* What the class has to say of an attribute of one of its instances *)
FromClass(i, n) ==
  LET c == instances[i].type
      definer == Definer(c, n)
      raw == getRawAttr(c, n)
  IN IF ~hasAttr(c, n) THEN AttributeError
     ELSE CASE raw \in Properties -> Called(definer, ToInstance(i))
            [] raw = "staticmethod" -> Function(definer)
            [] raw = "classmethod" -> Bound(definer, ToClass(c))
            [] raw = "function" -> Bound(definer, ToInstance(i))
            [] OTHER -> Itself(definer)

getattr(i, n) ==
  LET inst == instances[i]
  IN IF isSlot(inst.type, n)
     THEN IF n \in DOMAIN inst.slotValues THEN Stored(inst.slotValues[n]) ELSE AttributeError
     ELSE IF n \in DOMAIN inst.attrs THEN Stored(inst.attrs[n]) ELSE FromClass(i, n)

(* A property is called, or refuses if it has no function for that. *)
ByProperty(i, n) ==
  LET c == instances[i].type
  IN IF getRawAttr(c, n) = "settable" THEN Called(Definer(c, n), ToInstance(i))
     ELSE AttributeError

(* $Super.__getattr__: the bases of c one after the other *)
superAttr(c, i, n) ==
  LET bases == classes[c].bases
      having == {k \in 1..Len(bases) : hasAttr(bases[k], n)}
      base == bases[FirstOf(having)]
      attr == getAttr(base, n)
  IN IF having = {} THEN AttributeError
     ELSE IF attr.is = "function" \/ (attr.is = "itself" /\ getRawAttr(base, n) = "function")
          THEN Bound(attr.of, ToInstance(i)) ELSE attr

(* A method that an operation calls by its name, len and == for example. A *)
(* static method is unwrapped by getAttr and gets the instance all the     *)
(* same.                                                                   *)
special(i, n) ==
  LET c == instances[i].type
  IN IF hasAttr(c, n) /\ getRawAttr(c, n) \in {"function", "staticmethod"}
     THEN Called(Definer(c, n), ToInstance(i)) ELSE Default

(* $Cls.__call__ with instance i, which the program gets unless __init__   *)
(* cannot be called.  The instance goes before the arguments of whatever   *)
(* getAttr finds, and a bound class method puts the class before these.    *)
construct(c, i) ==
  LET n == "__init__"
  IN IF ~hasAttr(c, n) THEN Done
     ELSE CASE getRawAttr(c, n) \in {"function", "staticmethod"} -> Called(Definer(c, n), ToInstance(i))
            [] getRawAttr(c, n) = "classmethod" -> Called(Definer(c, n), ToClassAndInstance(c, i))
            [] OTHER -> TypeError

-----------------------------------------------------------------------------
(* The operations of a program *)

Ask(request) == making = <<>> /\ request.op \in world.operations /\ asked' = request

NewInstance(c) ==
  /\ Ask(Asked("call", 0, c, "", 0)) /\ Len(instances) < world.max_instances
  /\ answer' = construct(c, Len(instances) + 1)
  /\ instances' = IF answer' = TypeError THEN instances
                  ELSE Append(instances, [type |-> c, attrs |-> NoValues, slotValues |-> NoValues])
  /\ UNCHANGED <<world, classes, making>>

GetAttr(i, n) ==
  /\ Ask(Asked("get", i, 0, n, 0))
  /\ answer' = getattr(i, n)
  /\ UNCHANGED <<world, classes, making, instances>>

SetAttr(i, n, v) ==
  LET c == instances[i].type
      kept == IF hasSlots(c) THEN "slotValues" ELSE "attrs"
  IN /\ Ask(Asked("set", i, 0, n, v))
     /\ IF isProperty(c, n) THEN answer' = ByProperty(i, n) /\ UNCHANGED instances
        ELSE IF hasSlots(c) /\ ~isSlot(c, n)
        THEN answer' = AttributeError /\ UNCHANGED instances
        ELSE /\ answer' = Done
             /\ instances' = [instances EXCEPT ![i][kept] = Store(@, n, v)]
     /\ UNCHANGED <<world, classes, making>>

DelAttr(i, n) ==
  LET c == instances[i].type
      kept == IF hasSlots(c) THEN "slotValues" ELSE "attrs"
  IN /\ Ask(Asked("del", i, 0, n, 0))
     /\ IF isProperty(c, n) THEN answer' = ByProperty(i, n) /\ UNCHANGED instances
        ELSE IF n \notin DOMAIN instances[i][kept]
        THEN answer' = AttributeError /\ UNCHANGED instances
        ELSE /\ answer' = Done
             /\ instances' = [instances EXCEPT ![i][kept] = Without(@, n)]
     /\ UNCHANGED <<world, classes, making>>

GetClassAttr(c, n) ==
  /\ Ask(Asked("class get", 0, c, n, 0))
  /\ answer' = getAttr(c, n)
  /\ UNCHANGED <<world, classes, making, instances>>

(* $G.SUPER takes any class.  *)
GetSuperAttr(c, i, n) ==
  /\ Ask(Asked("super", i, c, n, 0))
  /\ isSubclass(instances[i].type, c) \/ world.foreign_super
  /\ answer' = superAttr(c, i, n)
  /\ UNCHANGED <<world, classes, making, instances>>

Special(i, n) ==
  /\ Ask(Asked("special", i, 0, n, 0))
  /\ answer' = special(i, n)
  /\ UNCHANGED <<world, classes, making, instances>>

IsInstance(i, c) ==
  /\ Ask(Asked("isinstance", i, c, "", 0))
  /\ answer' = Truth(isSubclass(instances[i].type, c))
  /\ UNCHANGED <<world, classes, making, instances>>

-----------------------------------------------------------------------------
MakeClass ==
  \/ TakeHead
  \/ RefuseClass
  \/ \E attrs \in Bodies(world), slots \in world.slots : FinishClass(attrs, slots)

Operate ==
  \/ \E c \in ClassIds : NewInstance(c)
  \/ \E i \in InstanceIds, n \in Names :
       \/ GetAttr(i, n) \/ DelAttr(i, n) \/ Special(i, n)
       \/ \E v \in Values : SetAttr(i, n, v)
       \/ \E c \in ClassIds : GetSuperAttr(c, i, n)
  \/ \E c \in ClassIds, n \in Names : GetClassAttr(c, n)
  \/ \E i \in InstanceIds, c \in ClassIds : IsInstance(i, c)

Next ==
  \/ \E bases \in BaseLists(world, Len(classes)) : NewClass(bases)
  \/ MakeClass
  \/ Operate

Spec == Init /\ [][Next]_vars /\ WF_vars(MakeClass)

-----------------------------------------------------------------------------
Partial(S) == UNION {[names -> S] : names \in SUBSET Names}

(* Classes have bases that were made before them, and attributes and slots *)
(* that the program gives them; instances have a class that exists, and    *)
(* values for names the program uses.                                      *)
ObjectsTypeOK ==
  /\ world \in Worlds
  /\ \A c \in ClassIds :
       /\ classes[c].attrs \in Bodies(world)
       /\ classes[c].slots \in SlotsFor(world, classes[c].bases, classes[c].attrs)
       /\ \A k \in 1..Len(classes[c].bases) : classes[c].bases[k] \in 1..(c - 1)
  /\ Len(making) \in {0, 1}
  /\ \A i \in InstanceIds :
       instances[i] \in [type : ClassIds, attrs : Partial(Values), slotValues : Partial(Values)]

RangeOf(list) == {list[i] : i \in 1..Len(list)}
Before(list, a, b) == \E i, j \in 1..Len(list) : i < j /\ list[i] = a /\ list[j] = b

LinearOrder(c, mro, lists) ==
  /\ mro[1] = c
  /\ RangeOf(mro) = {c} \cup UNION {RangeOf(lists[k]) : k \in 1..Len(lists)}
  /\ \A a, b \in 1..c : ~(Before(mro, a, b) /\ Before(mro, b, a))
  /\ \A k \in 1..Len(lists) : \A a, b \in 1..c : Before(lists[k], a, b) => Before(mro, a, b)

(* The order of a class begins with it, has every class it inherits from   *)
(* once and no other, and keeps the order of its bases and of theirs: all  *)
(* lookups of attributes walk it ($Cls.computeMRO).                        *)
LinearOrders ==
  \A c \in ClassIds : LinearOrder(c, classes[c].mro, ToMerge(classes[c].bases))

(* No instance holds a value under the name of a property of its class:    *)
(* $Inst.__getattr__ looks among the values first, where Python asks the   *)
(* property first, and this is why the program cannot tell.                *)
PropertiesUncovered ==
  \A i \in InstanceIds, n \in Names :
    (hasAttr(instances[i].type, n) /\ getRawAttr(instances[i].type, n) \in Properties) =>
      n \notin DOMAIN instances[i].attrs \cup DOMAIN instances[i].slotValues

Python == INSTANCE PythonObjects WITH
  instances <- [i \in InstanceIds |->
                  [type |-> instances[i].type,
                   values |-> [n \in DOMAIN instances[i].attrs \cup DOMAIN instances[i].slotValues |->
                                 IF n \in DOMAIN instances[i].attrs THEN instances[i].attrs[n]
                                 ELSE instances[i].slotValues[n]]]]

(* The worlds in which the two can be compared: a class with slots has no  *)
(* bases and no class two of them, no other operation asks for a slot, and *)
(* what operations look for on their own are methods, super and __init__   *)
(* may find plain objects too; super is of a class of the instance.        *)
OnlyKinds(w, n, kinds) == n \in DOMAIN w.kinds => w.kinds[n] \subseteq kinds \cup {"none"}

SlotsAlike(w) ==
  \/ w.slots \subseteq {<<>>}
  \/ /\ ~w.slots_below /\ w.max_bases <= 1
     /\ w.operations \cap {"class get", "super", "special"} = {}
     /\ \A slots \in w.slots \ {<<>>} : "__init__" \notin slots[1]

Alike(w) ==
  /\ SlotsAlike(w)
  /\ "call" \in w.operations => OnlyKinds(w, "__init__", {"function", "object"})
  /\ "special" \in w.operations => \A n \in DOMAIN w.kinds : OnlyKinds(w, n, {"function"})
  /\ "super" \in w.operations =>
       /\ w.max_bases <= 1 /\ ~w.foreign_super
       /\ \A n \in DOMAIN w.kinds : OnlyKinds(w, n, {"function", "object"})

(* Classes are ordered as Python orders them, or refused where it refuses, *)
(* and every operation on classes and instances has the answer and the     *)
(* effect that it has in Python.                                           *)
ActsAsPython == Python!Spec

(* Every class that is begun is made or refused: the merge of the orders   *)
(* comes to an end.                                                        *)
ClassesComeToBe == making # <<>> ~> making = <<>>
=============================================================================
