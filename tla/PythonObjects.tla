---------------------------- MODULE PythonObjects ----------------------------
(***************************************************************************)
(* Classes and instances as Python has them.  A class is made in one step, *)
(* with the order the rules leave; a name that is a slot of a class is a   *)
(* member there.  A property or a member that a class has comes before the *)
(* values of an instance, everything else after them.                      *)
(***************************************************************************)
EXTENDS ObjectRequests, FiniteSetsExt, SequencesExt

CONSTANTS Values, Worlds

VARIABLES world,
          classes,     \* [bases, mro, attrs, slots]
          instances,   \* [type, values]: the values of members and the others
          asked, answer

vars == <<world, classes, instances, asked, answer>>

Names == DOMAIN world.kinds
ClassIds == 1..Len(classes)
InstanceIds == 1..Len(instances)

Init == /\ world \in Worlds
        /\ classes = <<>> /\ instances = <<>>
        /\ asked = Unasked /\ answer = Nothing

-----------------------------------------------------------------------------
(* The order of a class: a class comes before those it inherits from, and  *)
(* these as their orders and the list of bases say.  Where that leaves a   *)
(* choice, next is the one that the earliest of the bases inherits.        *)

Precedes(list, a, b) == \E i, j \in 1..Len(list) : i < j /\ list[i] = a /\ list[j] = b

Inherited(bases) == UNION {ToSet(classes[bases[k]].mro) : k \in 1..Len(bases)}

Must(bases, a, b) ==
  \/ Precedes(bases, a, b)
  \/ \E k \in 1..Len(bases) : Precedes(classes[bases[k]].mro, a, b)

Consistent(bases, order) ==
  \A i, j \in 1..Len(order) : Must(bases, order[i], order[j]) => i < j

Orders(bases) == {order \in SetToSeqs(Inherited(bases)) : Consistent(bases, order)}

(* Those that could come at place n *)
Ready(bases, order, n) ==
  {order[i] : i \in {i \in n..Len(order) :
                       \A j \in n..Len(order) : ~Must(bases, order[j], order[i])}}

FirstHeir(bases, c) == Min({k \in 1..Len(bases) : c \in ToSet(classes[bases[k]].mro)})

Chosen(bases, order) ==
  \A n \in 1..Len(order) : \A c \in Ready(bases, order, n) \ {order[n]} :
    FirstHeir(bases, order[n]) < FirstHeir(bases, c)

DefineClass(bases) ==
  /\ asked' = AskedClass(bases)
  /\ \E order \in Orders(bases), attrs \in Bodies(world) :
       /\ Chosen(bases, order)
       /\ \E slots \in SlotsFor(world, bases, attrs) :
            classes' = Append(classes, [bases |-> bases, mro |-> <<Len(classes) + 1>> \o order,
                                        attrs |-> attrs, slots |-> slots])
  /\ answer' = Done
  /\ UNCHANGED <<world, instances>>

RefuseBases(bases) ==
  /\ asked' = AskedClass(bases)
  /\ Orders(bases) = {}
  /\ answer' = TypeError
  /\ UNCHANGED <<world, classes, instances>>

-----------------------------------------------------------------------------
(* Lookup: the classes of an order that define a name, and what it is in   *)
(* the first of them                                                       *)

DefinesIt(c, n) ==
  n \in DOMAIN classes[c].attrs \/ (classes[c].slots # <<>> /\ n \in classes[c].slots[1])

Found(order, n) == {k \in 1..Len(order) : DefinesIt(order[k], n)}
First(order, n) == order[Min(Found(order, n))]
KindIn(order, n) ==
  IF Found(order, n) = {} THEN "none"
  ELSE IF n \in DOMAIN classes[First(order, n)].attrs THEN classes[First(order, n)].attrs[n]
  ELSE "member"

(* The attribute of an order, asked of instance i of class c *)
OfInstance(order, c, i, n) ==
  LET kind == KindIn(order, n)
      definer == First(order, n)
  IN CASE kind = "none" -> AttributeError
       [] kind = "function" -> Bound(definer, ToInstance(i))
       [] kind = "staticmethod" -> Function(definer)
       [] kind = "classmethod" -> Bound(definer, ToClass(c))
       [] kind = "object" -> Itself(definer)
       [] kind \in Properties -> Called(definer, ToInstance(i))
       [] kind = "member" -> IF n \in DOMAIN instances[i].values
                             THEN Stored(instances[i].values[n]) ELSE AttributeError

OfClass(c, n) ==
  LET order == classes[c].mro
      kind == KindIn(order, n)
      definer == First(order, n)
  IN CASE kind = "none" -> AttributeError
       [] kind = "staticmethod" -> Function(definer)
       [] kind = "classmethod" -> Bound(definer, ToClass(c))
       [] OTHER -> Itself(definer)

OrderOf(i) == classes[instances[i].type].mro
Kind(i, n) == KindIn(OrderOf(i), n)

(* Instances have room for any name if one of their classes has no slots. *)
HasDict(i) == \E k \in 1..Len(OrderOf(i)) : classes[OrderOf(i)[k]].slots = <<>>

-----------------------------------------------------------------------------
(* The operations of a program *)

(* Calling an attribute of instance i of class c *)
CallOf(kind, definer, c, i) ==
  CASE kind = "function" -> Called(definer, ToInstance(i))
    [] kind = "classmethod" -> Called(definer, ToClass(c))
    [] kind = "staticmethod" -> Called(definer, Nobody)
    [] kind = "object" -> TypeError

Call(c) ==
  LET order == classes[c].mro
      kind == KindIn(order, "__init__")
      definer == First(order, "__init__")
      i == Len(instances) + 1
  IN /\ asked' = Asked("call", 0, c, "", 0)
     /\ answer' = IF kind = "none" THEN Done ELSE CallOf(kind, definer, c, i)
     /\ instances' = IF answer' = TypeError THEN instances
                     ELSE Append(instances, [type |-> c, values |-> NoValues])
     /\ UNCHANGED <<world, classes>>

Get(i, n) ==
  /\ asked' = Asked("get", i, 0, n, 0)
  /\ answer' = IF Kind(i, n) \notin Properties \cup {"member"} /\ n \in DOMAIN instances[i].values
               THEN Stored(instances[i].values[n])
               ELSE OfInstance(OrderOf(i), instances[i].type, i, n)
  /\ UNCHANGED <<world, classes, instances>>

(* A property decides what setting and deleting do; a value is stored      *)
(* where there is a member or room for every name.                         *)
ByProperty(i, n) ==
  /\ Kind(i, n) \in Properties
  /\ answer' = IF Kind(i, n) = "settable" THEN Called(First(OrderOf(i), n), ToInstance(i))
               ELSE AttributeError
  /\ UNCHANGED instances

Set(i, n, v) ==
  /\ asked' = Asked("set", i, 0, n, v)
  /\ \/ ByProperty(i, n)
     \/ /\ Kind(i, n) \notin Properties /\ (Kind(i, n) = "member" \/ HasDict(i))
        /\ answer' = Done
        /\ instances' = [instances EXCEPT ![i].values = Store(@, n, v)]
     \/ /\ Kind(i, n) \notin Properties \cup {"member"} /\ ~HasDict(i)
        /\ answer' = AttributeError /\ UNCHANGED instances
  /\ UNCHANGED <<world, classes>>

Delete(i, n) ==
  /\ asked' = Asked("del", i, 0, n, 0)
  /\ \/ ByProperty(i, n)
     \/ /\ Kind(i, n) \notin Properties /\ n \in DOMAIN instances[i].values
        /\ answer' = Done
        /\ instances' = [instances EXCEPT ![i].values = Without(@, n)]
     \/ /\ Kind(i, n) \notin Properties /\ n \notin DOMAIN instances[i].values
        /\ answer' = AttributeError /\ UNCHANGED instances
  /\ UNCHANGED <<world, classes>>

GetOfClass(c, n) ==
  /\ asked' = Asked("class get", 0, c, n, 0)
  /\ answer' = OfClass(c, n)
  /\ UNCHANGED <<world, classes, instances>>

(* super(c, instance i) looks in the order of the instance, behind c, which *)
(* must be in it.                                                           *)
GetBehind(c, i, n) ==
  LET order == OrderOf(i)
  IN /\ asked' = Asked("super", i, c, n, 0)
     /\ \/ ~Contains(order, c) /\ answer' = TypeError
        \/ \E k \in 1..Len(order) :
             /\ order[k] = c
             /\ answer' = OfInstance(SubSeq(order, k + 1, Len(order)), instances[i].type, i, n)
     /\ UNCHANGED <<world, classes, instances>>

(* An operation on an instance asks its class alone for the method. *)
CallSpecial(i, n) ==
  /\ asked' = Asked("special", i, 0, n, 0)
  /\ answer' = IF Kind(i, n) = "none" THEN Default
               ELSE CallOf(Kind(i, n), First(OrderOf(i), n), instances[i].type, i)
  /\ UNCHANGED <<world, classes, instances>>

IsA(i, c) ==
  /\ asked' = Asked("isinstance", i, c, "", 0)
  /\ answer' = Truth(Contains(OrderOf(i), c))
  /\ UNCHANGED <<world, classes, instances>>

Next ==
  \/ \E bases \in BaseLists(world, Len(classes)) : DefineClass(bases) \/ RefuseBases(bases)
  \/ \E c \in ClassIds : Call(c) \/ \E n \in Names : GetOfClass(c, n)
  \/ \E i \in InstanceIds, n \in Names :
       \/ Get(i, n) \/ Delete(i, n) \/ CallSpecial(i, n)
       \/ \E v \in Values : Set(i, n, v)
       \/ \E c \in ClassIds : GetBehind(c, i, n)
  \/ \E i \in InstanceIds, c \in ClassIds : IsA(i, c)

Spec == Init /\ [][Next]_vars
=============================================================================
