---------------------------- MODULE SchemaProofs ----------------------------
(***************************************************************************)
(* For every configuration: the walk of the relationships never goes round *)
(* in a cycle, and NewSchema accepts the well-formed declarations and no   *)
(* others.  One half is what each list of violations means; the other is   *)
(* what the walk has indexed when nothing was reported.                    *)
(***************************************************************************)
EXTENDS SchemaValidation, CollectionsProofs

\* A fault is reported exactly when there is one.
LEMMA Faults ==
    ASSUME NEW broken, NEW code \in Codes
    PROVE  /\ Fault(broken, code) \in Seq(Codes)
           /\ Fault(broken, code) = <<>> <=> ~broken
<1>1. <<code>> \in Seq(Codes) /\ <<code>> # <<>> /\ <<>> \in Seq(Codes)
    OBVIOUS
<1> QED BY <1>1 DEF Fault

\* Two lists of faults are none if both are.
LEMMA Joined ==
    ASSUME NEW s \in Seq(Codes), NEW t \in Seq(Codes)
    PROVE  s \o t \in Seq(Codes) /\ (s \o t = <<>> <=> s = <<>> /\ t = <<>>)
OBVIOUS

LEMMA FourJoined ==
    ASSUME NEW a \in Seq(Codes), NEW b \in Seq(Codes), NEW c \in Seq(Codes), NEW d \in Seq(Codes)
    PROVE  /\ a \o b \o c \o d \in Seq(Codes)
           /\ a \o b \o c \o d = <<>> <=> a = <<>> /\ b = <<>> /\ c = <<>> /\ d = <<>>
OBVIOUS

\* The faults of every element of a list are none if every element has none.
LEMMA OfEach ==
    ASSUME NEW list, IsList(list), NEW ss, DOMAIN ss = DOMAIN list,
           ss = [i \in DOMAIN list |-> ss[i]],
           \A i \in DOMAIN list : ss[i] \in Seq(Codes)
    PROVE  /\ FlattenSeq(ss) \in Seq(Codes)
           /\ FlattenSeq(ss) = <<>> <=> \A i \in DOMAIN list : ss[i] = <<>>
<1> DEFINE n == Len(list)
<1>1. n \in Nat /\ DOMAIN list = 1..n
    BY DEF IsList
<1>2. ss = [i \in 1..n |-> ss[i]] /\ \A i \in 1..n : ss[i] \in Seq(Codes)
    BY <1>1
<1> HIDE DEF n
<1>3. ss \in Seq(Seq(Codes)) /\ Len(ss) = n
  <2> DEFINE e(i) == ss[i]
  <2>1. \A i \in 1..n : e(i) \in Seq(Codes)
      BY <1>2
  <2> HIDE DEF e
  <2>2. [i \in 1..n |-> e(i)] \in Seq(Seq(Codes)) /\ Len([i \in 1..n |-> e(i)]) = n
      BY <2>1, <1>1
  <2>3. ss = [i \in 1..n |-> e(i)]
      BY <1>2 DEF e
  <2> QED BY <2>2, <2>3
<1> QED BY <1>1, <1>3, FlattenTyped, FlattenEmpty

\* One fault for each element of a finite set: none if the set is empty.
LEMMA OneEach ==
    ASSUME NEW code \in Codes, NEW n \in Nat
    PROVE  /\ [i \in 1..n |-> code] \in Seq(Codes)
           /\ [i \in 1..n |-> code] = <<>> <=> n = 0
<1> DEFINE s == [i \in 1..n |-> code]
<1>1. s \in Seq(Codes) /\ Len(s) = n
    OBVIOUS
<1>2. s = <<>> <=> n = 0
    BY <1>1
<1> QED BY <1>1, <1>2

LEMMA NoneCounted ==
    ASSUME NEW S, IsFiniteSet(S), NEW code \in Codes
    PROVE  /\ [i \in 1..Cardinality(S) |-> code] \in Seq(Codes)
           /\ [i \in 1..Cardinality(S) |-> code] = <<>> <=> S = {}
<1>1. Cardinality(S) \in Nat /\ (Cardinality(S) = 0 <=> S = {})
    BY FS_CardinalityType, FS_EmptySet
<1> QED BY <1>1, OneEach

LEMMA CodesAre ==
    {"conflict", "invalid_element", "unsupported_operation"} \subseteq Codes
BY DEF Codes

-----------------------------------------------------------------------------
\* What the lists of the declaration must be, one part of WellFormed each.

HeaderOK ==
    /\ \A b \in DOMAIN DefaultBounds : config.bounds[b] >= 0
    /\ config.resource \in ValidNames /\ config.revisionValid
    /\ IsInjective(config.logic) /\ Range(config.logic) \subseteq Logic

DefinedOK(list) ==
    /\ Distinct(list)
    /\ \A d \in Range(list) : d.name \in ValidNames /\ d.type \in Types /\ ValidCost(d)
FiltersOK == \A f \in Range(config.filters) :
    /\ f.operators # <<>> /\ IsInjective(f.operators)
    /\ Range(f.operators) \subseteq DefinedFor(f.type, f.nullable)
NullsOK == \A s \in Range(config.sorts) : s.nulls \in {"", "first", "last"}
ListsOK ==
    /\ DefinedOK(config.fields) /\ DefinedOK(config.filters) /\ DefinedOK(config.sorts)
    /\ FiltersOK /\ NullsOK

LEMMA WellFormedParts ==
    WellFormed <=> HeaderOK /\ ListsOK /\ WellFormedForest /\ WellFormedPages
<1>1. WellFormedLists <=> ListsOK /\ IsInjective(config.logic) /\ Range(config.logic) \subseteq Logic
    BY DEF WellFormedLists, ListsOK, DefinedOK, FiltersOK, NullsOK
<1> QED BY <1>1 DEF WellFormed, HeaderOK

\* No two alike, said of the positions: none repeats an earlier one.
LEMMA NoneRepeated ==
    ASSUME NEW list, IsList(list)
    PROVE  Distinct(list) <=> \A i \in DOMAIN list : ~Repeated(list, i)
<1>1. Len(list) \in Nat /\ DOMAIN list = 1..Len(list)
    BY DEF IsList
<1>2. ASSUME Distinct(list), NEW i \in DOMAIN list, Repeated(list, i)
      PROVE  FALSE
  <2>1. PICK j \in 1..(i - 1) : list[j].name = list[i].name
      BY <1>2 DEF Repeated
  <2>2. j \in DOMAIN list /\ j # i
      BY <1>1
  <2> QED BY <2>1, <2>2, <1>2 DEF Distinct
<1>3. ASSUME \A i \in DOMAIN list : ~Repeated(list, i),
             NEW i \in DOMAIN list, NEW j \in DOMAIN list, list[i].name = list[j].name
      PROVE  i = j
  <2>1. ~(i < j) /\ ~(j < i)
    <3>1. i < j => i \in 1..(j - 1)
        BY <1>1
    <3>2. j < i => j \in 1..(i - 1)
        BY <1>1
    <3> QED BY <3>1, <3>2, <1>3 DEF Repeated
  <2> QED BY <2>1, <1>1
<1> QED BY <1>2, <1>3 DEF Distinct

LEMMA NoneTwice ==
    ASSUME NEW list, IsList(list)
    PROVE  IsInjective(list) <=> \A i \in DOMAIN list : ~\E j \in 1..(i - 1) : list[j] = list[i]
<1>1. Len(list) \in Nat /\ DOMAIN list = 1..Len(list)
    BY DEF IsList
<1>2. IsInjective(list) <=> \A i, j \in DOMAIN list : list[i] = list[j] => i = j
    BY DEF IsInjective
<1>3. ASSUME IsInjective(list), NEW i \in DOMAIN list, NEW j \in 1..(i - 1), list[j] = list[i]
      PROVE  FALSE
  <2>1. j \in DOMAIN list /\ j # i
      BY <1>1
  <2> QED BY <2>1, <1>2, <1>3
<1>4. ASSUME \A i \in DOMAIN list : ~\E j \in 1..(i - 1) : list[j] = list[i],
             NEW i \in DOMAIN list, NEW j \in DOMAIN list, list[i] = list[j]
      PROVE  i = j
  <2>1. i < j => i \in 1..(j - 1)
      BY <1>1
  <2>2. j < i => j \in 1..(i - 1)
      BY <1>1
  <2>3. ~(i < j) /\ ~(j < i)
      BY <2>1, <2>2, <1>4
  <2> QED BY <2>3, <1>1
<1> QED BY <1>2, <1>3, <1>4

\* A statement about the elements of a list, said of its positions.
LEMMA AtEach ==
    ASSUME NEW list, NEW S
    PROVE  (\A i \in DOMAIN list : list[i] \in S) <=> Range(list) \subseteq S
BY DEF Range

-----------------------------------------------------------------------------
\* The header.

LEMMA HeaderFaults ==
    ASSUME config \in Configs
    PROVE  LET codes == BoundFaults \o
                        Fault(config.resource \notin ValidNames, "invalid_element") \o
                        Fault(~config.revisionValid, "invalid_element") \o LogicFaults IN
           codes \in Seq(Codes) /\ (codes = <<>> <=> HeaderOK)
<1> DEFINE negative == {b \in DOMAIN DefaultBounds : config.bounds[b] < 0}
           named   == Fault(config.resource \notin ValidNames, "invalid_element")
           revised == Fault(~config.revisionValid, "invalid_element")
           bounded == \A b \in DOMAIN DefaultBounds : config.bounds[b] >= 0
           logical == IsInjective(config.logic) /\ Range(config.logic) \subseteq Logic
<1>1. BoundFaults \in Seq(Codes) /\ (BoundFaults = <<>> <=> bounded)
  <2>1. IsFiniteSet(negative)
      BY FS_Subset, SchemaAssumption
  <2>2. BoundFaults = [i \in 1..Cardinality(negative) |-> "invalid_element"]
      BY DEF BoundFaults
  <2>3. "invalid_element" \in Codes
      BY CodesAre
  <2> HIDE DEF negative
  <2>4. BoundFaults \in Seq(Codes) /\ (BoundFaults = <<>> <=> negative = {})
    <3> DEFINE ones == [i \in 1..Cardinality(negative) |-> "invalid_element"]
    <3>1. ones \in Seq(Codes) /\ (ones = <<>> <=> negative = {})
        BY <2>1, <2>3, NoneCounted
    <3>2. BoundFaults = ones
        BY <2>2
    <3> HIDE DEF ones
    <3> QED BY <3>1, <3>2
  <2>5. negative = {} <=> bounded
    <3>1. \A b \in DOMAIN DefaultBounds : config.bounds[b] \in Int
        BY ConfigsAssumption
    <3> QED BY <3>1 DEF negative
  <2> QED BY <2>4, <2>5
<1>2. LogicFaults \in Seq(Codes) /\ (LogicFaults = <<>> <=> logical)
  <2> DEFINE wrong(i) == Fault(AllowedLogic[i] \notin Logic, "invalid_element")
             again(i) == Fault(AllowedLogic[i] \in Logic /\
                               \E j \in 1..(i - 1) : AllowedLogic[j] = AllowedLogic[i], "conflict")
             ss == [i \in DOMAIN AllowedLogic |-> wrong(i) \o again(i)]
             fine(i) == /\ AllowedLogic[i] \in Logic
                        /\ ~\E j \in 1..(i - 1) : AllowedLogic[j] = AllowedLogic[i]
  <2>1. LogicFaults = FlattenSeq(ss)
      BY DEF LogicFaults
  <2>2. IsList(AllowedLogic)
    <3>1. CASE config.logic = <<>>
      <4>1. AllowedLogic = <<"and">> /\ Range(AllowedLogic) = {"and"}
          BY <3>1 DEF AllowedLogic, Range
      <4> QED BY <4>1 DEF IsList
    <3>2. CASE config.logic # <<>>
        BY <3>2, ConfigsAssumption DEF AllowedLogic
    <3> QED BY <3>1, <3>2
  <2>3. \A i : /\ wrong(i) \o again(i) \in Seq(Codes)
               /\ wrong(i) \o again(i) = <<>> <=> fine(i)
    <3> SUFFICES ASSUME NEW i
                 PROVE  /\ wrong(i) \o again(i) \in Seq(Codes)
                        /\ wrong(i) \o again(i) = <<>> <=> fine(i)
        OBVIOUS
    <3>1. wrong(i) \in Seq(Codes) /\ (wrong(i) = <<>> <=> AllowedLogic[i] \in Logic)
        BY CodesAre, Faults
    <3>2. /\ again(i) \in Seq(Codes)
          /\ again(i) = <<>> <=>
                ~(AllowedLogic[i] \in Logic /\ \E j \in 1..(i - 1) : AllowedLogic[j] = AllowedLogic[i])
        BY CodesAre, Faults
    <3>3. /\ wrong(i) \o again(i) \in Seq(Codes)
          /\ wrong(i) \o again(i) = <<>> <=> wrong(i) = <<>> /\ again(i) = <<>>
      <4> HIDE DEF wrong, again
      <4> QED BY <3>1, <3>2, Joined
    <3> HIDE DEF wrong, again
    <3> QED BY <3>1, <3>2, <3>3
  <2> HIDE DEF wrong, again
  <2>4. /\ FlattenSeq(ss) \in Seq(Codes)
        /\ FlattenSeq(ss) = <<>> <=> \A i \in DOMAIN AllowedLogic : ss[i] = <<>>
    <3>1. \A i \in DOMAIN AllowedLogic : ss[i] \in Seq(Codes)
        BY <2>3
    <3>2. DOMAIN ss = DOMAIN AllowedLogic /\ ss = [i \in DOMAIN AllowedLogic |-> ss[i]]
        OBVIOUS
    <3> HIDE DEF ss
    <3> QED BY <3>1, <3>2, <2>2, OfEach
  <2>5. (\A i \in DOMAIN AllowedLogic : ss[i] = <<>>) <=> \A i \in DOMAIN AllowedLogic : fine(i)
      BY <2>3
  <2>6. (\A i \in DOMAIN AllowedLogic : fine(i)) <=>
            Range(AllowedLogic) \subseteq Logic /\ IsInjective(AllowedLogic)
      BY <2>2, NoneTwice, AtEach
  <2>7. Range(AllowedLogic) \subseteq Logic /\ IsInjective(AllowedLogic) <=> logical
    <3>1. CASE config.logic = <<>>
      <4>1. AllowedLogic = <<"and">> /\ Range(AllowedLogic) = {"and"} /\ IsInjective(AllowedLogic)
          BY <3>1 DEF AllowedLogic, Range, IsInjective
      <4>2. Range(config.logic) = {} /\ IsInjective(config.logic)
          BY <3>1 DEF Range, IsInjective
      <4> QED BY <4>1, <4>2 DEF Logic
    <3>2. CASE config.logic # <<>>
        BY <3>2 DEF AllowedLogic
    <3> QED BY <3>1, <3>2
  <2> HIDE DEF ss, fine, logical
  <2> QED BY <2>1, <2>4, <2>5, <2>6, <2>7
<1>3. named \in Seq(Codes) /\ (named = <<>> <=> config.resource \in ValidNames)
    BY CodesAre, Faults
<1>4. revised \in Seq(Codes) /\ (revised = <<>> <=> config.revisionValid)
    BY CodesAre, Faults
<1> DEFINE bounds == BoundFaults
           logic  == LogicFaults
           codes  == bounds \o named \o revised \o logic
<1>5. codes \in Seq(Codes) /\ (codes = <<>> <=>
          bounds = <<>> /\ named = <<>> /\ revised = <<>> /\ logic = <<>>)
  <2> HIDE DEF bounds, named, revised, logic
  <2>1. bounds \in Seq(Codes) /\ named \in Seq(Codes) /\ revised \in Seq(Codes) /\ logic \in Seq(Codes)
      BY <1>1, <1>2, <1>3, <1>4 DEF bounds, logic
  <2> QED BY <2>1
<1>6. HeaderOK <=> bounded /\ config.resource \in ValidNames /\ config.revisionValid /\ logical
    BY DEF HeaderOK
<1> HIDE DEF bounded, logical, named, revised
<1> QED BY <1>1, <1>2, <1>3, <1>4, <1>5, <1>6 DEF named, revised

-----------------------------------------------------------------------------
\* The lists of definitions.

Defined(d) == d.name \in ValidNames /\ d.type \in Types /\ ValidCost(d)

LEMMA DefinedList ==
    ASSUME NEW list, IsList(list)
    PROVE  DefinedOK(list) <=>
              \A i \in DOMAIN list : Defined(list[i]) /\ ~Repeated(list, i)
<1>1. Distinct(list) <=> \A i \in DOMAIN list : ~Repeated(list, i)
    BY NoneRepeated
<1>2. (\A d \in Range(list) : Defined(d)) <=> \A i \in DOMAIN list : Defined(list[i])
    BY DEF Range
<1>3. DefinedOK(list) <=> Distinct(list) /\ \A d \in Range(list) : Defined(d)
    BY DEF DefinedOK, Defined
<1> QED BY <1>1, <1>2, <1>3

LEMMA DefinitionFaultsAre ==
    ASSUME NEW list, NEW i
    PROVE  /\ DefinitionFaults(list, i) \in Seq(Codes)
           /\ DefinitionFaults(list, i) = <<>> <=> Defined(list[i]) /\ ~Repeated(list, i)
<1> DEFINE wrong  == Fault(list[i].name \notin ValidNames \/ list[i].type \notin Types,
                           "invalid_element")
           costly == Fault(~ValidCost(list[i]), "invalid_element")
           again  == Fault(Repeated(list, i), "conflict")
<1>1. /\ wrong \in Seq(Codes)
      /\ wrong = <<>> <=> ~(list[i].name \notin ValidNames \/ list[i].type \notin Types)
    BY CodesAre, Faults
<1>2. costly \in Seq(Codes) /\ (costly = <<>> <=> ~(~ValidCost(list[i])))
    BY CodesAre, Faults
<1>3. again \in Seq(Codes) /\ (again = <<>> <=> ~Repeated(list, i))
    BY CodesAre, Faults
<1>4. DefinitionFaults(list, i) = wrong \o costly \o again
    BY DEF DefinitionFaults
<1>5. /\ wrong \o costly \o again \in Seq(Codes)
      /\ wrong \o costly \o again = <<>> <=> wrong = <<>> /\ costly = <<>> /\ again = <<>>
  <2> HIDE DEF wrong, costly, again
  <2> QED BY <1>1, <1>2, <1>3
<1> HIDE DEF wrong, costly, again
<1> QED BY <1>1, <1>2, <1>3, <1>4, <1>5 DEF Defined

LEMMA FieldFaultsAre ==
    ASSUME config \in Configs
    PROVE  /\ FieldFaults \in Seq(Codes)
           /\ FieldFaults = <<>> <=> DefinedOK(config.fields)
<1> DEFINE list == config.fields
           ss == [i \in DOMAIN list |-> DefinitionFaults(list, i)]
<1>1. IsList(list) /\ FieldFaults = FlattenSeq(ss)
    BY ConfigsAssumption DEF FieldFaults
<1>2. \A i \in DOMAIN list : /\ ss[i] \in Seq(Codes)
                             /\ ss[i] = <<>> <=> Defined(list[i]) /\ ~Repeated(list, i)
    BY DefinitionFaultsAre
<1>3. DOMAIN ss = DOMAIN list /\ ss = [i \in DOMAIN list |-> ss[i]]
    OBVIOUS
<1> HIDE DEF ss
<1>4. FlattenSeq(ss) \in Seq(Codes) /\ (FlattenSeq(ss) = <<>> <=> \A i \in DOMAIN list : ss[i] = <<>>)
  <2>1. IsList(list) /\ \A i \in DOMAIN list : ss[i] \in Seq(Codes)
      BY <1>1, <1>2
  <2> QED BY <2>1, <1>3, OfEach
<1> HIDE DEF list
<1>5. DefinedOK(list) <=> \A i \in DOMAIN list : Defined(list[i]) /\ ~Repeated(list, i)
    BY <1>1, DefinedList
<1> QED BY <1>1, <1>2, <1>4, <1>5 DEF list

LEMMA SortFaultsAre ==
    ASSUME config \in Configs
    PROVE  /\ SortFaults \in Seq(Codes)
           /\ SortFaults = <<>> <=> DefinedOK(config.sorts) /\ NullsOK
<1> DEFINE list == config.sorts
           odd(i) == Fault(list[i].nulls \notin Nulls \cup {""}, "invalid_element")
           ss == [i \in DOMAIN list |-> odd(i) \o DefinitionFaults(list, i)]
           fine(i) == /\ list[i].nulls \in Nulls \cup {""}
                      /\ Defined(list[i]) /\ ~Repeated(list, i)
<1>1. IsList(list) /\ SortFaults = FlattenSeq(ss)
    BY ConfigsAssumption DEF SortFaults
<1>2. \A i \in DOMAIN list : /\ ss[i] \in Seq(Codes)
                             /\ ss[i] = <<>> <=> fine(i)
  <2> SUFFICES ASSUME NEW i \in DOMAIN list
               PROVE  ss[i] \in Seq(Codes) /\ (ss[i] = <<>> <=> fine(i))
      OBVIOUS
  <2> DEFINE rest == DefinitionFaults(list, i)
             strange == odd(i)
  <2>1. /\ strange \in Seq(Codes)
        /\ strange = <<>> <=> ~(list[i].nulls \notin Nulls \cup {""})
      BY CodesAre, Faults
  <2>2. rest \in Seq(Codes) /\ (rest = <<>> <=> Defined(list[i]) /\ ~Repeated(list, i))
      BY DefinitionFaultsAre
  <2>3. ss[i] = strange \o rest
      OBVIOUS
  <2> HIDE DEF ss, strange, rest
  <2>4. strange \o rest \in Seq(Codes) /\ (strange \o rest = <<>> <=> strange = <<>> /\ rest = <<>>)
      BY <2>1, <2>2, Joined
  <2> QED BY <2>1, <2>2, <2>3, <2>4
<1>3. DOMAIN ss = DOMAIN list /\ ss = [i \in DOMAIN list |-> ss[i]]
    OBVIOUS
<1> HIDE DEF ss
<1>4. FlattenSeq(ss) \in Seq(Codes) /\ (FlattenSeq(ss) = <<>> <=> \A i \in DOMAIN list : ss[i] = <<>>)
  <2>1. IsList(list) /\ \A i \in DOMAIN list : ss[i] \in Seq(Codes)
      BY <1>1, <1>2
  <2> QED BY <2>1, <1>3, OfEach
<1>5. NullsOK <=> \A i \in DOMAIN list : list[i].nulls \in Nulls \cup {""}
    BY DEF NullsOK, Range, Nulls
<1>6. DefinedOK(list) <=> \A i \in DOMAIN list : Defined(list[i]) /\ ~Repeated(list, i)
    BY <1>1, DefinedList
<1> HIDE DEF list
<1> QED BY <1>1, <1>2, <1>4, <1>5, <1>6 DEF list

\* The code's table of operators is the documentation's.
LEMMA OperatorsFor ==
    ASSUME NEW op, NEW type, NEW nullable
    PROVE  operatorSupportsType(op, type, nullable) <=> op \in DefinedFor(type, nullable)
<1>1. CASE type = "string"
    BY <1>1 DEF operatorSupportsType, DefinedFor
<1>2. CASE type \in {"bool", "bytes"}
    BY <1>2 DEF operatorSupportsType, DefinedFor
<1>3. CASE type # "string" /\ type \notin {"bool", "bytes"}
    BY <1>3 DEF operatorSupportsType, DefinedFor
<1> QED BY <1>1, <1>2, <1>3

LEMMA OperatorFaultsAre ==
    ASSUME NEW f, IsList(f.operators)
    PROVE  /\ OperatorFaults(f) \in Seq(Codes)
           /\ OperatorFaults(f) = <<>> <=>
                 IsInjective(f.operators) /\ Range(f.operators) \subseteq DefinedFor(f.type, f.nullable)
<1> DEFINE ops == f.operators
           again(i) == Fault(\E j \in 1..(i - 1) : ops[j] = ops[i], "conflict")
           alien(i) == Fault(~operatorSupportsType(ops[i], f.type, f.nullable),
                             "unsupported_operation")
           ss == [i \in DOMAIN ops |-> again(i) \o alien(i)]
           fine(i) == /\ ~\E j \in 1..(i - 1) : ops[j] = ops[i]
                      /\ ops[i] \in DefinedFor(f.type, f.nullable)
<1>1. IsList(ops) /\ OperatorFaults(f) = FlattenSeq(ss)
    BY DEF OperatorFaults
<1>2. \A i \in DOMAIN ops : ss[i] \in Seq(Codes) /\ (ss[i] = <<>> <=> fine(i))
  <2> SUFFICES ASSUME NEW i \in DOMAIN ops
               PROVE  ss[i] \in Seq(Codes) /\ (ss[i] = <<>> <=> fine(i))
      OBVIOUS
  <2> DEFINE twice == again(i)
             strange == alien(i)
  <2>1. twice \in Seq(Codes) /\ (twice = <<>> <=> ~\E j \in 1..(i - 1) : ops[j] = ops[i])
      BY CodesAre, Faults
  <2>2. /\ strange \in Seq(Codes)
        /\ strange = <<>> <=> ~(~operatorSupportsType(ops[i], f.type, f.nullable))
      BY CodesAre, Faults
  <2>3. operatorSupportsType(ops[i], f.type, f.nullable) <=> ops[i] \in DefinedFor(f.type, f.nullable)
      BY OperatorsFor
  <2>4. ss[i] = twice \o strange
      OBVIOUS
  <2> HIDE DEF ss, twice, strange
  <2>5. twice \o strange \in Seq(Codes) /\ (twice \o strange = <<>> <=> twice = <<>> /\ strange = <<>>)
      BY <2>1, <2>2, Joined
  <2> QED BY <2>1, <2>2, <2>3, <2>4, <2>5
<1>3. DOMAIN ss = DOMAIN ops /\ ss = [i \in DOMAIN ops |-> ss[i]]
    OBVIOUS
<1> HIDE DEF ss
<1>4. FlattenSeq(ss) \in Seq(Codes) /\ (FlattenSeq(ss) = <<>> <=> \A i \in DOMAIN ops : ss[i] = <<>>)
  <2>1. IsList(ops) /\ \A i \in DOMAIN ops : ss[i] \in Seq(Codes)
      BY <1>1, <1>2
  <2> QED BY <2>1, <1>3, OfEach
<1>5. (\A i \in DOMAIN ops : fine(i)) <=>
          IsInjective(ops) /\ Range(ops) \subseteq DefinedFor(f.type, f.nullable)
    BY <1>1, NoneTwice, AtEach
<1> HIDE DEF fine, ops
<1> QED BY <1>1, <1>2, <1>4, <1>5 DEF ops

LEMMA FilterFaultsAre ==
    ASSUME config \in Configs
    PROVE  /\ FilterFaults \in Seq(Codes)
           /\ FilterFaults = <<>> <=> DefinedOK(config.filters) /\ FiltersOK
<1> DEFINE list == config.filters
           wrong(f) == Fault(f.name \notin ValidNames \/ f.type \notin Types \/ f.operators = <<>>,
                             "invalid_element")
           costly(f) == Fault(~ValidCost(f), "invalid_element")
           again(i) == Fault(Repeated(list, i), "conflict")
           ss == [i \in DOMAIN list |->
                     wrong(list[i]) \o costly(list[i]) \o OperatorFaults(list[i]) \o again(i)]
           suited(f) == /\ f.operators # <<>> /\ IsInjective(f.operators)
                        /\ Range(f.operators) \subseteq DefinedFor(f.type, f.nullable)
           fine(i) == Defined(list[i]) /\ ~Repeated(list, i) /\ suited(list[i])
<1>1. IsList(list) /\ \A i \in DOMAIN list : IsList(list[i].operators)
    BY ConfigsAssumption DEF Range
<1>2. FilterFaults = FlattenSeq(ss)
    BY DEF FilterFaults
<1>3. \A i \in DOMAIN list : ss[i] \in Seq(Codes) /\ (ss[i] = <<>> <=> fine(i))
  <2> SUFFICES ASSUME NEW i \in DOMAIN list
               PROVE  ss[i] \in Seq(Codes) /\ (ss[i] = <<>> <=> fine(i))
      OBVIOUS
  <2> DEFINE f == list[i]
             a == wrong(f)
             b == costly(f)
             c == OperatorFaults(f)
             d == again(i)
  <2>1. /\ a \in Seq(Codes)
        /\ a = <<>> <=> ~(f.name \notin ValidNames \/ f.type \notin Types \/ f.operators = <<>>)
      BY CodesAre, Faults
  <2>2. b \in Seq(Codes) /\ (b = <<>> <=> ~(~ValidCost(f)))
      BY CodesAre, Faults
  <2>3. /\ c \in Seq(Codes)
        /\ c = <<>> <=> IsInjective(f.operators) /\
                        Range(f.operators) \subseteq DefinedFor(f.type, f.nullable)
      BY <1>1, OperatorFaultsAre
  <2>4. d \in Seq(Codes) /\ (d = <<>> <=> ~Repeated(list, i))
      BY CodesAre, Faults
  <2>5. ss[i] = a \o b \o c \o d
      OBVIOUS
  <2>6. fine(i) <=> /\ f.name \in ValidNames /\ f.type \in Types /\ ValidCost(f)
                    /\ ~Repeated(list, i) /\ f.operators # <<>> /\ IsInjective(f.operators)
                    /\ Range(f.operators) \subseteq DefinedFor(f.type, f.nullable)
      BY DEF Defined
  <2> HIDE DEF ss, a, b, c, d, fine, f
  <2>7. /\ a \o b \o c \o d \in Seq(Codes)
        /\ a \o b \o c \o d = <<>> <=> a = <<>> /\ b = <<>> /\ c = <<>> /\ d = <<>>
    <3>1. a \in Seq(Codes)
        BY <2>1
    <3>2. b \in Seq(Codes)
        BY <2>2
    <3>3. c \in Seq(Codes)
        BY <2>3
    <3>4. d \in Seq(Codes)
        BY <2>4
    <3> QED BY <3>1, <3>2, <3>3, <3>4, FourJoined
  <2> QED BY <2>1, <2>2, <2>3, <2>4, <2>5, <2>6, <2>7
<1>4. DOMAIN ss = DOMAIN list /\ ss = [i \in DOMAIN list |-> ss[i]]
    OBVIOUS
<1> HIDE DEF ss
<1>5. FlattenSeq(ss) \in Seq(Codes) /\ (FlattenSeq(ss) = <<>> <=> \A i \in DOMAIN list : ss[i] = <<>>)
  <2>1. IsList(list) /\ \A i \in DOMAIN list : ss[i] \in Seq(Codes)
      BY <1>1, <1>3
  <2> QED BY <2>1, <1>4, OfEach
<1>6. FiltersOK <=> \A i \in DOMAIN list : suited(list[i])
    BY DEF FiltersOK, Range
<1>7. DefinedOK(list) <=> \A i \in DOMAIN list : Defined(list[i]) /\ ~Repeated(list, i)
    BY <1>1, DefinedList
<1> HIDE DEF list, suited
<1> QED BY <1>2, <1>3, <1>5, <1>6, <1>7 DEF list

LEMMA ListFaults ==
    ASSUME config \in Configs
    PROVE  /\ FieldFaults \o FilterFaults \o SortFaults \in Seq(Codes)
           /\ FieldFaults \o FilterFaults \o SortFaults = <<>> <=> ListsOK
<1> DEFINE a == FieldFaults
           b == FilterFaults
           c == SortFaults
<1>1. a \in Seq(Codes) /\ (a = <<>> <=> DefinedOK(config.fields))
    BY FieldFaultsAre
<1>2. b \in Seq(Codes) /\ (b = <<>> <=> DefinedOK(config.filters) /\ FiltersOK)
    BY FilterFaultsAre
<1>3. c \in Seq(Codes) /\ (c = <<>> <=> DefinedOK(config.sorts) /\ NullsOK)
    BY SortFaultsAre
<1> HIDE DEF a, b, c
<1>4. a \o b \o c \in Seq(Codes) /\ (a \o b \o c = <<>> <=> a = <<>> /\ b = <<>> /\ c = <<>>)
    BY <1>1, <1>2, <1>3
<1> QED BY <1>1, <1>2, <1>3, <1>4 DEF a, b, c, ListsOK

-----------------------------------------------------------------------------
\* Pagination and the default sort.

LEMMA Limits ==
    ASSUME config \in Configs, NEW b \in DOMAIN DefaultBounds
    PROVE  Limit(b) \in Nat \ {0}
<1>1. DefaultBounds[b] \in Nat \ {0} /\ config.bounds[b] \in Int
    BY SchemaAssumption, ConfigsAssumption
<1>2. Limit(b) = IF config.bounds[b] <= 0 THEN DefaultBounds[b] ELSE config.bounds[b]
    BY DEF Limit, Normalized
<1> QED BY <1>1, <1>2

Bounded(t)   == t.dir \in {"asc", "desc"}
FineTerm(t)  == /\ Sorts(t.name) # {} /\ Bounded(t)
                /\ t.nulls \in Nulls \cup {""}
                /\ ~(Sorts(t.name) # {} /\ t.nulls \in Nulls \ {SortOf(t.name).nulls})
Answered(t)  == \E d \in Range(config.sorts) :
                   d.name = t.name /\ t.nulls \in {"", d.nulls} /\ t.dir \in {"asc", "desc"}

\* Among distinct sorts, the one found by a name is the one that has it.
LEMMA FoundSort ==
    ASSUME Distinct(config.sorts), NEW i \in DOMAIN config.sorts,
           DOMAIN config.sorts \subseteq Nat
    PROVE  SortOf(config.sorts[i].name) = config.sorts[i]
<1> DEFINE S == Sorts(config.sorts[i].name)
           j == CHOOSE k \in S : \A m \in S : k <= m
<1>1. S = {i}
    BY DEF Sorts, Distinct
<1>2. i <= i
    OBVIOUS
<1> HIDE DEF S
<1>3. j \in S
  <2>1. \E k \in S : \A m \in S : k <= m
      BY <1>1, <1>2
  <2> QED BY <2>1
<1> QED BY <1>1, <1>3 DEF SortOf, S

LEMMA TermsAre ==
    ASSUME config \in Configs, ListsOK, NEW t
    PROVE  FineTerm(t) <=> Answered(t)
<1>1. Distinct(config.sorts) /\ NullsOK
    BY DEF ListsOK, DefinedOK
<1>2. DOMAIN config.sorts \subseteq Nat
    BY ConfigsAssumption DEF IsList
<1>3. \A i \in DOMAIN config.sorts : config.sorts[i].nulls \in {"", "first", "last"}
    BY <1>1 DEF NullsOK, Range
<1>4. ASSUME FineTerm(t) PROVE Answered(t)
  <2>1. PICK i \in DOMAIN config.sorts : config.sorts[i].name = t.name
      BY <1>4 DEF FineTerm, Sorts
  <2>2. SortOf(t.name) = config.sorts[i]
      BY <1>1, <1>2, <2>1, FoundSort
  <2>3. config.sorts[i] \in Range(config.sorts)
      BY DEF Range
  <2>4. t.nulls \in {"", config.sorts[i].nulls} /\ t.dir \in {"asc", "desc"}
      BY <1>4, <2>2 DEF FineTerm, Bounded, Nulls
  <2> QED BY <2>1, <2>3, <2>4 DEF Answered
<1>5. ASSUME Answered(t) PROVE FineTerm(t)
  <2>1. PICK i \in DOMAIN config.sorts :
            /\ config.sorts[i].name = t.name
            /\ t.nulls \in {"", config.sorts[i].nulls} /\ t.dir \in {"asc", "desc"}
      BY <1>5 DEF Answered, Range
  <2>2. SortOf(t.name) = config.sorts[i]
      BY <1>1, <1>2, <2>1, FoundSort
  <2>3. Sorts(t.name) # {}
      BY <2>1 DEF Sorts
  <2>4. t.nulls \in Nulls \cup {""}
      BY <1>3, <2>1 DEF Nulls
  <2>5. ~(t.nulls \in Nulls \ {config.sorts[i].nulls})
      BY <2>1 DEF Nulls
  <2> QED BY <2>1, <2>2, <2>3, <2>4, <2>5 DEF FineTerm, Bounded
<1> QED BY <1>4, <1>5

LEMMA DefaultSortFaultsAre ==
    ASSUME config \in Configs
    PROVE  /\ DefaultSortFaults \in Seq(Codes)
           /\ DefaultSortFaults = <<>> <=>
                 /\ Distinct(config.defaultSort)
                 /\ \A t \in Range(config.defaultSort) : FineTerm(t)
<1> DEFINE list == config.defaultSort
           wrong(t) == Fault(Sorts(t.name) = {} \/ t.dir \notin {"asc", "desc"}, "invalid_element")
           odd(t) == Fault(t.nulls \notin Nulls \cup {""}, "invalid_element")
           other(t) == Fault(Sorts(t.name) # {} /\ t.nulls \in Nulls \ {SortOf(t.name).nulls},
                             "unsupported_operation")
           again(i) == Fault(Repeated(list, i), "conflict")
           ss == [i \in DOMAIN list |->
                     wrong(list[i]) \o odd(list[i]) \o other(list[i]) \o again(i)]
           fine(i) == FineTerm(list[i]) /\ ~Repeated(list, i)
<1>1. IsList(list)
    BY ConfigsAssumption
<1>2. DefaultSortFaults = FlattenSeq(ss)
    BY DEF DefaultSortFaults
<1>3. \A i \in DOMAIN list : ss[i] \in Seq(Codes) /\ (ss[i] = <<>> <=> fine(i))
  <2> SUFFICES ASSUME NEW i \in DOMAIN list
               PROVE  ss[i] \in Seq(Codes) /\ (ss[i] = <<>> <=> fine(i))
      OBVIOUS
  <2> DEFINE t == list[i]
             a == wrong(t)
             b == odd(t)
             c == other(t)
             d == again(i)
  <2>1. /\ a \in Seq(Codes)
        /\ a = <<>> <=> ~(Sorts(t.name) = {} \/ t.dir \notin {"asc", "desc"})
      BY CodesAre, Faults
  <2>2. b \in Seq(Codes) /\ (b = <<>> <=> ~(t.nulls \notin Nulls \cup {""}))
      BY CodesAre, Faults
  <2>3. /\ c \in Seq(Codes)
        /\ c = <<>> <=> ~(Sorts(t.name) # {} /\ t.nulls \in Nulls \ {SortOf(t.name).nulls})
      BY CodesAre, Faults
  <2>4. d \in Seq(Codes) /\ (d = <<>> <=> ~Repeated(list, i))
      BY CodesAre, Faults
  <2>5. ss[i] = a \o b \o c \o d
      OBVIOUS
  <2> HIDE DEF ss, a, b, c, d, t
  <2>6. /\ a \o b \o c \o d \in Seq(Codes)
        /\ a \o b \o c \o d = <<>> <=> a = <<>> /\ b = <<>> /\ c = <<>> /\ d = <<>>
    <3>1. a \in Seq(Codes)
        BY <2>1
    <3>2. b \in Seq(Codes)
        BY <2>2
    <3>3. c \in Seq(Codes)
        BY <2>3
    <3>4. d \in Seq(Codes)
        BY <2>4
    <3> QED BY <3>1, <3>2, <3>3, <3>4, FourJoined
  <2>7. FineTerm(t) <=> a = <<>> /\ b = <<>> /\ c = <<>>
    <3>1. a = <<>> <=> ~(Sorts(t.name) = {} \/ t.dir \notin {"asc", "desc"})
        BY <2>1
    <3>2. b = <<>> <=> ~(t.nulls \notin Nulls \cup {""})
        BY <2>2
    <3>3. c = <<>> <=> ~(Sorts(t.name) # {} /\ t.nulls \in Nulls \ {SortOf(t.name).nulls})
        BY <2>3
    <3> QED BY <3>1, <3>2, <3>3 DEF FineTerm, Bounded
  <2>8. fine(i) <=> FineTerm(t) /\ ~Repeated(list, i)
      BY DEF t
  <2> HIDE DEF fine
  <2> QED BY <2>4, <2>5, <2>6, <2>7, <2>8
<1>4. DOMAIN ss = DOMAIN list /\ ss = [i \in DOMAIN list |-> ss[i]]
    OBVIOUS
<1> HIDE DEF ss
<1>5. FlattenSeq(ss) \in Seq(Codes) /\ (FlattenSeq(ss) = <<>> <=> \A i \in DOMAIN list : ss[i] = <<>>)
  <2>1. IsList(list) /\ \A i \in DOMAIN list : ss[i] \in Seq(Codes)
      BY <1>1, <1>3
  <2> QED BY <2>1, <1>4, OfEach
<1>6. Distinct(list) <=> \A i \in DOMAIN list : ~Repeated(list, i)
    BY <1>1, NoneRepeated
<1>7. (\A t \in Range(list) : FineTerm(t)) <=> \A i \in DOMAIN list : FineTerm(list[i])
    BY DEF Range
<1> HIDE DEF list
<1> QED BY <1>2, <1>3, <1>5, <1>6, <1>7 DEF list

\* The tie-breaker of cursor pages is one.
LEMMA OneTie ==
    ASSUME config \in Configs
    PROVE  Cardinality(TieBreakers) = 1 <=> \E i \in DOMAIN config.sorts : TieBreakers = {i}
<1>1. Len(config.sorts) \in Nat /\ DOMAIN config.sorts = 1..Len(config.sorts)
    BY ConfigsAssumption DEF IsList
<1>2. IsFiniteSet(TieBreakers)
  <2>1. IsFiniteSet(1..Len(config.sorts))
      BY <1>1, FS_Interval
  <2>2. TieBreakers \subseteq 1..Len(config.sorts)
      BY <1>1 DEF TieBreakers
  <2> QED BY <2>1, <2>2, FS_Subset
<1>3. Cardinality(TieBreakers) = 1 <=> \E i : TieBreakers = {i}
    BY <1>2, FS_Singleton
<1>4. TieBreakers \subseteq DOMAIN config.sorts
    BY DEF TieBreakers
<1> QED BY <1>3, <1>4

PagesFine ==
    LET p == config.pagination IN
    /\ p.defaultSize \in 1..Limit("MaxPageSize")
    /\ ~(p.offset /\ p.maxOffset < 0)
    /\ ~(p.cursor /\ Cardinality(TieBreakers) # 1)

LEMMA PageFaultsAre ==
    ASSUME config \in Configs
    PROVE  PageFaults \in Seq(Codes) /\ (PageFaults = <<>> <=> PagesFine)
<1> DEFINE p == config.pagination
           a == Fault(p.defaultSize \notin 1..Limit("MaxPageSize"), "invalid_element")
           b == Fault(p.offset /\ p.maxOffset < 0, "invalid_element")
           c == Fault(p.cursor /\ Cardinality(TieBreakers) # 1, "conflict")
<1>1. a \in Seq(Codes) /\ (a = <<>> <=> ~(p.defaultSize \notin 1..Limit("MaxPageSize")))
    BY CodesAre, Faults
<1>2. b \in Seq(Codes) /\ (b = <<>> <=> ~(p.offset /\ p.maxOffset < 0))
    BY CodesAre, Faults
<1>3. c \in Seq(Codes) /\ (c = <<>> <=> ~(p.cursor /\ Cardinality(TieBreakers) # 1))
    BY CodesAre, Faults
<1>4. PageFaults = a \o b \o c
    BY DEF PageFaults
<1>5. PagesFine <=> /\ p.defaultSize \in 1..Limit("MaxPageSize")
                    /\ ~(p.offset /\ p.maxOffset < 0)
                    /\ ~(p.cursor /\ Cardinality(TieBreakers) # 1)
    BY DEF PagesFine
<1> HIDE DEF a, b, c, p
<1>6. a \o b \o c \in Seq(Codes) /\ (a \o b \o c = <<>> <=> a = <<>> /\ b = <<>> /\ c = <<>>)
    BY <1>1, <1>2, <1>3
<1> QED BY <1>1, <1>2, <1>3, <1>4, <1>5, <1>6

PaginationCodes ==
    Fault(Len(config.defaultSort) > Limit("MaxSorts"), "invalid_element") \o
    (IF config.pagination.cursor \/ config.pagination.offset THEN PageFaults ELSE <<>>) \o
    DefaultSortFaults \o Fault(NoRoom, "conflict")

LEMMA PaginationFaults ==
    ASSUME config \in Configs
    PROVE  /\ PaginationCodes \in Seq(Codes)
           /\ ListsOK => (PaginationCodes = <<>> <=> WellFormedPages)
<1> DEFINE terms == config.defaultSort
           page == config.pagination
           most == Limit("MaxSorts")
           untied == page.cursor /\ \A i \in DOMAIN terms : ~IsTie(terms[i].name)
           a == Fault(Len(terms) > most, "invalid_element")
           b == IF page.cursor \/ page.offset THEN PageFaults ELSE <<>>
           c == DefaultSortFaults
           d == Fault(NoRoom, "conflict")
<1>1. a \in Seq(Codes) /\ (a = <<>> <=> ~(Len(terms) > most))
    BY CodesAre, Faults
<1>2. b \in Seq(Codes) /\ (b = <<>> <=> (page.cursor \/ page.offset => PagesFine))
    BY PageFaultsAre
<1>3. /\ c \in Seq(Codes)
      /\ c = <<>> <=> Distinct(terms) /\ \A t \in Range(terms) : FineTerm(t)
    BY DefaultSortFaultsAre
<1>4. d \in Seq(Codes) /\ (d = <<>> <=> ~NoRoom)
    BY CodesAre, Faults
<1>5. PaginationCodes = a \o b \o c \o d
    BY DEF PaginationCodes
<1>6. /\ a \o b \o c \o d \in Seq(Codes)
      /\ a \o b \o c \o d = <<>> <=> a = <<>> /\ b = <<>> /\ c = <<>> /\ d = <<>>
  <2> HIDE DEF a, b, c, d
  <2> QED BY <1>1, <1>2, <1>3, <1>4, FourJoined
<1>7. ASSUME ListsOK
      PROVE  (\A t \in Range(terms) : FineTerm(t)) <=> \A t \in Range(terms) : Answered(t)
    BY <1>7, TermsAre
<1>8. /\ most \in Nat \ {0} /\ Len(terms) \in Nat
      /\ page.maxOffset \in Int
  <2>1. most \in Nat \ {0}
      BY Limits, SchemaAssumption
  <2>2. Len(terms) \in Nat
      BY ConfigsAssumption DEF IsList
  <2>3. page.maxOffset \in Int
      BY ConfigsAssumption
  <2> QED BY <2>1, <2>2, <2>3
<1>9. ~(Len(terms) > most) /\ ~NoRoom <=> Len(terms) + (IF untied THEN 1 ELSE 0) <= most
  <2>1. NoRoom <=> untied /\ Len(terms) >= most
      BY DEF NoRoom
  <2> HIDE DEF untied, most, terms
  <2> QED BY <1>8, <2>1
<1>10. (page.cursor \/ page.offset => PagesFine) <=>
           /\ page.cursor => \E i \in DOMAIN config.sorts : TieBreakers = {i}
           /\ page.cursor \/ page.offset => page.defaultSize \in 1..Limit("MaxPageSize")
           /\ page.offset => page.maxOffset >= 0
  <2>1. PagesFine <=> /\ page.defaultSize \in 1..Limit("MaxPageSize")
                      /\ ~(page.offset /\ page.maxOffset < 0)
                      /\ ~(page.cursor /\ Cardinality(TieBreakers) # 1)
      BY DEF PagesFine
  <2>2. page.maxOffset < 0 <=> ~(page.maxOffset >= 0)
      BY <1>8
  <2> HIDE DEF page
  <2> QED BY <2>1, <2>2, OneTie
<1>11. WellFormedPages <=>
           /\ Len(terms) + (IF untied THEN 1 ELSE 0) <= most /\ Distinct(terms)
           /\ \A t \in Range(terms) : Answered(t)
           /\ page.cursor => \E i \in DOMAIN config.sorts : TieBreakers = {i}
           /\ page.cursor \/ page.offset => page.defaultSize \in 1..Limit("MaxPageSize")
           /\ page.offset => page.maxOffset >= 0
    BY DEF WellFormedPages, Answered
<1> HIDE DEF a, b, c, d, untied, most, terms, page
<1> QED BY <1>1, <1>2, <1>3, <1>4, <1>5, <1>6, <1>7, <1>9, <1>10, <1>11

-----------------------------------------------------------------------------
\* What NewSchema keeps true between two of its steps.

Under(at, p) == Len(at) <= Len(p) /\ SubSeq(p, 1, Len(at)) = at
PrefixOf(at) == IF Len(at) = 1 THEN <<"">> ELSE PathNames(Front(at))
Parts  == {""} \cup UNION {Range(config.forest[p].name) : p \in DOMAIN config.forest}
CallsTo == [at : DOMAIN config.forest, prefix : Seq(Parts), ancestors : SUBSET Resources]

STyped ==
    /\ config \in Configs /\ violations \in Seq(Codes)
    /\ phase \in {"header", "fields", "relationships", "done"}
    /\ calls \in Seq(CallsTo)
    /\ phase \in {"header", "fields"} => calls = <<>> /\ index = <<>>
    /\ phase = "done" => calls = <<>>

\* The calls still to make are for separate parts of the forest, and nothing of
\* these parts is in the index.
Fresh ==
    /\ \A i, j \in DOMAIN calls : i # j => ~Under(calls[i].at, calls[j].at)
    /\ \A n \in DOMAIN index :
          /\ index[n].path \in DOMAIN config.forest
          /\ \A i \in DOMAIN calls : ~Under(calls[i].at, index[n].path)

\* A relationship that nothing is wrong with, but for its siblings.
FineEdge(p) ==
    LET r == config.forest[p] IN
    /\ Len(r.name) = 1 /\ r.name[1] \in ValidNames
    /\ r.resource \in ValidNames /\ ValidCost(r)
    /\ r.resource # config.resource
    /\ \A q \in Above(p) : config.forest[q].resource # r.resource
Settled(p) ==
    /\ FineEdge(p) /\ PathNames(p) \in DOMAIN index
    /\ index[PathNames(p)] = [path |-> p, depth |-> Len(p)]

\* While nothing is reported, every relationship is settled or still to come,
\* the index holds the settled ones, and the calls know where they are.
Walked == violations = <<>> /\ phase \in {"relationships", "done"} =>
    /\ \A p \in DOMAIN config.forest :
          Settled(p) \/ \E i \in DOMAIN calls : Under(calls[i].at, p)
    /\ \A n \in DOMAIN index : n = PathNames(index[n].path)
    /\ \A i \in DOMAIN calls :
          /\ calls[i].prefix = PrefixOf(calls[i].at)
          /\ \A q \in Above(calls[i].at) : Settled(q)

\* While nothing is reported, what was checked is well formed; and nothing is
\* reported of a well-formed declaration.
Checked ==
    /\ violations = <<>> =>
          /\ phase # "header" => HeaderOK
          /\ phase \in {"relationships", "done"} => ListsOK
          /\ phase = "done" => WellFormedPages
    /\ WellFormed => violations = <<>>

SInv == STyped /\ DescentIsAcyclic /\ Fresh /\ Walked /\ Checked

-----------------------------------------------------------------------------
\* Paths of a forest.

\* A relationship's path and what is above it.
LEMMA PathFacts ==
    ASSUME config \in Configs, NEW at \in DOMAIN config.forest
    PROVE  /\ at \in Seq(Nat) /\ Len(at) \in Nat \ {0} /\ DOMAIN at = 1..Len(at)
           /\ \A n \in 1..Len(at) : SubSeq(at, 1, n) \in DOMAIN config.forest
           /\ Above(at) \subseteq DOMAIN config.forest
           /\ config.forest[at].name \in Seq(Parts) /\ config.forest[at].name # <<>>
           /\ config.forest[at].resource \in Resources
<1>1. IsForest(config.forest)
    BY ConfigsAssumption
<1>2. /\ at \in Seq(Nat) /\ at # <<>>
      /\ \A n \in 1..(Len(at) - 1) : SubSeq(at, 1, n) \in DOMAIN config.forest
      /\ IsList(config.forest[at].name) /\ config.forest[at].name # <<>>
    BY <1>1 DEF IsForest
<1>l. Len(at) \in Nat \ {0}
    BY <1>2
<1>3. Len(at) \in Nat \ {0} /\ DOMAIN at = 1..Len(at) /\ SubSeq(at, 1, Len(at)) = at
    BY <1>2
<1>4. ASSUME NEW n \in 1..Len(at) PROVE SubSeq(at, 1, n) \in DOMAIN config.forest
  <2>1. CASE n = Len(at)
      BY <1>3, <2>1
  <2>2. CASE n # Len(at)
    <3>1. n \in 1..(Len(at) - 1)
        BY <1>l, <2>2
    <3> QED BY <3>1, <1>2
  <2> QED BY <2>1, <2>2
<1>5. Above(at) \subseteq DOMAIN config.forest
    BY <1>2 DEF Above
<1>6. config.forest[at].name \in Seq(Parts)
  <2>1. Range(config.forest[at].name) \subseteq Parts
      BY DEF Parts
  <2>2. config.forest[at].name \in Seq(Range(config.forest[at].name))
      BY <1>2 DEF IsList
  <2> QED BY <2>1, <2>2
<1>7. config.forest[at].resource \in Resources
    BY DEF Resources
<1> QED BY <1>2, <1>3, <1>4, <1>5, <1>6, <1>7

\* A child is under its parent and beside the other children.
LEMMA ChildIs ==
    ASSUME NEW at \in Seq(Nat), NEW i \in Nat
    PROVE  /\ Append(at, i) \in Seq(Nat) /\ Len(Append(at, i)) = Len(at) + 1
           /\ Front(Append(at, i)) = at
           /\ \A n \in 1..Len(at) : SubSeq(Append(at, i), 1, n) = SubSeq(at, 1, n)
           /\ Under(at, Append(at, i)) /\ ~Under(Append(at, i), at)
           /\ \A j \in Nat : Under(Append(at, i), Append(at, j)) => i = j
<1> DEFINE c == Append(at, i)
<1>1. /\ c \in Seq(Nat) /\ Len(c) = Len(at) + 1 /\ Len(at) \in Nat
      /\ c[Len(at) + 1] = i /\ \A n \in 1..Len(at) : c[n] = at[n]
    OBVIOUS
<1> HIDE DEF c
<1>2. \A n \in 0..Len(at) : SubSeq(c, 1, n) = SubSeq(at, 1, n)
  <2> SUFFICES ASSUME NEW n \in 0..Len(at)
               PROVE  SubSeq(c, 1, n) = SubSeq(at, 1, n)
      OBVIOUS
  <2>1. SubSeq(c, 1, n) \in Seq(Nat) /\ Len(SubSeq(c, 1, n)) = n
      BY <1>1
  <2>2. SubSeq(at, 1, n) \in Seq(Nat) /\ Len(SubSeq(at, 1, n)) = n
      BY <1>1
  <2>3. \A k \in 1..n : SubSeq(c, 1, n)[k] = SubSeq(at, 1, n)[k]
      BY <1>1
  <2> QED BY <2>1, <2>2, <2>3
<1>3. SubSeq(at, 1, Len(at)) = at
    BY <1>1
<1>4. SubSeq(c, 1, Len(at)) = at
    BY <1>1, <1>2, <1>3
<1>5. Front(c) = at
    BY <1>1, <1>4 DEF Front
<1>6. Under(at, c) /\ ~Under(c, at)
    BY <1>1, <1>4 DEF Under
<1>7. ASSUME NEW j \in Nat, Under(c, Append(at, j)) PROVE i = j
  <2> DEFINE d == Append(at, j)
  <2>1. d \in Seq(Nat) /\ Len(d) = Len(c) /\ d[Len(at) + 1] = j
      BY <1>1
  <2>2. SubSeq(d, 1, Len(d)) = d
      BY <2>1
  <2>3. SubSeq(d, 1, Len(c)) = c
      BY <1>7 DEF Under
  <2> HIDE DEF d
  <2> QED BY <1>1, <2>1, <2>2, <2>3
<1> QED BY <1>1, <1>2, <1>5, <1>6, <1>7 DEF c

\* What is under a child is under its parent; what a child is under is the
\* child or has the parent under it.
LEMMA ChildUnder ==
    ASSUME NEW at \in Seq(Nat), NEW i \in Nat, NEW p \in Seq(Nat)
    PROVE  /\ Under(Append(at, i), p) => Under(at, p)
           /\ Under(p, Append(at, i)) => p = Append(at, i) \/ Under(p, at)
<1> DEFINE c == Append(at, i)
<1>1. c \in Seq(Nat) /\ Len(c) = Len(at) + 1 /\ Front(c) = at /\ Len(at) \in Nat /\ Len(p) \in Nat
    BY ChildIs
<1>2. \A n \in 1..Len(at) : SubSeq(c, 1, n) = SubSeq(at, 1, n)
    BY ChildIs
<1> HIDE DEF c
<1>3. SubSeq(c, 1, Len(at)) = at /\ SubSeq(c, 1, 0) = SubSeq(at, 1, 0) /\ SubSeq(c, 1, Len(c)) = c
    BY <1>1 DEF Front
<1>4. ASSUME Under(c, p) PROVE Under(at, p)
  <2>1. Len(c) <= Len(p) /\ SubSeq(p, 1, Len(c)) = c
      BY <1>4 DEF Under
  <2>2. SubSeq(SubSeq(p, 1, Len(c)), 1, Len(at)) = SubSeq(p, 1, Len(at))
    <3>1. Len(c) \in 0..Len(p) /\ Len(at) \in 0..Len(c)
        BY <1>1, <2>1
    <3> QED BY <3>1, PrefixOfPrefix, SMTT(30)
  <2> QED BY <1>1, <1>3, <2>1, <2>2 DEF Under
<1>5. ASSUME Under(p, c), p # c PROVE Under(p, at)
  <2>1. Len(p) <= Len(c) /\ SubSeq(c, 1, Len(p)) = p
      BY <1>5 DEF Under
  <2>2. Len(p) # Len(c)
      BY <1>3, <1>5, <2>1
  <2>l. Len(p) \in Nat /\ Len(at) \in Nat /\ Len(c) = Len(at) + 1 /\ Len(p) <= Len(c)
      BY <1>1, <2>1
  <2>3. Len(p) = 0 \/ Len(p) \in 1..Len(at)
      BY <2>l, <2>2
  <2>4. SubSeq(at, 1, Len(p)) = p
    <3>1. SubSeq(c, 1, Len(p)) = SubSeq(at, 1, Len(p))
        BY <1>2, <1>3, <2>3
    <3> QED BY <2>1, <3>1
  <2> QED BY <1>1, <2>3, <2>4 DEF Under
<1> QED BY <1>4, <1>5 DEF c

LEMMA AboveChild ==
    ASSUME NEW at \in Seq(Nat), NEW i \in Nat
    PROVE  Above(Append(at, i)) = IF at = <<>> THEN {} ELSE Above(at) \cup {at}
<1> DEFINE c == Append(at, i)
<1>1. /\ Len(c) = Len(at) + 1 /\ Len(at) \in Nat /\ SubSeq(at, 1, Len(at)) = at
      /\ \A n \in 1..Len(at) : SubSeq(c, 1, n) = SubSeq(at, 1, n)
    BY ChildIs
<1> HIDE DEF c
<1>2. Above(c) = {SubSeq(at, 1, n) : n \in 1..Len(at)}
  <2>1. (Len(at) + 1) - 1 = Len(at)
      BY <1>1
  <2>2. Above(c) = {SubSeq(c, 1, n) : n \in 1..Len(at)}
      BY <1>1, <2>1 DEF Above
  <2> QED BY <1>1, <2>2
<1>3. CASE at = <<>>
    BY <1>1, <1>2, <1>3 DEF c
<1>4. CASE at # <<>>
  <2>1. Len(at) # 0
      BY <1>4
  <2>2. 1..Len(at) = 1..(Len(at) - 1) \cup {Len(at)}
      BY <1>1, <2>1
  <2>3. Above(c) = Above(at) \cup {at}
      BY <1>1, <1>2, <2>2 DEF Above
  <2> QED BY <1>4, <2>3 DEF c
<1> QED BY <1>3, <1>4

\* The calls for a list of relationships: one for each, and together they
\* reach all that is below.
LEMMA CallsBelowAre ==
    ASSUME config \in Configs, NEW at \in {<<>>} \cup DOMAIN config.forest,
           NEW prefix \in Seq(Parts), NEW ancestors \in SUBSET Resources
    PROVE  LET kids == CallsBelow(at, prefix, ancestors) IN
           /\ kids \in Seq(CallsTo)
           /\ \A i \in DOMAIN kids : /\ i \in Nat
                                     /\ kids[i] = Call(Append(at, i), prefix, ancestors)
           /\ \A p \in DOMAIN config.forest : Under(at, p) /\ p # at =>
                 \E i \in DOMAIN kids : Under(kids[i].at, p)
<1> DEFINE below == KidsIn(config.forest, at)
           m == Cardinality(below)
           call(i) == Call(Append(at, i), prefix, ancestors)
           kids == [i \in 1..m |-> call(i)]
<1>1. IsForest(config.forest)
    BY ConfigsAssumption
<1>2. at \in Seq(Nat)
  <2>1. <<>> \in Seq(Nat)
      OBVIOUS
  <2> QED BY <2>1, PathFacts
<1>3. below = {Append(at, i) : i \in 1..m}
    BY <1>1 DEF IsForest
<1>4. m \in Nat
  <2>1. below \in SUBSET DOMAIN config.forest /\ IsFiniteSet(DOMAIN config.forest)
      BY <1>1 DEF KidsIn, IsForest
  <2> HIDE DEF below
  <2>2. IsFiniteSet(below)
      BY <2>1, FS_Subset
  <2> QED BY <2>2, FS_CardinalityType
<1>5. \A i \in 1..m : Append(at, i) \in DOMAIN config.forest
    BY <1>3 DEF KidsIn
<1>6. \A i \in 1..m : call(i) \in CallsTo
    BY <1>5 DEF Call, CallsTo
<1>7. CallsBelow(at, prefix, ancestors) = kids
    BY DEF CallsBelow
<1>8. ASSUME NEW p \in DOMAIN config.forest, Under(at, p), p # at
      PROVE  \E i \in 1..m : Under(Append(at, i), p)
  <2> DEFINE n == Len(at) + 1
             child == SubSeq(p, 1, n)
  <2>1. p \in Seq(Nat) /\ \A k \in 1..Len(p) : SubSeq(p, 1, k) \in DOMAIN config.forest
      BY PathFacts
  <2>2. Len(at) \in Nat /\ n \in 1..Len(p) /\ SubSeq(p, 1, Len(at)) = at
    <3>1. Len(at) <= Len(p) /\ SubSeq(p, 1, Len(at)) = at
        BY <1>8 DEF Under
    <3>2. Len(at) # Len(p)
        BY <1>2, <2>1, <3>1, <1>8
    <3> QED BY <1>2, <2>1, <3>1, <3>2
  <2>3. child \in DOMAIN config.forest
      BY <2>1, <2>2
  <2>4. child \in Seq(Nat) /\ Len(child) = n /\ Front(child) = at /\ child # <<>>
      BY <2>1, <2>2, SMTT(30) DEF Front
  <2>5. child \in below
      BY <2>3, <2>4 DEF KidsIn
  <2>6. PICK i \in 1..m : child = Append(at, i)
      BY <1>3, <2>5
  <2>7. Under(child, p)
      BY <2>1, <2>2, <2>4 DEF Under
  <2> QED BY <2>6, <2>7
<1>9. kids \in Seq(CallsTo) /\ DOMAIN kids = 1..m
  <2> HIDE DEF m, call
  <2> QED BY <1>4, <1>6
<1>10. \A i \in 1..m : i \in Nat /\ kids[i] = call(i) /\ kids[i].at = Append(at, i)
    BY <1>4 DEF Call
<1> HIDE DEF kids, m, call
<1> QED BY <1>7, <1>8, <1>9, <1>10 DEF call

\* A list and one more.
LEMMA OneMore ==
    ASSUME NEW S, NEW s \in Seq(S), NEW t \in Seq(S)
    PROVE  Len(t) = 1 => /\ s \o t \in Seq(S) /\ Len(s \o t) = Len(s) + 1
                         /\ (s \o t)[Len(s) + 1] = t[1]
                         /\ \A n \in 1..Len(s) : (s \o t)[n] = s[n]
<1>1. s \o t \in Seq(S)
    OBVIOUS
<1>3. Len(s \o t) = Len(s) + Len(t)
    OBVIOUS
<1>4. \A n \in 1..Len(s) : (s \o t)[n] = s[n]
    OBVIOUS
<1>5. \A n \in 1..Len(t) : (s \o t)[Len(s) + n] = t[n]
    OBVIOUS
<1>2. Len(s) \in Nat /\ (Len(t) = 1 => 1 \in 1..Len(t))
    OBVIOUS
<1> QED BY <1>1, <1>2, <1>3, <1>4, <1>5

\* The dotted name of a relationship grows by one part at each level.
LEMMA NamesAre ==
    ASSUME config \in Configs, NEW at \in DOMAIN config.forest
    PROVE  /\ PathNames(at) \in Seq(Parts) /\ Len(PathNames(at)) = Len(at)
           /\ \A n \in 1..Len(at) : PathNames(at)[n] = config.forest[SubSeq(at, 1, n)].name[1]
           /\ Len(config.forest[at].name) = 1 =>
                 PathNames(at) = IF Len(at) = 1 THEN config.forest[at].name
                                 ELSE PathNames(Front(at)) \o config.forest[at].name
<1> DEFINE part(n) == config.forest[SubSeq(at, 1, n)].name[1]
           names == PathNames(at)
           last == config.forest[at].name
           m == Len(at)
<1>1. /\ at \in Seq(Nat) /\ m \in Nat \ {0} /\ DOMAIN at = 1..m
      /\ \A n \in 1..m : SubSeq(at, 1, n) \in DOMAIN config.forest
      /\ last \in Seq(Parts) /\ last # <<>>
    BY PathFacts
<1>2. \A n \in 1..m : part(n) \in Parts
  <2> SUFFICES ASSUME NEW n \in 1..m PROVE part(n) \in Parts
      OBVIOUS
  <2>1. /\ config.forest[SubSeq(at, 1, n)].name \in Seq(Parts)
        /\ config.forest[SubSeq(at, 1, n)].name # <<>>
      BY <1>1, PathFacts
  <2> QED BY <2>1
<1>3. names = [n \in 1..m |-> part(n)]
    BY <1>1 DEF PathNames
<1>4. names \in Seq(Parts) /\ Len(names) = m /\ \A n \in 1..m : names[n] = part(n)
  <2> HIDE DEF part, m, names
  <2> QED BY <1>1, <1>2, <1>3
<1>5. part(m) = last[1]
  <2>1. SubSeq(at, 1, m) = at
      BY <1>1
  <2> HIDE DEF m
  <2> QED BY <2>1
<1>6. ASSUME Len(last) = 1, m = 1 PROVE names = last
  <2> HIDE DEF names, last, part
  <2> QED BY <1>1, <1>4, <1>5, <1>6
<1>7. ASSUME Len(last) = 1, m # 1 PROVE names = PathNames(Front(at)) \o last
  <2> DEFINE up == Front(at)
             upper == PathNames(up)
  <2>1. up = SubSeq(at, 1, m - 1) /\ up \in Seq(Nat) /\ Len(up) = m - 1 /\ DOMAIN up = 1..(m - 1)
      BY <1>1, <1>7 DEF Front
  <2>2. \A n \in 1..(m - 1) : SubSeq(up, 1, n) = SubSeq(at, 1, n)
    <3> SUFFICES ASSUME NEW n \in 1..(m - 1) PROVE SubSeq(up, 1, n) = SubSeq(at, 1, n)
        OBVIOUS
    <3>1. m - 1 \in 0..Len(at) /\ n \in 0..(m - 1)
        BY <1>1
    <3> QED BY <1>1, <2>1, <3>1, PrefixOfPrefix
  <2>3. upper = [n \in 1..(m - 1) |-> part(n)]
      BY <2>1, <2>2 DEF PathNames
  <2>4. \A n \in 1..(m - 1) : part(n) \in Parts
      BY <1>1, <1>2
  <2> HIDE DEF upper, part, names, last, m
  <2>5. upper \in Seq(Parts) /\ Len(upper) = m - 1 /\ \A n \in 1..(m - 1) : upper[n] = part(n)
      BY <1>1, <2>3, <2>4
  <2>6. /\ upper \o last \in Seq(Parts) /\ Len(upper \o last) = m
        /\ (upper \o last)[m] = last[1]
        /\ \A n \in 1..(m - 1) : (upper \o last)[n] = upper[n]
    <3>1. last \in Seq(Parts) /\ Len(last) = 1
        BY <1>1, <1>7
    <3>2. /\ upper \o last \in Seq(Parts) /\ Len(upper \o last) = Len(upper) + 1
          /\ (upper \o last)[Len(upper) + 1] = last[1]
          /\ \A n \in 1..Len(upper) : (upper \o last)[n] = upper[n]
        BY <2>5, <3>1, OneMore
    <3>3. Len(upper) = m - 1 /\ Len(upper) + 1 = m
        BY <1>1, <2>5
    <3> QED BY <3>2, <3>3
  <2>7. \A n \in 1..m : n = m \/ n \in 1..(m - 1)
      BY <1>1
  <2>8. names = upper \o last
      BY <1>1, <1>4, <1>5, <2>5, <2>6, <2>7
  <2> QED BY <2>8 DEF upper
<1> QED BY <1>4, <1>6, <1>7

\* In a well-formed forest no two relationships have the same dotted name.
LEMMA NamesDiffer ==
    ASSUME config \in Configs, WellFormedForest,
           NEW p \in DOMAIN config.forest, NEW q \in DOMAIN config.forest,
           PathNames(p) = PathNames(q)
    PROVE  p = q
<1> DEFINE m == Len(p)
           f == config.forest
           G == {k \in 0..m : SubSeq(p, 1, k) = SubSeq(q, 1, k)}
<1>1. /\ p \in Seq(Nat) /\ q \in Seq(Nat) /\ m \in Nat \ {0}
      /\ \A n \in 1..m : SubSeq(p, 1, n) \in DOMAIN f
    BY PathFacts
<1>2. Len(q) = m
    BY NamesAre
<1>3. \A n \in 1..m : SubSeq(q, 1, n) \in DOMAIN f
    BY <1>2, PathFacts
<1>4. \A n \in 1..m : f[SubSeq(p, 1, n)].name[1] = f[SubSeq(q, 1, n)].name[1]
    BY <1>2, NamesAre
<1>5. 0 \in G
    BY <1>1, <1>2
<1>6. ASSUME NEW k \in 0..(m - 1), k \in G PROVE k + 1 \in G
  <2> DEFINE a == SubSeq(p, 1, k + 1)
             b == SubSeq(q, 1, k + 1)
  <2>1. k + 1 \in 1..m /\ k \in Nat /\ (k + 1) - 1 = k
      BY <1>1
  <2>2. a \in DOMAIN f /\ b \in DOMAIN f /\ f[a].name[1] = f[b].name[1]
      BY <1>1, <1>3, <1>4, <2>1
  <2>3. Front(a) = SubSeq(p, 1, k)
    <3>1. Len(a) = k + 1 /\ k + 1 \in 0..Len(p) /\ k \in 0..(k + 1)
        BY <1>1, <2>1
    <3>2. Front(a) = SubSeq(SubSeq(p, 1, k + 1), 1, k)
        BY <2>1, <3>1 DEF Front
    <3> QED BY <1>1, <3>1, <3>2, PrefixOfPrefix
  <2>4. Front(b) = SubSeq(q, 1, k)
    <3>1. Len(b) = k + 1 /\ k + 1 \in 0..Len(q) /\ k \in 0..(k + 1)
        BY <1>1, <1>2, <2>1
    <3>2. Front(b) = SubSeq(SubSeq(q, 1, k + 1), 1, k)
        BY <2>1, <3>1 DEF Front
    <3> QED BY <1>1, <3>1, <3>2, PrefixOfPrefix
  <2>5. Front(a) = Front(b)
      BY <1>6, <2>3, <2>4
  <2>6. f[a].name = f[b].name
    <3>1. Len(f[a].name) = 1 /\ Len(f[b].name) = 1
        BY <2>2 DEF WellFormedForest
    <3>2. f[a].name \in Seq(Parts) /\ f[b].name \in Seq(Parts)
        BY <2>2, PathFacts
    <3> HIDE DEF a, b
    <3> QED BY <2>2, <3>1, <3>2
  <2>7. a = b
    <3> HIDE DEF a, b
    <3> QED BY <2>2, <2>5, <2>6 DEF WellFormedForest
  <2> QED BY <2>1, <2>7
<1>7. 0..m \subseteq G
  <2> HIDE DEF G
  <2> QED BY <1>1, <1>5, <1>6, Climb
<1>8. SubSeq(p, 1, m) = SubSeq(q, 1, m)
    BY <1>1, <1>7
<1>9. SubSeq(p, 1, m) = p /\ SubSeq(q, 1, m) = q
    BY <1>1, <1>2
<1> QED BY <1>8, <1>9

-----------------------------------------------------------------------------
\* The steps of NewSchema.

\* The configuration stays, and so does all that is read from it alone.
LEMMA ConfigStays ==
    ASSUME config' = config
    PROVE  /\ Resources' = Resources /\ CallsTo' = CallsTo
           /\ \A at : PathNames(at)' = PathNames(at) /\ PrefixOf(at)' = PrefixOf(at)
           /\ \A p : FineEdge(p)' <=> FineEdge(p)
           /\ HeaderOK' <=> HeaderOK
           /\ ListsOK' <=> ListsOK
           /\ WellFormedPages' <=> WellFormedPages
           /\ WellFormed' <=> WellFormed
<1>1. Resources' = Resources /\ CallsTo' = CallsTo
    BY DEF Resources, CallsTo, Parts
<1>2. \A at : PathNames(at)' = PathNames(at) /\ PrefixOf(at)' = PrefixOf(at)
    BY DEF PathNames, PrefixOf
<1>3. \A b : Limit(b)' = Limit(b)
    BY DEF Limit
<1>4. \A d : ValidCost(d)' <=> ValidCost(d)
    BY <1>3 DEF ValidCost
<1>5. \A p : FineEdge(p)' <=> FineEdge(p)
    BY <1>4 DEF FineEdge
<1>6. HeaderOK' <=> HeaderOK
    BY DEF HeaderOK
<1>7. \A list : DefinedOK(list)' <=> DefinedOK(list)
    BY <1>4 DEF DefinedOK
<1>8. ListsOK' <=> ListsOK
    BY <1>7 DEF ListsOK, FiltersOK, NullsOK
<1>9. \A name : Sorts(name)' = Sorts(name) /\ (IsTie(name)' <=> IsTie(name))
    BY DEF Sorts, IsTie, SortOf
<1>10. TieBreakers' = TieBreakers
    BY DEF TieBreakers
<1>11. WellFormedPages' <=> WellFormedPages
    BY <1>3, <1>9, <1>10 DEF WellFormedPages
<1>12. WellFormedForest' <=> WellFormedForest
    BY <1>4 DEF WellFormedForest
<1>13. WellFormed' <=> WellFormed
    BY <1>6, <1>8, <1>11, <1>12, WellFormedParts, PTL
<1> QED BY <1>1, <1>2, <1>5, <1>6, <1>8, <1>11, <1>13

LEMMA HasFinitelyMany ==
    ASSUME config \in Configs
    PROVE  IsFiniteSet(Resources)
<1> DEFINE D == DOMAIN config.forest
           f == [p \in D |-> config.forest[p].resource]
<1>1. IsFiniteSet(D)
    BY ConfigsAssumption DEF IsForest
<1> DEFINE R == {config.forest[p].resource : p \in D}
<1>2. f \in Surjection(D, R)
    BY DEF Surjection
<1>3. IsFiniteSet(R)
  <2> HIDE DEF f, D, R
  <2> QED BY <1>1, <1>2, FS_Surjection
<1>4. IsFiniteSet({config.resource} \cup {config.forest[p].resource : p \in D})
    BY <1>2, <1>3, FS_Singleton, FS_Union
<1> QED BY <1>4 DEF Resources

LEMMA SInvInit == SchemaInit => SInv
<1> SUFFICES ASSUME SchemaInit PROVE SInv
    OBVIOUS
<1>1. /\ config \in Configs /\ phase = "header" /\ calls = <<>> /\ index = <<>>
      /\ violations = <<>>
    BY DEF SchemaInit
<1>2. STyped
    BY <1>1 DEF STyped
<1>3. DescentIsAcyclic
    BY <1>1 DEF DescentIsAcyclic
<1>4. Fresh /\ Walked /\ Checked
    BY <1>1 DEF Fresh, Walked, Checked
<1> QED BY <1>2, <1>3, <1>4 DEF SInv

\* Reporting: what was clean stays clean exactly if nothing is added.
LEMMA Reporting ==
    ASSUME config \in Configs, violations \in Seq(Codes), NEW codes \in Seq(Codes), Report(codes)
    PROVE  /\ violations' \in Seq(Codes)
           /\ violations' = <<>> <=> violations = <<>> /\ codes = <<>>
<1>1. Limit("MaxErrors") \in Nat \ {0}
    BY Limits, SchemaAssumption
<1> QED BY <1>1, FirstFew DEF Report, Collected

LEMMA HeaderKeeps ==
    ASSUME SInv, Header
    PROVE  SInv'
<1> DEFINE codes == BoundFaults \o
                    Fault(config.resource \notin ValidNames, "invalid_element") \o
                    Fault(~config.revisionValid, "invalid_element") \o LogicFaults
<1>1. /\ config \in Configs /\ violations \in Seq(Codes) /\ calls \in Seq(CallsTo)
      /\ calls = <<>> /\ index = <<>> /\ (WellFormed => violations = <<>>)
    BY DEF SInv, STyped, Checked, Header
<1>2. /\ Report(codes) /\ phase' = "fields" /\ config' = config /\ calls' = <<>> /\ index' = <<>>
    BY <1>1 DEF Header
<1>3. codes \in Seq(Codes) /\ (codes = <<>> <=> HeaderOK)
    BY <1>1, HeaderFaults
<1> HIDE DEF codes
<1>4. violations' \in Seq(Codes) /\ (violations' = <<>> <=> violations = <<>> /\ codes = <<>>)
    BY <1>1, <1>2, <1>3, Reporting
<1>5. STyped'
    BY <1>1, <1>2, <1>4 DEF STyped
<1>6. DescentIsAcyclic' /\ Fresh' /\ Walked'
    BY <1>2 DEF DescentIsAcyclic, Fresh, Walked
<1>7. Checked'
  <2>1. (HeaderOK' <=> HeaderOK) /\ (WellFormed' <=> WellFormed)
      BY <1>2, ConfigStays
  <2>2. WellFormed => HeaderOK
      BY WellFormedParts
  <2>3. violations' = <<>> => HeaderOK'
      BY <1>3, <1>4, <2>1
  <2>4. WellFormed' => violations' = <<>>
      BY <1>1, <1>3, <1>4, <2>1, <2>2
  <2> QED BY <1>2, <2>3, <2>4 DEF Checked
<1> QED BY <1>5, <1>6, <1>7 DEF SInv

LEMMA DefinitionsKeep ==
    ASSUME SInv, Definitions
    PROVE  SInv'
<1> DEFINE codes == FieldFaults \o FilterFaults \o SortFaults
           top == <<>>
           none == <<"">>
           kids == CallsBelow(top, none, {config.resource})
<1>0. top \in Seq(Nat) /\ Len(top) = 0
    OBVIOUS
<1>1. /\ config \in Configs /\ violations \in Seq(Codes) /\ phase = "fields"
      /\ index = <<>> /\ (WellFormed => violations = <<>>)
      /\ violations = <<>> => HeaderOK
    BY DEF SInv, STyped, Checked, Definitions
<1>2. /\ Report(codes) /\ phase' = "relationships" /\ config' = config
      /\ calls' = kids /\ index' = <<>>
    BY <1>1 DEF Definitions
<1>3. codes \in Seq(Codes) /\ (codes = <<>> <=> ListsOK)
    BY <1>1, ListFaults
<1> HIDE DEF codes
<1>4. violations' \in Seq(Codes) /\ (violations' = <<>> <=> violations = <<>> /\ codes = <<>>)
    BY <1>1, <1>2, <1>3, Reporting
<1>5. /\ kids \in Seq(CallsTo)
      /\ \A i \in DOMAIN kids : /\ i \in Nat
                                /\ kids[i] = Call(Append(top, i), none, {config.resource})
      /\ \A p \in DOMAIN config.forest : Under(top, p) /\ p # top =>
            \E i \in DOMAIN kids : Under(kids[i].at, p)
  <2>1. none \in Seq(Parts) /\ {config.resource} \in SUBSET Resources
      BY DEF Parts, Resources
  <2> HIDE DEF kids
  <2> QED BY <1>1, <2>1, CallsBelowAre DEF kids
<1> HIDE DEF kids
<1>6. STyped'
  <2>1. calls' \in Seq(CallsTo')
      BY <1>2, <1>5, ConfigStays
  <2> QED BY <1>1, <1>2, <1>4, <2>1 DEF STyped
<1>7. \A i \in DOMAIN kids :
          /\ i \in Nat /\ kids[i].at = Append(top, i) /\ kids[i].prefix = none
          /\ kids[i].ancestors = {config.resource}
          /\ Len(kids[i].at) = 1 /\ Above(kids[i].at) = {}
  <2> SUFFICES ASSUME NEW i \in DOMAIN kids
               PROVE  /\ i \in Nat /\ kids[i].at = Append(top, i) /\ kids[i].prefix = none
                      /\ kids[i].ancestors = {config.resource}
                      /\ Len(kids[i].at) = 1 /\ Above(kids[i].at) = {}
      OBVIOUS
  <2>1. Above(Append(top, i)) = {} /\ Len(Append(top, i)) = 1
    <3>1. i \in Nat
        BY <1>5
    <3>2. Len(Append(top, i)) = Len(top) + 1
        BY <1>0, <3>1, ChildIs
    <3>3. Above(Append(top, i)) = {}
        BY <1>0, <3>1, AboveChild
    <3> QED BY <1>0, <3>2, <3>3
  <2> HIDE DEF top, none
  <2>2. /\ i \in Nat /\ kids[i].at = Append(top, i) /\ kids[i].prefix = none
        /\ kids[i].ancestors = {config.resource}
      BY <1>5 DEF Call
  <2> QED BY <2>1, <2>2
<1>8. DescentIsAcyclic'
  <2>1. IsFiniteSet(Resources) /\ config.resource \in Resources
      BY <1>1, HasFinitelyMany DEF Resources
  <2>2. Cardinality({config.resource}) = 1 /\ 1 <= Cardinality(Resources)
    <3>1. Cardinality({config.resource}) = 1
        BY FS_Singleton
    <3>2. {config.resource} \subseteq Resources
        BY <2>1
    <3>3. Cardinality({config.resource}) <= Cardinality(Resources)
        BY <2>1, <3>2, FS_Subset
    <3> QED BY <3>1, <3>3
  <2>3. Resources' = Resources
      BY <1>2, ConfigStays
  <2> QED BY <1>2, <1>7, <2>2, <2>3 DEF DescentIsAcyclic
<1>9. Fresh'
  <2>1. ASSUME NEW i \in DOMAIN kids, NEW j \in DOMAIN kids, i # j
        PROVE  ~Under(kids[i].at, kids[j].at)
    <3>1. Under(Append(top, i), Append(top, j)) => i = j
        BY <1>0, <1>7, ChildIs
    <3> HIDE DEF top
    <3> QED BY <1>7, <2>1, <3>1
  <2> QED BY <1>2, <2>1 DEF Fresh
<1>10. Walked'
  <2>1. \A p \in DOMAIN config.forest : \E i \in DOMAIN kids : Under(kids[i].at, p)
    <3> SUFFICES ASSUME NEW p \in DOMAIN config.forest
                 PROVE  \E i \in DOMAIN kids : Under(kids[i].at, p)
        OBVIOUS
    <3>1. p \in Seq(Nat) /\ p # top
        BY <1>1, PathFacts
    <3>2. Under(top, p)
        BY <3>1 DEF Under
    <3> HIDE DEF top
    <3> QED BY <1>5, <3>1, <3>2
  <2>2. \A i \in DOMAIN kids : kids[i].prefix = PrefixOf(kids[i].at)
      BY <1>7 DEF PrefixOf
  <2>3. \A at : PrefixOf(at)' = PrefixOf(at)
      BY <1>2, ConfigStays
  <2>4. DOMAIN index' = {}
      BY <1>2
  <2> HIDE DEF top, none
  <2> QED BY <1>2, <1>7, <2>1, <2>2, <2>3, <2>4 DEF Walked
<1>11. Checked'
  <2>1. /\ HeaderOK' <=> HeaderOK
        /\ ListsOK' <=> ListsOK
        /\ WellFormed' <=> WellFormed
      BY <1>2, ConfigStays
  <2>2. WellFormed => ListsOK
      BY WellFormedParts
  <2>3. violations' = <<>> => HeaderOK' /\ ListsOK'
      BY <1>1, <1>3, <1>4, <2>1
  <2>4. WellFormed' => violations' = <<>>
      BY <1>1, <1>3, <1>4, <2>1, <2>2
  <2> QED BY <1>2, <2>3, <2>4 DEF Checked
<1> QED BY <1>6, <1>8, <1>9, <1>10, <1>11 DEF SInv

LEMMA PaginationKeeps ==
    ASSUME SInv, Pagination
    PROVE  SInv'
<1>1. /\ config \in Configs /\ violations \in Seq(Codes) /\ phase = "relationships"
      /\ calls = <<>> /\ calls \in Seq(CallsTo) /\ (WellFormed => violations = <<>>)
      /\ violations = <<>> => HeaderOK /\ ListsOK
    BY DEF SInv, STyped, Checked, Pagination
<1>2. /\ Report(PaginationCodes) /\ phase' = "done" /\ config' = config
      /\ calls' = calls /\ index' = index
    BY DEF Pagination, PaginationCodes
<1>3. /\ PaginationCodes \in Seq(Codes)
      /\ ListsOK => (PaginationCodes = <<>> <=> WellFormedPages)
    BY <1>1, PaginationFaults
<1>4. /\ violations' \in Seq(Codes)
      /\ violations' = <<>> <=> violations = <<>> /\ PaginationCodes = <<>>
    BY <1>1, <1>2, <1>3, Reporting
<1>5. STyped'
  <2>1. calls' = <<>> /\ calls' \in Seq(CallsTo')
      BY <1>1, <1>2, ConfigStays
  <2> QED BY <1>1, <1>2, <1>4, <2>1 DEF STyped
<1>6. DescentIsAcyclic' /\ Fresh'
  <2>1. DescentIsAcyclic'
      BY <1>1, <1>2 DEF DescentIsAcyclic
  <2>2. Fresh'
      BY <1>1, <1>2 DEF SInv, Fresh
  <2> QED BY <2>1, <2>2
<1>7. Walked'
  <2> SUFFICES ASSUME violations' = <<>>
               PROVE  /\ \A p \in DOMAIN config.forest : Settled(p)'
                      /\ \A n \in DOMAIN index : n = PathNames(index[n].path)'
      BY <1>1, <1>2 DEF Walked
  <2>1. /\ \A p \in DOMAIN config.forest : Settled(p)
        /\ \A n \in DOMAIN index : n = PathNames(index[n].path)
      BY <1>1, <1>4 DEF SInv, Walked
  <2>2. \A p : Settled(p)' <=> Settled(p)
      BY <1>2, ConfigStays DEF Settled
  <2> QED BY <1>2, <2>1, <2>2, ConfigStays
<1>8. Checked'
  <2>1. /\ HeaderOK' <=> HeaderOK
        /\ ListsOK' <=> ListsOK
        /\ WellFormedPages' <=> WellFormedPages
        /\ WellFormed' <=> WellFormed
      BY <1>2, ConfigStays
  <2>2. WellFormed => ListsOK /\ WellFormedPages
      BY WellFormedParts
  <2>3. violations' = <<>> => HeaderOK' /\ ListsOK' /\ WellFormedPages'
      BY <1>1, <1>3, <1>4, <2>1
  <2>4. WellFormed' => violations' = <<>>
      BY <1>1, <1>3, <1>4, <2>1, <2>2
  <2> QED BY <2>3, <2>4 DEF Checked
<1> QED BY <1>5, <1>6, <1>7, <1>8 DEF SInv

\* The faults of one relationship.
LEMMA RelationshipFaultsAre ==
    ASSUME NEW call
    PROVE  LET r == config.forest[call.at]
               codes == RelationshipFaults(call) \o Fault(r.resource \in call.ancestors, "conflict")
           IN /\ codes \in Seq(Codes)
              /\ codes = <<>> <=> /\ r.name \in {<<n>> : n \in ValidNames}
                                  /\ r.resource \in ValidNames /\ ValidCost(r)
                                  /\ FullName(call) \notin DOMAIN index
                                  /\ r.resource \notin call.ancestors
<1> DEFINE r == config.forest[call.at]
           a == Fault(r.name \notin {<<n>> : n \in ValidNames} \/ r.resource \notin ValidNames,
                      "invalid_element")
           b == Fault(~ValidCost(r), "invalid_element")
           c == Fault(FullName(call) \in DOMAIN index, "conflict")
           d == Fault(r.resource \in call.ancestors, "conflict")
<1>1. /\ a \in Seq(Codes)
      /\ a = <<>> <=> ~(r.name \notin {<<n>> : n \in ValidNames} \/ r.resource \notin ValidNames)
    BY CodesAre, Faults
<1>2. b \in Seq(Codes) /\ (b = <<>> <=> ~(~ValidCost(r)))
    BY CodesAre, Faults
<1>3. c \in Seq(Codes) /\ (c = <<>> <=> ~(FullName(call) \in DOMAIN index))
    BY CodesAre, Faults
<1>4. d \in Seq(Codes) /\ (d = <<>> <=> ~(r.resource \in call.ancestors))
    BY CodesAre, Faults
<1>5. RelationshipFaults(call) = a \o b \o c
    BY DEF RelationshipFaults
<1> HIDE DEF a, b, c, d, r
<1>6. /\ (a \o b \o c) \o d \in Seq(Codes)
      /\ (a \o b \o c) \o d = <<>> <=> a = <<>> /\ b = <<>> /\ c = <<>> /\ d = <<>>
    BY <1>1, <1>2, <1>3, <1>4
<1>7. (RelationshipFaults(call) \o d \in Seq(Codes)) /\
      (RelationshipFaults(call) \o d = <<>> <=>
          /\ r.name \in {<<n>> : n \in ValidNames}
          /\ r.resource \in ValidNames /\ ValidCost(r)
          /\ FullName(call) \notin DOMAIN index
          /\ r.resource \notin call.ancestors)
    BY <1>1, <1>2, <1>3, <1>4, <1>5, <1>6
<1> QED BY <1>7 DEF d, r

\* While nothing is reported, the name a call would index is the dotted name of
\* its relationship.
LEMMA FullNameIs ==
    ASSUME config \in Configs, NEW call, call.at \in DOMAIN config.forest,
           call.prefix = PrefixOf(call.at),
           \A q \in Above(call.at) : FineEdge(q),
           Len(config.forest[call.at].name) = 1
    PROVE  FullName(call) = PathNames(call.at)
<1> DEFINE at == call.at
           last == config.forest[at].name
<1>l. Len(at) \in Nat \ {0}
    BY PathFacts
<1>m. Len(at) # 1 => Len(at) - 1 \in 1..(Len(at) - 1) /\ 1 \in 1..(Len(at) - 1)
  <2>1. \A m \in Nat \ {0} : m # 1 => m - 1 \in 1..(m - 1) /\ 1 \in 1..(m - 1)
      OBVIOUS
  <2> QED BY <1>l, <2>1
<1>1. /\ at \in Seq(Nat) /\ Len(at) \in Nat \ {0}
      /\ PathNames(at) = IF Len(at) = 1 THEN last ELSE PathNames(Front(at)) \o last
    BY PathFacts, NamesAre
<1>2. CASE Len(at) = 1
    BY <1>1, <1>2 DEF FullName, PrefixOf
<1>3. CASE Len(at) # 1
  <2>1. Front(at) \in Above(at)
    <3>1. Len(at) - 1 \in 1..(Len(at) - 1)
        BY <1>3, <1>m
    <3>2. Front(at) = SubSeq(at, 1, Len(at) - 1)
        BY DEF Front
    <3> QED BY <3>1, <3>2 DEF Above
  <2>2. SubSeq(at, 1, 1) \in Above(at)
    <3>1. 1 \in 1..(Len(at) - 1)
        BY <1>3, <1>m
    <3> QED BY <3>1 DEF Above
  <2>3. Front(at) \in DOMAIN config.forest /\ Front(at) = SubSeq(at, 1, Len(at) - 1)
      BY <1>1, <2>1, PathFacts DEF Front
  <2>4. config.forest[SubSeq(at, 1, 1)].name[1] # ""
      BY <2>2, SchemaAssumption DEF FineEdge
  <2>5. PathNames(Front(at)) # <<"">>
    <3> DEFINE up == Front(at)
    <3>0. up \in DOMAIN config.forest
        BY <2>3
    <3>1. /\ Len(up) \in Nat \ {0}
          /\ PathNames(up)[1] = config.forest[SubSeq(up, 1, 1)].name[1]
      <4> HIDE DEF up
      <4>1. Len(up) \in Nat \ {0}
          BY <3>0, PathFacts
      <4>2. 1 \in 1..Len(up)
          BY <4>1
      <4> QED BY <3>0, <4>1, <4>2, NamesAre
    <3>2. SubSeq(up, 1, 1) = SubSeq(at, 1, 1)
        BY <1>1, <1>3, <2>3
    <3>3. PathNames(up)[1] # ""
        BY <2>4, <3>1, <3>2
    <3> HIDE DEF up
    <3>4. <<"">>[1] = ""
        OBVIOUS
    <3> QED BY <3>3, <3>4 DEF up
  <2>6. call.prefix = PathNames(Front(at)) /\ call.prefix # <<"">>
      BY <1>3, <2>5 DEF PrefixOf
  <2> QED BY <1>1, <1>3, <2>6 DEF FullName
<1> QED BY <1>2, <1>3

-----------------------------------------------------------------------------
\* One relationship's turn: its call leaves the list, and those below it take
\* its place unless its resource has been seen on the way.

Turn(call, new) ==
    /\ phase = "relationships" /\ phase' = phase /\ config' = config
    /\ call \in CallsTo /\ 1 \in DOMAIN calls /\ calls[1] = call
    /\ new \in Seq(CallsTo) /\ calls' = new \o Tail(calls)
    /\ \A i \in DOMAIN new :
          /\ i \in Nat
          /\ new[i] = Call(Append(call.at, i), FullName(call), NextAncestors(call))
          /\ config.forest[call.at].resource \notin call.ancestors
    /\ config.forest[call.at].resource \notin call.ancestors =>
          \A p \in DOMAIN config.forest : Under(call.at, p) /\ p # call.at =>
              \E i \in DOMAIN new : Under(new[i].at, p)
    /\ index' = Indexed(call)
    /\ violations' \in Seq(Codes)
    /\ violations' = <<>> <=>
          /\ violations = <<>>
          /\ config.forest[call.at].name \in {<<n>> : n \in ValidNames}
          /\ config.forest[call.at].resource \in ValidNames
          /\ ValidCost(config.forest[call.at])
          /\ FullName(call) \notin DOMAIN index
          /\ config.forest[call.at].resource \notin call.ancestors

LEMMA TakesTurn ==
    ASSUME SInv, Relationship
    PROVE  \E call, new : Turn(call, new)
<1> DEFINE call == Head(calls)
           r == config.forest[call.at]
           cycle == r.resource \in call.ancestors
           codes == RelationshipFaults(call) \o Fault(cycle, "conflict")
           kids == CallsBelow(call.at, FullName(call), NextAncestors(call))
           new == IF cycle THEN <<>> ELSE kids
<1>1. config \in Configs /\ violations \in Seq(Codes) /\ calls \in Seq(CallsTo)
    BY DEF SInv, STyped
<1>2. /\ phase = "relationships" /\ calls # <<>> /\ phase' = phase /\ config' = config
      /\ Report(codes) /\ index' = Indexed(call)
      /\ calls' = IF cycle THEN Tail(calls) ELSE kids \o Tail(calls)
    BY DEF Relationship
<1>3. call \in CallsTo /\ 1 \in DOMAIN calls /\ calls[1] = call /\ Tail(calls) \in Seq(CallsTo)
    BY <1>1, <1>2, HeadAndTail
<1>4. /\ call.at \in DOMAIN config.forest /\ call.prefix \in Seq(Parts)
      /\ call.ancestors \in SUBSET Resources
    BY <1>3 DEF CallsTo
<1>5. FullName(call) \in Seq(Parts) /\ NextAncestors(call) \in SUBSET Resources
  <2>1. config.forest[call.at].name \in Seq(Parts) /\ config.forest[call.at].resource \in Resources
      BY <1>1, <1>4, PathFacts
  <2>2. FullName(call) \in Seq(Parts)
    <3> DEFINE last == config.forest[call.at].name
    <3>1. last \in Seq(Parts) /\ call.prefix \o last \in Seq(Parts)
        BY <1>4, <2>1
    <3>2. FullName(call) = last \/ FullName(call) = call.prefix \o last
        BY DEF FullName
    <3> QED BY <3>1, <3>2
  <2>3. NextAncestors(call) \in SUBSET Resources
      BY <1>4, <2>1 DEF NextAncestors
  <2> QED BY <2>2, <2>3
<1>6. /\ kids \in Seq(CallsTo)
      /\ \A i \in DOMAIN kids :
            /\ i \in Nat
            /\ kids[i] = Call(Append(call.at, i), FullName(call), NextAncestors(call))
      /\ \A p \in DOMAIN config.forest : Under(call.at, p) /\ p # call.at =>
            \E i \in DOMAIN kids : Under(kids[i].at, p)
    BY <1>1, <1>4, <1>5, CallsBelowAre
<1>7. /\ codes \in Seq(Codes)
      /\ codes = <<>> <=> /\ r.name \in {<<n>> : n \in ValidNames}
                          /\ r.resource \in ValidNames /\ ValidCost(r)
                          /\ FullName(call) \notin DOMAIN index
                          /\ r.resource \notin call.ancestors
    BY RelationshipFaultsAre
<1>8. violations' \in Seq(Codes) /\ (violations' = <<>> <=> violations = <<>> /\ codes = <<>>)
  <2> HIDE DEF codes
  <2> QED BY <1>1, <1>2, <1>7, Reporting
<1> HIDE DEF codes, kids, call
<1>9. new \in Seq(CallsTo) /\ calls' = new \o Tail(calls)
  <2>1. CASE cycle
    <3>1. <<>> \in Seq(CallsTo) /\ <<>> \o Tail(calls) = Tail(calls)
        BY <1>3
    <3> QED BY <2>1, <3>1, <1>2
  <2>2. CASE ~cycle
      BY <2>2, <1>2, <1>6
  <2> QED BY <2>1, <2>2
<1>10. \A i \in DOMAIN new :
          /\ i \in Nat
          /\ new[i] = Call(Append(call.at, i), FullName(call), NextAncestors(call))
          /\ r.resource \notin call.ancestors
    BY <1>6
<1>11. r.resource \notin call.ancestors =>
          \A p \in DOMAIN config.forest : Under(call.at, p) /\ p # call.at =>
              \E i \in DOMAIN new : Under(new[i].at, p)
    BY <1>6
<1>12. Turn(call, new)
  <2> HIDE DEF new
  <2> QED BY <1>2, <1>3, <1>7, <1>8, <1>9, <1>10, <1>11 DEF Turn
<1> QED BY <1>12

\* A list after its first element is replaced by a list of others.
LEMMA Replaced ==
    ASSUME SInv, NEW call, NEW new, Turn(call, new)
    PROVE  /\ calls' \in Seq(CallsTo)
           /\ \A i \in DOMAIN calls' :
                 \/ i \in DOMAIN new /\ calls'[i] = new[i]
                 \/ /\ i - Len(new) + 1 \in DOMAIN calls /\ i - Len(new) + 1 # 1
                    /\ calls'[i] = calls[i - Len(new) + 1]
           /\ \A j \in DOMAIN calls : j # 1 => \E i \in DOMAIN calls' : calls'[i] = calls[j]
           /\ \A i \in DOMAIN new : i \in DOMAIN calls' /\ calls'[i] = new[i]
<1> DEFINE S == CallsTo
           s == calls
           next == calls'
<1>0. s \in Seq(S) /\ s # <<>> /\ new \in Seq(S) /\ next = new \o Tail(s)
    BY DEF SInv, STyped, Turn
<1> HIDE DEF S, s, next
<1> DEFINE m == Len(new)
           n == Len(s)
           rest == Tail(s)
<1>1. /\ m \in Nat /\ n \in Nat \ {0} /\ DOMAIN s = 1..n /\ DOMAIN new = 1..m
      /\ rest \in Seq(S) /\ Len(rest) = n - 1 /\ \A k \in 1..(n - 1) : rest[k] = s[k + 1]
    BY <1>0
<1>n. next = new \o rest
    BY <1>0
<1> HIDE DEF rest
<1>2. /\ next \in Seq(S) /\ DOMAIN next = 1..(m + n - 1)
      /\ \A i \in 1..m : next[i] = new[i]
      /\ \A i \in (m + 1)..(m + n - 1) : next[i] = rest[i - m]
  <2>1. /\ next \in Seq(S) /\ Len(next) = m + Len(rest)
        /\ \A i \in 1..m : next[i] = new[i]
        /\ \A i \in (m + 1)..(m + Len(rest)) : next[i] = rest[i - m]
    <3>1. new \in Seq(S) /\ rest \in Seq(S)
        BY <1>0, <1>1
    <3>2. new \o rest \in Seq(S)
        BY <3>1
    <3>3. Len(new \o rest) = m + Len(rest)
        BY <3>1
    <3>4. \A i \in 1..m : (new \o rest)[i] = new[i]
        BY <3>1
    <3>5. \A i \in (m + 1)..(m + Len(rest)) : (new \o rest)[i] = rest[i - m]
        BY <3>1
    <3> QED BY <1>n, <3>2, <3>3, <3>4, <3>5
  <2> QED BY <1>1, <2>1
<1>3. ASSUME NEW i \in DOMAIN next, i \notin DOMAIN new
      PROVE  i - m + 1 \in DOMAIN s /\ i - m + 1 # 1 /\ next[i] = s[i - m + 1]
  <2>1. i \in (m + 1)..(m + n - 1) /\ i - m \in 1..(n - 1)
      BY <1>1, <1>2, <1>3
  <2>2. next[i] = s[(i - m) + 1]
      BY <1>1, <1>2, <2>1
  <2> QED BY <1>1, <2>1, <2>2
<1>4. ASSUME NEW j \in DOMAIN s, j # 1
      PROVE  \E i \in DOMAIN next : next[i] = s[j]
  <2>1. /\ (j - 1) + m \in (m + 1)..(m + n - 1) /\ ((j - 1) + m) - m = j - 1
        /\ j - 1 \in 1..(n - 1) /\ (j - 1) + 1 = j
      BY <1>1, <1>4
  <2>2. next[(j - 1) + m] = s[j]
      BY <1>1, <1>2, <2>1
  <2>3. (j - 1) + m \in DOMAIN next
      BY <1>1, <1>2, <2>1
  <2> QED BY <2>2, <2>3
<1>5. \A i \in DOMAIN new : i \in DOMAIN next /\ next[i] = new[i]
    BY <1>1, <1>2
<1>6. /\ next \in Seq(S)
      /\ \A i \in DOMAIN next :
            \/ i \in DOMAIN new /\ next[i] = new[i]
            \/ /\ i - m + 1 \in DOMAIN s /\ i - m + 1 # 1
               /\ next[i] = s[i - m + 1]
    BY <1>2, <1>3, <1>5
<1> QED BY <1>4, <1>5, <1>6 DEF S, s, next

\* Where the calls after a turn come from.
LEMMA AfterTurn ==
    ASSUME SInv, NEW call, NEW new, Turn(call, new)
    PROVE  /\ calls' \in Seq(CallsTo)
           /\ \A i \in DOMAIN calls' :
                 \/ i \in DOMAIN new /\ calls'[i] = new[i]
                 \/ /\ i - Len(new) + 1 \in DOMAIN calls /\ i - Len(new) + 1 # 1
                    /\ calls'[i] = calls[i - Len(new) + 1]
           /\ \A j \in DOMAIN calls : j # 1 => \E i \in DOMAIN calls' : calls'[i] = calls[j]
           /\ \A i \in DOMAIN new : i \in DOMAIN calls' /\ calls'[i] = new[i]
           /\ call.at \in DOMAIN config.forest /\ call.at \in Seq(Nat) /\ call.at # <<>>
           /\ \A i \in DOMAIN calls : calls[i].at \in DOMAIN config.forest /\ calls[i].at \in Seq(Nat)
<1>1. calls \in Seq(CallsTo) /\ config \in Configs
    BY DEF SInv, STyped
<1>2. calls # <<>> /\ new \in Seq(CallsTo) /\ calls' = new \o Tail(calls) /\ call \in CallsTo
    BY DEF Turn
<1>3. \A i \in DOMAIN calls : calls[i] \in CallsTo
    BY <1>1
<1>4. \A c \in CallsTo : c.at \in DOMAIN config.forest /\ c.at \in Seq(Nat) /\ c.at # <<>>
  <2> SUFFICES ASSUME NEW c \in CallsTo
               PROVE  c.at \in DOMAIN config.forest /\ c.at \in Seq(Nat) /\ c.at # <<>>
      OBVIOUS
  <2>1. c.at \in DOMAIN config.forest
      BY DEF CallsTo
  <2> QED BY <1>1, <2>1, PathFacts
<1>5. /\ calls' \in Seq(CallsTo)
      /\ \A i \in DOMAIN calls' :
            \/ i \in DOMAIN new /\ calls'[i] = new[i]
            \/ /\ i - Len(new) + 1 \in DOMAIN calls /\ i - Len(new) + 1 # 1
               /\ calls'[i] = calls[i - Len(new) + 1]
      /\ \A j \in DOMAIN calls : j # 1 => \E i \in DOMAIN calls' : calls'[i] = calls[j]
      /\ \A i \in DOMAIN new : i \in DOMAIN calls' /\ calls'[i] = new[i]
    BY Replaced
<1>6. /\ call.at \in DOMAIN config.forest /\ call.at \in Seq(Nat) /\ call.at # <<>>
      /\ \A i \in DOMAIN calls : calls[i].at \in DOMAIN config.forest /\ calls[i].at \in Seq(Nat)
    BY <1>2, <1>3, <1>4
<1> QED BY <1>5, <1>6

LEMMA TurnDescends ==
    ASSUME SInv, NEW call, NEW new, Turn(call, new)
    PROVE  DescentIsAcyclic'
<1> DEFINE at == call.at
           r == config.forest[at].resource
           up == NextAncestors(call)
<1>1. config \in Configs /\ config' = config /\ Resources' = Resources /\ DescentIsAcyclic
    BY ConfigStays DEF SInv, STyped, Turn
<1>2. at \in DOMAIN config.forest /\ at \in Seq(Nat) /\ at # <<>>
    BY AfterTurn
<1>3. /\ call.ancestors = {config.resource} \cup {config.forest[p].resource : p \in Above(at)}
      /\ Cardinality(call.ancestors) = Len(at)
    BY <1>1 DEF DescentIsAcyclic, Turn
<1>4. up = call.ancestors \cup {r} /\ up \in SUBSET Resources
  <2>1. r \in Resources
      BY <1>2 DEF Resources
  <2>2. call.ancestors \in SUBSET Resources
      BY DEF Turn, CallsTo
  <2> QED BY <2>1, <2>2 DEF NextAncestors
<1> SUFFICES ASSUME NEW i \in DOMAIN calls'
             PROVE  LET b == calls'[i].at IN
                    /\ calls'[i].ancestors =
                          {config.resource} \cup {config.forest[p].resource : p \in Above(b)}
                    /\ Cardinality(calls'[i].ancestors) = Len(b)
                    /\ Len(b) <= Cardinality(Resources)
    BY <1>1 DEF DescentIsAcyclic
<1>5. CASE i \in DOMAIN new /\ calls'[i] = new[i]
  <2>1. /\ i \in Nat /\ calls'[i].at = Append(at, i) /\ calls'[i].ancestors = up
        /\ r \notin call.ancestors
      BY <1>5 DEF Turn, Call
  <2>2. Above(Append(at, i)) = Above(at) \cup {at} /\ Len(Append(at, i)) = Len(at) + 1
      BY <1>2, <2>1, AboveChild, ChildIs
  <2>3. up = {config.resource} \cup {config.forest[p].resource : p \in Above(Append(at, i))}
      BY <1>3, <1>4, <2>2
  <2>4. IsFiniteSet(Resources) /\ IsFiniteSet(call.ancestors)
    <3>1. IsFiniteSet(Resources)
        BY <1>1, HasFinitelyMany
    <3>2. call.ancestors \in SUBSET Resources
        BY <1>4
    <3> QED BY <3>1, <3>2, FS_Subset
  <2>5. Cardinality(up) = Len(at) + 1
    <3>1. Cardinality(call.ancestors \cup {r}) = Cardinality(call.ancestors) + 1
        BY <2>1, <2>4, FS_AddElement
    <3> QED BY <1>3, <1>4, <3>1
  <2>6. Cardinality(up) <= Cardinality(Resources)
      BY <1>4, <2>4, FS_Subset
  <2> QED BY <2>1, <2>2, <2>3, <2>5, <2>6
<1>6. CASE \E j \in DOMAIN calls : calls'[i] = calls[j]
    BY <1>1, <1>6 DEF DescentIsAcyclic
<1> QED BY <1>5, <1>6, AfterTurn

LEMMA TurnKeepsFresh ==
    ASSUME SInv, NEW call, NEW new, Turn(call, new)
    PROVE  Fresh'
<1> DEFINE at == call.at
<1>1. Fresh /\ config' = config /\ 1 \in DOMAIN calls /\ calls[1].at = at
    BY DEF SInv, Turn
<1>2. /\ at \in DOMAIN config.forest /\ at \in Seq(Nat)
      /\ \A i \in DOMAIN calls : calls[i].at \in DOMAIN config.forest /\ calls[i].at \in Seq(Nat)
    BY AfterTurn
<1>3. \A i \in DOMAIN new : i \in Nat /\ new[i].at = Append(at, i)
    BY DEF Turn, Call
<1>4. \A i, j \in DOMAIN calls : i # j => ~Under(calls[i].at, calls[j].at)
    BY <1>1 DEF Fresh
<1>5. ASSUME NEW i \in DOMAIN calls', NEW j \in DOMAIN calls', i # j
      PROVE  ~Under(calls'[i].at, calls'[j].at)
  <2> DEFINE m == Len(new)
             k == i - m + 1
             l == j - m + 1
  <2>i. i \in Int /\ j \in Int /\ m \in Int
    <3>1. calls' \in Seq(CallsTo) /\ new \in Seq(CallsTo)
        BY AfterTurn DEF Turn
    <3> QED BY <3>1
  <2>1. CASE i \in DOMAIN new /\ calls'[i] = new[i] /\ j \in DOMAIN new /\ calls'[j] = new[j]
    <3>1. i \in Nat /\ j \in Nat /\ calls'[i].at = Append(at, i) /\ calls'[j].at = Append(at, j)
        BY <1>3, <2>1
    <3>2. Under(Append(at, i), Append(at, j)) => i = j
        BY <1>2, <3>1, ChildIs
    <3> QED BY <1>5, <3>1, <3>2
  <2>2. ASSUME i \in DOMAIN new, calls'[i] = new[i], l \in DOMAIN calls, l # 1, calls'[j] = calls[l]
        PROVE  ~Under(calls'[i].at, calls'[j].at)
    <3>1. ~Under(at, calls[l].at)
        BY <1>1, <1>4, <2>2
    <3>2. i \in Nat /\ calls'[i].at = Append(at, i)
        BY <1>3, <2>2
    <3>3. Under(Append(at, i), calls[l].at) => Under(at, calls[l].at)
        BY <1>2, <2>2, <3>2, ChildUnder
    <3> QED BY <2>2, <3>1, <3>2, <3>3
  <2>3. ASSUME k \in DOMAIN calls, k # 1, calls'[i] = calls[k], j \in DOMAIN new, calls'[j] = new[j]
        PROVE  ~Under(calls'[i].at, calls'[j].at)
    <3> DEFINE t == calls[k].at
    <3>1. ~Under(t, at) /\ ~Under(at, t)
        BY <1>1, <1>4, <2>3
    <3>2. Under(at, Append(at, j))
        BY <1>2, <1>3, <2>3, ChildIs
    <3>3. Under(t, Append(at, j)) => t = Append(at, j) \/ Under(t, at)
      <4>1. t \in Seq(Nat) /\ j \in Nat
          BY <1>2, <1>3, <2>3
      <4> HIDE DEF t
      <4> QED BY <1>2, <4>1, ChildUnder
    <3>4. calls'[i].at = t /\ calls'[j].at = Append(at, j)
        BY <1>3, <2>3
    <3> HIDE DEF t
    <3>5. ~Under(t, Append(at, j))
        BY <3>1, <3>2, <3>3
    <3> QED BY <3>4, <3>5
  <2>4. ASSUME k \in DOMAIN calls, calls'[i] = calls[k], l \in DOMAIN calls, calls'[j] = calls[l]
        PROVE  ~Under(calls'[i].at, calls'[j].at)
    <3>1. k # l
        BY <1>5, <2>i
    <3> QED BY <1>4, <2>4, <3>1
  <2>5. /\ (i \in DOMAIN new /\ calls'[i] = new[i]) \/
           (k \in DOMAIN calls /\ k # 1 /\ calls'[i] = calls[k])
        /\ (j \in DOMAIN new /\ calls'[j] = new[j]) \/
           (l \in DOMAIN calls /\ l # 1 /\ calls'[j] = calls[l])
      BY <1>5, AfterTurn
  <2> HIDE DEF k, l
  <2> QED BY <2>1, <2>2, <2>3, <2>4, <2>5
<1>6. ASSUME NEW n \in DOMAIN index'
      PROVE  /\ index'[n].path \in DOMAIN config.forest
             /\ \A i \in DOMAIN calls' : ~Under(calls'[i].at, index'[n].path)
  <2>1. index'[n].path = at \/ (n \in DOMAIN index /\ index'[n].path = index[n].path)
      BY DEF Turn, Indexed
  <2>2. CASE index'[n].path = at
    <3>1. ASSUME NEW i \in DOMAIN calls' PROVE ~Under(calls'[i].at, at)
      <4>1. CASE i \in DOMAIN new /\ calls'[i] = new[i]
        <5>1. i \in Nat /\ calls'[i].at = Append(at, i)
            BY <1>3, <4>1
        <5>2. ~Under(Append(at, i), at)
            BY <1>2, <5>1, ChildIs
        <5> QED BY <5>1, <5>2
      <4>2. CASE \E j \in DOMAIN calls : j # 1 /\ calls'[i] = calls[j]
          BY <1>1, <1>4, <4>2
      <4> QED BY <4>1, <4>2, AfterTurn
    <3> QED BY <1>2, <2>2, <3>1
  <2>3. CASE n \in DOMAIN index /\ index'[n].path = index[n].path
    <3> DEFINE q == index[n].path
    <3>1. q \in DOMAIN config.forest /\ \A i \in DOMAIN calls : ~Under(calls[i].at, q)
        BY <1>1, <2>3 DEF Fresh
    <3>2. q \in Seq(Nat)
        BY <3>1, PathFacts DEF SInv, STyped
    <3>3. ASSUME NEW i \in DOMAIN calls' PROVE ~Under(calls'[i].at, q)
      <4>1. CASE i \in DOMAIN new /\ calls'[i] = new[i]
        <5>1. ~Under(at, q)
            BY <1>1, <3>1
        <5>2. i \in Nat /\ calls'[i].at = Append(at, i)
            BY <1>3, <4>1
        <5>3. Under(Append(at, i), q) => Under(at, q)
            BY <1>2, <3>2, <5>2, ChildUnder
        <5> QED BY <5>1, <5>2, <5>3
      <4>2. CASE \E j \in DOMAIN calls : j # 1 /\ calls'[i] = calls[j]
          BY <3>1, <4>2
      <4> QED BY <4>1, <4>2, AfterTurn
    <3> QED BY <2>3, <3>1, <3>3
  <2> QED BY <2>1, <2>2, <2>3
<1> QED BY <1>1, <1>5, <1>6 DEF Fresh

\* A call of a walk without violations knows its relationship's name, and the
\* index grows by that name.
LEMMA TurnIndexes ==
    ASSUME SInv, NEW call, NEW new, Turn(call, new), violations = <<>>,
           Len(config.forest[call.at].name) = 1
    PROVE  /\ FullName(call) = PathNames(call.at)
           /\ \A q \in Above(call.at) : Settled(q)
           /\ \A n \in DOMAIN index : n = PathNames(index[n].path)
<1>1. config \in Configs /\ Walked /\ phase = "relationships" /\ 1 \in DOMAIN calls /\ calls[1] = call
    BY DEF SInv, STyped, Turn
<1>2. /\ call.prefix = PrefixOf(call.at) /\ \A q \in Above(call.at) : Settled(q)
      /\ \A n \in DOMAIN index : n = PathNames(index[n].path)
    BY <1>1 DEF Walked
<1>3. call.at \in DOMAIN config.forest
    BY AfterTurn
<1>4. FullName(call) = PathNames(call.at)
    BY <1>1, <1>2, <1>3, FullNameIs DEF Settled
<1> QED BY <1>2, <1>4

LEMMA TurnKeepsWalked ==
    ASSUME SInv, NEW call, NEW new, Turn(call, new)
    PROVE  Walked'
<1> DEFINE at == call.at
           r == config.forest[at]
           full == FullName(call)
<1>0. SUFFICES ASSUME violations' = <<>>
               PROVE  /\ \A p \in DOMAIN config.forest :
                            Settled(p)' \/ \E i \in DOMAIN calls' : Under(calls'[i].at, p)
                      /\ \A n \in DOMAIN index' : n = PathNames(index'[n].path)
                      /\ \A i \in DOMAIN calls' :
                            /\ calls'[i].prefix = PrefixOf(calls'[i].at)
                            /\ \A q \in Above(calls'[i].at) : Settled(q)'
  <2>1. config' = config
      BY DEF Turn
  <2>2. \A b : PathNames(b)' = PathNames(b) /\ PrefixOf(b)' = PrefixOf(b)
      BY <2>1, ConfigStays
  <2> QED BY <2>1, <2>2 DEF Walked
<1>1. /\ violations = <<>> /\ r.name \in {<<n>> : n \in ValidNames} /\ r.resource \in ValidNames
      /\ ValidCost(r) /\ full \notin DOMAIN index /\ r.resource \notin call.ancestors
    BY <1>0 DEF Turn
<1>2. /\ config \in Configs /\ config' = config /\ phase = "relationships"
      /\ 1 \in DOMAIN calls /\ calls[1] = call
    BY DEF SInv, STyped, Turn
<1>3. /\ \A p \in DOMAIN config.forest :
            Settled(p) \/ \E i \in DOMAIN calls : Under(calls[i].at, p)
      /\ \A i \in DOMAIN calls :
            /\ calls[i].prefix = PrefixOf(calls[i].at)
            /\ \A q \in Above(calls[i].at) : Settled(q)
    BY <1>1, <1>2 DEF SInv, Walked
<1>4. at \in DOMAIN config.forest /\ at \in Seq(Nat) /\ at # <<>>
    BY AfterTurn
<1>5. Len(r.name) = 1 /\ r.name[1] \in ValidNames
    BY <1>1
<1>6. /\ full = PathNames(at) /\ \A q \in Above(at) : Settled(q)
      /\ \A n \in DOMAIN index : n = PathNames(index[n].path)
    BY <1>1, <1>5, TurnIndexes
<1>7. /\ DOMAIN index' = DOMAIN index \cup {full}
      /\ \A n \in DOMAIN index : index'[n] = index[n]
      /\ index'[full] = [path |-> at, depth |-> Len(at)]
  <2>1. index' = Indexed(call)
      BY DEF Turn
  <2>2. Len(full) = Len(at)
      BY <1>2, <1>4, <1>6, NamesAre
  <2> QED BY <1>1, <2>1, <2>2 DEF Indexed
<1>8. \A p : Settled(p) => Settled(p)'
    BY <1>2, <1>7, ConfigStays DEF Settled
<1>9. Settled(at)'
  <2>1. r.resource # config.resource /\ \A q \in Above(at) : config.forest[q].resource # r.resource
      BY <1>1, <1>2 DEF SInv, DescentIsAcyclic
  <2>2. FineEdge(at)
      BY <1>1, <1>5, <2>1 DEF FineEdge
  <2>3. FineEdge(at)' /\ PathNames(at)' = full
      BY <1>2, <1>6, <2>2, ConfigStays
  <2>4. (PathNames(at) \in DOMAIN index)' /\ (index[PathNames(at)] = [path |-> at, depth |-> Len(at)])'
      BY <1>7, <2>3
  <2> QED BY <2>3, <2>4 DEF Settled
<1>10. ASSUME NEW p \in DOMAIN config.forest
       PROVE  Settled(p)' \/ \E i \in DOMAIN calls' : Under(calls'[i].at, p)
  <2>1. CASE Settled(p) \/ p = at
      BY <1>8, <1>9, <2>1
  <2>2. CASE Under(at, p) /\ p # at
    <3>1. PICK i \in DOMAIN new : Under(new[i].at, p)
        BY <1>1, <2>2 DEF Turn
    <3> QED BY <3>1, AfterTurn
  <2>3. ASSUME NEW j \in DOMAIN calls, j # 1, Under(calls[j].at, p)
        PROVE  \E i \in DOMAIN calls' : Under(calls'[i].at, p)
      BY <2>3, AfterTurn
  <2> QED BY <1>2, <1>3, <2>1, <2>2, <2>3
<1>11. ASSUME NEW n \in DOMAIN index' PROVE n = PathNames(index'[n].path)
  <2>1. CASE n \in DOMAIN index
      BY <1>6, <1>7, <2>1
  <2>2. CASE n = full
      BY <1>6, <1>7, <2>2
  <2> QED BY <1>7, <2>1, <2>2
<1>12. ASSUME NEW i \in DOMAIN calls'
       PROVE  /\ calls'[i].prefix = PrefixOf(calls'[i].at)
              /\ \A q \in Above(calls'[i].at) : Settled(q)'
  <2>1. CASE i \in DOMAIN new /\ calls'[i] = new[i]
    <3>1. i \in Nat /\ calls'[i].at = Append(at, i) /\ calls'[i].prefix = full
        BY <2>1 DEF Turn, Call
    <3>2. /\ Above(Append(at, i)) = Above(at) \cup {at} /\ Front(Append(at, i)) = at
          /\ Len(Append(at, i)) = Len(at) + 1 /\ Len(at) \in Nat \ {0}
        BY <1>4, <3>1, AboveChild, ChildIs
    <3>3. PrefixOf(Append(at, i)) = full
      <4>1. Len(Append(at, i)) # 1
          BY <3>2
      <4>2. PrefixOf(Append(at, i)) = PathNames(Front(Append(at, i)))
          BY <4>1 DEF PrefixOf
      <4> QED BY <1>6, <3>2, <4>2
    <3> QED BY <1>6, <1>8, <1>9, <3>1, <3>2, <3>3
  <2>2. CASE \E j \in DOMAIN calls : calls'[i] = calls[j]
      BY <1>3, <1>8, <2>2
  <2> QED BY <2>1, <2>2, AfterTurn
<1> QED BY <1>10, <1>11, <1>12

LEMMA TurnKeepsChecked ==
    ASSUME SInv, NEW call, NEW new, Turn(call, new)
    PROVE  Checked'
<1> DEFINE at == call.at
           r == config.forest[at]
<1>1. /\ config \in Configs /\ config' = config /\ phase = "relationships" /\ phase' = phase
      /\ violations' = <<>> => violations = <<>>
      /\ violations = <<>> => HeaderOK /\ ListsOK
      /\ WellFormed => violations = <<>>
    BY DEF SInv, STyped, Checked, Turn
<1>2. /\ HeaderOK' <=> HeaderOK
      /\ ListsOK' <=> ListsOK
      /\ WellFormed' <=> WellFormed
    BY <1>1, ConfigStays
<1>3. ASSUME WellFormed PROVE violations' = <<>>
  <2>1. violations = <<>> /\ WellFormedForest
      BY <1>1, <1>3 DEF WellFormed
  <2>2. at \in DOMAIN config.forest /\ r.name \in Seq(Parts)
      BY <1>1, AfterTurn, PathFacts
  <2>3. /\ Len(r.name) = 1 /\ r.name[1] \in ValidNames /\ r.resource \in ValidNames /\ ValidCost(r)
        /\ r.resource # config.resource
        /\ \A q \in Above(at) : config.forest[q].resource # r.resource
      BY <2>1, <2>2 DEF WellFormedForest
  <2>4. r.name = <<r.name[1]>>
      BY <2>2, <2>3
  <2>5. r.resource \notin call.ancestors
    <3>1. call.ancestors = {config.resource} \cup {config.forest[p].resource : p \in Above(at)}
        BY DEF SInv, DescentIsAcyclic, Turn
    <3> QED BY <2>3, <3>1
  <2>6. FullName(call) \notin DOMAIN index
    <3> SUFFICES ASSUME FullName(call) \in DOMAIN index PROVE FALSE
        OBVIOUS
    <3> DEFINE q == index[FullName(call)].path
    <3>1. FullName(call) = PathNames(at) /\ FullName(call) = PathNames(q)
        BY <2>1, <2>3, TurnIndexes
    <3>2. q \in DOMAIN config.forest /\ ~Under(at, q)
        BY DEF SInv, Fresh, Turn
    <3>3. at = q
        BY <1>1, <2>1, <2>2, <3>1, <3>2, NamesDiffer
    <3>4. Under(at, at)
      <4>1. at \in Seq(Nat)
          BY AfterTurn
      <4> QED BY <4>1 DEF Under
    <3> QED BY <3>2, <3>3, <3>4
  <2> QED BY <2>1, <2>3, <2>4, <2>5, <2>6 DEF Turn
<1> QED BY <1>1, <1>2, <1>3 DEF Checked

LEMMA RelationshipKeeps ==
    ASSUME SInv, Relationship
    PROVE  SInv'
<1>1. PICK call, new : Turn(call, new)
    BY TakesTurn
<1>2. STyped'
  <2>1. config \in Configs /\ config' = config /\ phase = "relationships" /\ phase' = phase
      BY <1>1 DEF SInv, STyped, Turn
  <2>2. calls' \in Seq(CallsTo')
      BY <1>1, <2>1, AfterTurn, ConfigStays
  <2>3. violations' \in Seq(Codes)
      BY <1>1 DEF Turn
  <2> QED BY <2>1, <2>2, <2>3 DEF STyped
<1> QED BY <1>1, <1>2, TurnDescends, TurnKeepsFresh, TurnKeepsWalked, TurnKeepsChecked DEF SInv

LEMMA StandingStill ==
    ASSUME SInv, UNCHANGED svars
    PROVE  SInv'
<1>1. /\ config' = config /\ phase' = phase /\ calls' = calls /\ index' = index
      /\ violations' = violations
    BY DEF svars
<1>2. STyped' /\ DescentIsAcyclic' /\ Fresh'
    BY <1>1, ConfigStays DEF SInv, STyped, DescentIsAcyclic, Fresh
<1>3. Walked'
  <2>1. \A p : Settled(p)' <=> Settled(p)
      BY <1>1, ConfigStays DEF Settled
  <2>2. \A b : PathNames(b)' = PathNames(b) /\ PrefixOf(b)' = PrefixOf(b)
      BY <1>1, ConfigStays
  <2> QED BY <1>1, <2>1, <2>2 DEF SInv, Walked
<1>4. Checked'
  <2>1. /\ HeaderOK' <=> HeaderOK
        /\ ListsOK' <=> ListsOK
        /\ WellFormedPages' <=> WellFormedPages
        /\ WellFormed' <=> WellFormed
      BY <1>1, ConfigStays
  <2> QED BY <1>1, <2>1 DEF SInv, Checked
<1> QED BY <1>2, <1>3, <1>4 DEF SInv

\* The invariant of NewSchema: between two steps the calls still to make are for
\* separate parts of the forest, and what is not reported is settled or to come
\* (schema.go:179-236, 359-391).
THEOREM SchemaInvariant == SchemaSpec => []SInv
<1>1. SInv /\ [SchemaNext]_svars => SInv'
  <2> SUFFICES ASSUME SInv, [SchemaNext]_svars PROVE SInv'
      OBVIOUS
  <2>1. CASE Header
      BY <2>1, HeaderKeeps
  <2>2. CASE Definitions
      BY <2>2, DefinitionsKeep
  <2>3. CASE Relationship
      BY <2>3, RelationshipKeeps
  <2>4. CASE Pagination
      BY <2>4, PaginationKeeps
  <2>5. CASE UNCHANGED svars
      BY <2>5, StandingStill
  <2> QED BY <2>1, <2>2, <2>3, <2>4, <2>5 DEF SchemaNext
<1> QED BY <1>1, SInvInit, PTL DEF SchemaSpec

-----------------------------------------------------------------------------
\* What follows.

\* When the walk ends without a violation every relationship is settled.
LEMMA AllSettled ==
    ASSUME SInv, Accepted
    PROVE  /\ \A p \in DOMAIN config.forest : Settled(p)
           /\ \A n \in DOMAIN index : index[n].path \in DOMAIN config.forest
                                      /\ n = PathNames(index[n].path)
<1>1. calls = <<>> /\ violations = <<>> /\ phase = "done"
    BY DEF SInv, STyped, Accepted
<1> QED BY <1>1 DEF SInv, Walked, Fresh

LEMMA OneLess ==
    ASSUME NEW s \in Seq(Nat), Len(s) \in Nat \ {0}
    PROVE  Len(Front(s)) = Len(s) - 1
<1> DEFINE n == Len(s) - 1
<1>1. n \in 0..Len(s)
    OBVIOUS
<1>2. Front(s) = SubSeq(s, 1, n)
    BY DEF Front
<1> HIDE DEF n
<1>3. Len(SubSeq(s, 1, n)) = n
    BY <1>1
<1> QED BY <1>2, <1>3 DEF n

LEMMA IndexedForestIsWellFormed ==
    ASSUME SInv, Accepted
    PROVE  WellFormedForest
<1>1. config \in Configs /\ \A p \in DOMAIN config.forest : Settled(p)
    BY AllSettled DEF SInv, STyped
<1>2. ASSUME NEW p \in DOMAIN config.forest, NEW q \in DOMAIN config.forest,
             Front(p) = Front(q), config.forest[p].name = config.forest[q].name
      PROVE  p = q
  <2>1. /\ Len(config.forest[p].name) = 1 /\ Len(config.forest[q].name) = 1
        /\ index[PathNames(p)] = [path |-> p, depth |-> Len(p)]
        /\ index[PathNames(q)] = [path |-> q, depth |-> Len(q)]
      BY <1>1 DEF Settled, FineEdge
  <2>2. Len(p) = Len(q)
    <3>1. p \in Seq(Nat) /\ Len(p) \in Nat \ {0} /\ q \in Seq(Nat) /\ Len(q) \in Nat \ {0}
        BY <1>1, PathFacts
    <3>3. Len(Front(p)) = Len(p) - 1 /\ Len(Front(q)) = Len(q) - 1
        BY <3>1, OneLess
    <3>4. Len(Front(p)) = Len(Front(q))
        BY <1>2
    <3>5. Len(p) \in Int /\ Len(q) \in Int
        BY <3>1
    <3> QED BY <3>3, <3>4, <3>5
  <2>3. PathNames(p) = PathNames(q)
      BY <1>1, <1>2, <2>1, <2>2, NamesAre
  <2>4. [path |-> p, depth |-> Len(p)] = [path |-> q, depth |-> Len(q)]
      BY <2>1, <2>3
  <2> QED BY <2>4
<1> QED BY <1>1, <1>2 DEF WellFormedForest, Settled, FineEdge

\* The walk of the relationships, whatever the declaration, never goes round in
\* a cycle nor deeper than there are resources (schema.go:359-391).
THEOREM NoCycleIsFollowed == SchemaSpec => []DescentIsAcyclic
<1>1. SInv => DescentIsAcyclic
    BY DEF SInv
<1> QED BY <1>1, SchemaInvariant, PTL

\* The index of an accepted schema answers for every relationship, at its depth,
\* and for nothing else (schema.go:372-378).
THEOREM IndexAnswersForAll == SchemaSpec => []IndexComplete
<1>1. ASSUME SInv PROVE IndexComplete
  <2> SUFFICES ASSUME Accepted
               PROVE  /\ DOMAIN index = {PathNames(p) : p \in DOMAIN config.forest}
                      /\ \A p \in DOMAIN config.forest :
                            index[PathNames(p)] = [path |-> p, depth |-> Len(p)]
      BY DEF IndexComplete
  <2>1. /\ \A p \in DOMAIN config.forest :
              PathNames(p) \in DOMAIN index /\ index[PathNames(p)] = [path |-> p, depth |-> Len(p)]
        /\ \A n \in DOMAIN index : index[n].path \in DOMAIN config.forest
                                   /\ n = PathNames(index[n].path)
      BY <1>1, AllSettled DEF Settled
  <2> QED BY <2>1
<1> QED BY <1>1, SchemaInvariant, PTL

\* NewSchema accepts the well-formed declarations and no others (schema.go:179-236).
THEOREM WellFormedAreAccepted == SchemaSpec => []AcceptsExactly
<1>1. ASSUME SInv PROVE AcceptsExactly
  <2> SUFFICES ASSUME phase = "done" PROVE violations = <<>> <=> WellFormed
      BY DEF AcceptsExactly
  <2>1. WellFormed => violations = <<>>
      BY <1>1 DEF SInv, Checked
  <2>2. ASSUME violations = <<>> PROVE WellFormed
    <3>1. HeaderOK /\ ListsOK /\ WellFormedPages
        BY <1>1, <2>2 DEF SInv, Checked
    <3>2. WellFormedForest
        BY <1>1, <2>2, IndexedForestIsWellFormed DEF Accepted
    <3> QED BY <3>1, <3>2, WellFormedParts
  <2> QED BY <2>1, <2>2
<1> QED BY <1>1, SchemaInvariant, PTL
=============================================================================
