------------------------------- MODULE Crawler -------------------------------
(***************************************************************************)
(* MetadataCrawler.cpp: the pass walks the debug information of a module   *)
(* twice, depth first from all its roots, first to learn which typedef     *)
(* names which type, then to record the field names of every class, from   *)
(* which field accesses get their names in the trace.  The graph of nodes  *)
(* has cycles (a member's scope is its class) and shared nodes.            *)
(*                                                                         *)
(* A step is a call of traverseMetadata, with the callback it makes, or a  *)
(* return from one.  Of a node's operands the model keeps those the crawler*)
(* looks at: the tag (operand 0), the name (3), whether there is a linkage *)
(* name (14), and in ops, in order, the operands that are nodes or null: of*)
(* a type its scope, the type it derives from (9) and its members (10).    *)
(***************************************************************************)
EXTENDS Naturals, Sequences

CONSTANTS
  Nodes,     (* the metadata nodes                                         *)
  Names,     (* the names in them, strings                                 *)
  Null,
  Metadata   (* the modules considered: records of roots, ops, tag, name   *)
             (* and linkage                                                *)

IsMetadata(m) ==
  /\ m.roots \in Seq(Nodes)
  /\ m.ops \in [Nodes -> Seq(Nodes \cup {Null})]
  /\ m.tag \in [Nodes -> SUBSET Nat]
  /\ m.name \in [Nodes -> Names \cup {Null}]
  /\ m.linkage \in [Nodes -> BOOLEAN]

ASSUME CrawlerAssumption ==
  /\ Null \notin Nodes \cup Names
  /\ {"", "unknown"} \subseteq Names
  /\ \A m \in Metadata : IsMetadata(m)

VARIABLES
  md,         (* the module                                                *)
  pass,       (* 1 and 2 for the two crawls, 3 when crawlModule returns    *)
  root,       (* the next root                                             *)
  stack,      (* the calls of traverseMetadata: node and next operand      *)
  visited,
  typedefMap, (* a name, or Null where the map has no entry                *)
  fieldMap    (* no fields where the map has no entry                      *)

vars == <<md, pass, root, stack, visited, typedefMap, fieldMap>>

Frame == [node : Nodes, next : Nat \ {0}]

ClassNames == Names \cup {"<unknown>"}

TypeOK ==
  /\ IsMetadata(md)
  /\ pass \in 1 .. 3
  /\ root \in Nat \ {0}
  /\ stack \in Seq(Frame)
  /\ visited \subseteq Nodes
  /\ typedefMap \in [Nodes -> Names \cup {Null}]
  /\ fieldMap \in [ClassNames -> Seq(Names)]

Init ==
  /\ md \in Metadata
  /\ pass = 1
  /\ root = 1
  /\ stack = <<>>
  /\ visited = {}
  /\ typedefMap = [n \in Nodes |-> Null]
  /\ fieldMap = [c \in ClassNames |-> <<>>]

-----------------------------------------------------------------------------
(* What a node says.                                                       *)

(* DWARF tags as the sets of their bits: class 0x02, structure 0x13,       *)
(* typedef 0x16 and union 0x17.  A node without a tag has none.            *)
DW_TAG_class_type     == {1}
DW_TAG_structure_type == {0, 1, 4}
DW_TAG_typedef        == {1, 2, 4}
DW_TAG_union_type     == {0, 1, 2, 4}

(* CHECK_TAG compares the bits of tag only: a union is a typedef, a class  *)
(* and not a structure.                                                    *)
CHECK_TAG(x, tag) == tag \subseteq x

(* Operand i of n, Null beyond the last.                                   *)
Operand(n, i) == IF i <= Len(md.ops[n]) THEN md.ops[n][i] ELSE Null

Base(n) == Operand(n, 2)

Members(n) == Operand(n, 3)

IsTypedef(n) == CHECK_TAG(md.tag[n], DW_TAG_typedef)

IsClass(n) ==
  \/ CHECK_TAG(md.tag[n], DW_TAG_class_type)
  \/ CHECK_TAG(md.tag[n], DW_TAG_structure_type)

(* A typedef without a name gives the empty one.                           *)
TypedefName(n) == IF md.name[n] = Null THEN "" ELSE md.name[n]

FieldName(n) == IF md.name[n] = Null THEN "unknown" ELSE md.name[n]

(* The names getFields gives the fields in a list of members.              *)
FieldNames(list) ==
  LET members == md.ops[list]
      names[i \in 0 .. Len(members)] ==
        IF i = 0 THEN <<>>
        ELSE IF members[i] = Null THEN names[i - 1]
        ELSE Append(names[i - 1], FieldName(members[i]))
  IN names[Len(members)]

-----------------------------------------------------------------------------
(* The two callbacks.                                                      *)

(* TypedefTraversal::traverse: the first typedef of a type names it.       *)
Typedefs(n) ==
  IF IsTypedef(n) /\ Base(n) # Null /\ typedefMap[Base(n)] = Null
  THEN [typedefMap EXCEPT ![Base(n)] = TypedefName(n)]
  ELSE typedefMap

(* The name of a class in FieldNameTraversal::traverse.  One made from the *)
(* linkage name is read after the string that holds it is gone: it can be  *)
(* anything.  The mutant does not ask for a typedef.                       *)
ClassNameOfOwn(n) == {IF md.name[n] = "" THEN "<unknown>" ELSE md.name[n]}

ClassName(n) ==
  IF md.name[n] # "" THEN {md.name[n]}
  ELSE IF typedefMap[n] # Null THEN {typedefMap[n]}
  ELSE IF md.linkage[n] THEN ClassNames ELSE {"<unknown>"}

(* getFields appends: classes of one name share an entry.                  *)
Recorded(n, c) == [fieldMap EXCEPT ![c] = @ \o FieldNames(Members(n))]

FieldsOf(n) ==
  IF IsClass(n) /\ md.name[n] # Null /\ Members(n) # Null
  THEN {Recorded(n, c) : c \in ClassName(n)}
  ELSE {fieldMap}

(* getFieldName, asked after the crawl for field i of a structure.         *)
GetFieldName(c, i) ==
  IF fieldMap[c] = <<>> THEN "NA"
  ELSE IF i >= Len(fieldMap[c]) THEN "unknown" ELSE fieldMap[c][i + 1]

-----------------------------------------------------------------------------
(* The crawl.                                                              *)

(* traverseMetadata(n), called with calls on the stack.                    *)
Visit(n, calls) ==
  IF n = Null \/ n \in visited
  THEN stack' = calls /\ UNCHANGED <<visited, typedefMap, fieldMap>>
  ELSE /\ visited' = visited \cup {n}
       /\ stack' = Append(calls, [node |-> n, next |-> 1])
       /\ IF pass = 1
          THEN typedefMap' = Typedefs(n) /\ UNCHANGED fieldMap
          ELSE fieldMap' \in FieldsOf(n) /\ UNCHANGED typedefMap

Top == stack[Len(stack)]

Below == SubSeq(stack, 1, Len(stack) - 1)

(* The frame moved to its next operand; the mutant does so only if the one *)
(* it is at has not been visited yet.                                      *)
AdvancedIfNew(f) ==
  IF md.ops[f.node][f.next] \in visited THEN f ELSE [f EXCEPT !.next = @ + 1]

Advanced(f) == [f EXCEPT !.next = @ + 1]

(* No operand is left; the mutant stops at a null one.                     *)
ExhaustedAtNull(f) == Operand(f.node, f.next) = Null

Exhausted(f) == f.next > Len(md.ops[f.node])

(* crawlNMD and crawlAllInstructions                                       *)
CallRoot ==
  /\ pass < 3 /\ stack = <<>> /\ root <= Len(md.roots)
  /\ root' = root + 1
  /\ Visit(md.roots[root], <<>>)
  /\ UNCHANGED <<md, pass>>

CallOperand ==
  /\ stack # <<>> /\ ~Exhausted(Top)
  /\ Visit(md.ops[Top.node][Top.next], Append(Below, Advanced(Top)))
  /\ UNCHANGED <<md, pass, root>>

Return ==
  /\ stack # <<>> /\ Exhausted(Top)
  /\ stack' = Below
  /\ UNCHANGED <<md, pass, root, visited, typedefMap, fieldMap>>

PassEnd == pass < 3 /\ stack = <<>> /\ root > Len(md.roots)

(* visited.clear() between the crawls; the mutant forgets it.              *)
ClearedNot == visited

Cleared == {}

NextPass ==
  /\ PassEnd
  /\ pass' = pass + 1
  /\ root' = 1
  /\ visited' = IF pass = 1 THEN Cleared ELSE visited
  /\ UNCHANGED <<md, stack, typedefMap, fieldMap>>

Terminated == pass = 3 /\ UNCHANGED vars

Next == CallRoot \/ CallOperand \/ Return \/ NextPass \/ Terminated

Spec == Init /\ [][Next]_vars

(* The crawl is sequential code of one thread.                             *)
FairSpec == Spec /\ WF_vars(Next)

-----------------------------------------------------------------------------
(* Correctness.                                                            *)

Closed(S) ==
  /\ \A i \in DOMAIN md.roots : md.roots[i] \in S
  /\ \A n \in S : \A i \in DOMAIN md.ops[n] : md.ops[n][i] \in S \cup {Null}

(* Each crawl visits exactly what can be reached from the roots, whatever  *)
(* the cycles: when it ends visited is closed under operands, and in every *)
(* closed set.                                                             *)
VisitsReachable ==
  PassEnd => Closed(visited) /\ \A S \in SUBSET Nodes : Closed(S) => visited \subseteq S

(* A class that has a name, or that a typedef names.                       *)
Typedeffers(n) == {t \in visited : IsTypedef(t) /\ Base(t) = n}

NamesFor(n) ==
  IF md.name[n] # "" THEN {md.name[n]} ELSE {TypedefName(t) : t \in Typedeffers(n)}

Classes == {n \in visited : IsClass(n) /\ md.name[n] # Null /\ Members(n) # Null}

(* Field names come out as they went in: when the crawl is over the fields *)
(* of a class that has a name no other class may have are found under it by*)
(* their index, each once, although the class is met on many paths, and    *)
(* none beyond them.                                                       *)
FieldsByIndex ==
  pass = 3 =>
    \A n \in Classes : \A c \in Names :
      /\ NamesFor(n) = {c}
      /\ \A m \in Classes \ {n} : NamesFor(m) # {} /\ c \notin NamesFor(m)
      => LET fields == FieldNames(Members(n))
         IN \A i \in 0 .. Len(fields) :
              GetFieldName(c, i) = IF fields = <<>> THEN "NA"
                                   ELSE IF i = Len(fields) THEN "unknown"
                                   ELSE fields[i + 1]

(* A class without a name that any typedef of the module refers to, before *)
(* it or after it in the crawl, is recorded under a typedef's name, not as *)
(* unknown.                                                                *)
TypedefNamesClass ==
  pass = 3 =>
    \A n \in Classes :
      md.name[n] = "" /\ Typedeffers(n) # {} /\ FieldNames(Members(n)) # <<>> =>
        \E t \in Typedeffers(n) :
          \E i \in 0 .. Len(fieldMap[TypedefName(t)]) - 1 :
            GetFieldName(TypedefName(t), i) = FieldNames(Members(n))[1]

(* The recursion ends on every graph.                                      *)
Terminates == <>(pass = 3)

=============================================================================
