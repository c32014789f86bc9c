---------------------------- MODULE CrawlerProofs ----------------------------
(***************************************************************************)
(* Theorems about Crawler, for any graph of metadata nodes: when a crawl   *)
(* ends it has visited exactly what can be reached from the roots; when    *)
(* both have, the fields of a class with a name of its own are found by    *)
(* their index, and one a typedef names is under a typedef's name.         *)
(***************************************************************************)
EXTENDS Crawler, SequenceTheorems, WellFoundedInduction, TLAPS

(* The stack of calls without its top, and with another frame for it.      *)
LEMMA Calls ==
  ASSUME NEW s \in Seq(Frame), s # <<>>, NEW f \in Frame
  PROVE  LET b == SubSeq(s, 1, Len(s) - 1)
         IN /\ Len(s) \in Nat \ {0} /\ s[Len(s)] \in Frame
            /\ b \in Seq(Frame) /\ Len(b) = Len(s) - 1
            /\ \A j \in 1 .. Len(b) : b[j] = s[j]
            /\ Append(b, f) \in Seq(Frame) /\ Len(Append(b, f)) = Len(s)
            /\ \A j \in 1 .. Len(b) : Append(b, f)[j] = s[j]
            /\ Append(b, f)[Len(s)] = f
<1> DEFINE b == SubSeq(s, 1, Len(s) - 1)
<1>1. Len(s) \in Nat \ {0} /\ s[Len(s)] \in Frame
  OBVIOUS
<1>2. b \in Seq(Frame) /\ Len(b) = Len(s) - 1
  <2>1. Len(s) - 1 \in Nat /\ Len(s) - 1 <= Len(s)
    BY <1>1
  <2>2. b = [i \in 1 .. Len(s) - 1 |-> s[i]]
    BY <2>1
  <2>3. \A i \in 1 .. Len(s) - 1 : s[i] \in Frame
    BY <1>1
  <2> HIDE DEF b
  <2> QED BY <2>1, <2>2, <2>3
<1>3. \A j \in 1 .. Len(b) : b[j] = s[j]
  BY <1>1
<1> HIDE DEF b
<1>4. Append(b, f) \in Seq(Frame) /\ Len(Append(b, f)) = Len(b) + 1
  BY <1>2
<1>5. \A j \in 1 .. Len(b) : Append(b, f)[j] = b[j]
  BY <1>2
<1>6. Append(b, f)[Len(b) + 1] = f
  BY <1>2
<1>7. Len(b) + 1 = Len(s)
  BY <1>1, <1>2
<1> QED BY <1>1, <1>2, <1>3, <1>4, <1>5, <1>6, <1>7 DEF b

(* A new call on top of others.                                            *)
LEMMA Pushed ==
  ASSUME NEW s \in Seq(Frame), NEW f \in Frame
  PROVE  /\ Append(s, f) \in Seq(Frame) /\ Len(Append(s, f)) = Len(s) + 1
         /\ \A j \in DOMAIN s : Append(s, f)[j] = s[j]
         /\ Append(s, f)[Len(s) + 1] = f
         /\ DOMAIN s = 1 .. Len(s) /\ Len(s) \in Nat
OBVIOUS

(* There is no call on the empty stack.                                    *)
LEMMA NoCalls == <<>> \in Seq(Frame) /\ DOMAIN <<>> = {}
OBVIOUS

(* The calls under way are of visited nodes.                               *)
StackVisited == \A j \in DOMAIN stack : stack[j].node \in visited

(* Operand i of n waits for a call in s.                                   *)
Waits(s, n, i) == \E j \in DOMAIN s : s[j].node = n /\ i >= s[j].next

(* What visited nodes refer to is visited or waits for its turn.           *)
Frontier ==
  \A n \in visited : \A i \in DOMAIN md.ops[n] :
    md.ops[n][i] \in visited \cup {Null} \/ Waits(stack, n, i)

Least == \A S \in SUBSET Nodes : Closed(S) => visited \subseteq S

RootsVisited == \A i \in DOMAIN md.roots : i < root => md.roots[i] \in visited

Types ==
  /\ IsMetadata(md)
  /\ root \in Nat \ {0}
  /\ stack \in Seq(Frame)
  /\ visited \subseteq Nodes

(* The inductive invariant.                                                *)
Inv == Types /\ StackVisited /\ Frontier /\ Least /\ RootsVisited

(* A call of traverseMetadata keeps it, if n is the only node that neither *)
(* is visited nor waits for one of the calls below.                        *)
LEMMA VisitStep ==
  ASSUME Types, Least, UNCHANGED md,
         NEW n \in Nodes \cup {Null}, NEW calls \in Seq(Frame), Visit(n, calls),
         \A j \in DOMAIN calls : calls[j].node \in visited,
         \A m \in visited : \A i \in DOMAIN md.ops[m] :
           md.ops[m][i] \in visited \cup {Null, n} \/ Waits(calls, m, i),
         \A S \in SUBSET Nodes : Closed(S) => n \in S \cup {Null}
  PROVE  /\ stack' \in Seq(Frame)
         /\ visited \subseteq visited' /\ visited' \subseteq Nodes
         /\ n \in visited' \cup {Null}
         /\ StackVisited' /\ Frontier' /\ Least'
<1>1. CASE n = Null \/ n \in visited
  <2>1. stack' = calls /\ visited' = visited
    BY <1>1 DEF Visit
  <2>2. Least' /\ StackVisited'
    BY <2>1 DEF Least, Closed, StackVisited
  <2>3. Frontier'
    BY <1>1, <2>1 DEF Frontier, Waits
  <2> QED BY <1>1, <2>1, <2>2, <2>3 DEF Types
<1>2. CASE n # Null /\ n \notin visited
  <2> DEFINE f == [node |-> n, next |-> 1]
  <2>1. stack' = Append(calls, f) /\ visited' = visited \cup {n} /\ n \in Nodes
    BY <1>2 DEF Visit
  <2>2. f \in Frame /\ f.node = n /\ f.next = 1
    BY <2>1 DEF Frame
  <2> HIDE DEF f
  <2>3. /\ stack' \in Seq(Frame) /\ DOMAIN stack' = 1 .. Len(calls) + 1
        /\ DOMAIN calls = 1 .. Len(calls) /\ Len(calls) \in Nat
        /\ \A j \in DOMAIN calls : stack'[j] = calls[j]
        /\ stack'[Len(calls) + 1] = f
    BY <2>1, <2>2, Pushed
  <2>4. StackVisited'
    <3> SUFFICES ASSUME NEW j \in DOMAIN stack' PROVE stack'[j].node \in visited'
      BY DEF StackVisited
    <3>1. CASE j \in DOMAIN calls
      BY <2>1, <2>3, <3>1
    <3>2. CASE j = Len(calls) + 1
      BY <2>1, <2>2, <2>3, <3>2
    <3> QED BY <2>3, <3>1, <3>2
  <2>5. Frontier'
    <3> SUFFICES ASSUME NEW m \in visited', NEW i \in DOMAIN md.ops[m],
                        md.ops[m][i] \notin visited' \cup {Null}
                 PROVE  Waits(stack', m, i)
      BY DEF Frontier
    <3>1. CASE m = n
      <4>1. i >= 1
        BY <2>1, <3>1 DEF Types, IsMetadata
      <4> QED BY <2>2, <2>3, <3>1, <4>1 DEF Waits
    <3>2. CASE m \in visited
      <4>1. Waits(calls, m, i)
        BY <2>1, <3>2
      <4> QED BY <2>3, <4>1 DEF Waits
    <3> QED BY <2>1, <3>1, <3>2
  <2>6. Least'
    BY <1>2, <2>1 DEF Least, Closed
  <2> QED BY <2>1, <2>3, <2>4, <2>5, <2>6 DEF Types
<1> QED BY <1>1, <1>2

(* A root is called with nothing on the stack.                             *)
LEMMA RootStep ==
  ASSUME Inv, CallRoot
  PROVE  Inv'
<1> DEFINE r == md.roots[root]
<1>1. /\ Types /\ Frontier /\ Least /\ RootsVisited
      /\ stack = <<>> /\ root' = root + 1 /\ UNCHANGED md /\ Visit(r, <<>>)
      /\ root \in DOMAIN md.roots
  BY DEF Inv, CallRoot, Types, IsMetadata
<1>2. r \in Nodes
  BY <1>1 DEF Types, IsMetadata
<1>3. \A m \in visited : \A i \in DOMAIN md.ops[m] :
        md.ops[m][i] \in visited \cup {Null, r} \/ Waits(<<>>, m, i)
  BY <1>1 DEF Frontier
<1>4. \A S \in SUBSET Nodes : Closed(S) => r \in S \cup {Null}
  BY <1>1 DEF Closed
<1> HIDE DEF r
<1>5. /\ stack' \in Seq(Frame)
      /\ visited \subseteq visited' /\ visited' \subseteq Nodes
      /\ r \in visited' \cup {Null}
      /\ StackVisited' /\ Frontier' /\ Least'
  BY <1>1, <1>2, <1>3, <1>4, NoCalls, VisitStep
<1>6. RootsVisited'
  <2> SUFFICES ASSUME NEW i \in DOMAIN md.roots, i < root + 1
               PROVE  md.roots[i] \in visited'
    BY <1>1 DEF RootsVisited
  <2>1. CASE i = root
    BY <1>2, <1>5, <2>1, CrawlerAssumption DEF r
  <2>2. CASE i < root
    BY <1>1, <1>5, <2>2 DEF RootsVisited
  <2> QED BY <1>1, <2>1, <2>2 DEF Types, IsMetadata
<1>7. Types'
  BY <1>1, <1>5 DEF Types, IsMetadata
<1> QED BY <1>5, <1>6, <1>7 DEF Inv

(* An operand is called from the top of the stack, which moves on.         *)
LEMMA OperandStep ==
  ASSUME Inv, CallOperand
  PROVE  Inv'
<1>1. /\ Types /\ StackVisited /\ Frontier /\ Least /\ RootsVisited
      /\ stack # <<>> /\ UNCHANGED <<md, root>> /\ ~Exhausted(Top)
      /\ Visit(md.ops[Top.node][Top.next], Append(Below, Advanced(Top)))
  BY DEF Inv, CallOperand
<1>2. stack \in Seq(Frame) /\ Len(stack) \in Nat \ {0} /\ Top \in Frame
      /\ DOMAIN stack = 1 .. Len(stack) /\ Top = stack[Len(stack)]
  BY <1>1 DEF Types, Top
<1>3. /\ Advanced(Top) \in Frame /\ Advanced(Top).node = Top.node
      /\ Advanced(Top).next = Top.next + 1 /\ Top.next \in Nat \ {0}
      /\ Top.node \in visited
  BY <1>1, <1>2 DEF Advanced, Frame, StackVisited
<1> DEFINE calls == Append(Below, Advanced(Top))
           n == md.ops[Top.node][Top.next]
<1>4. /\ calls \in Seq(Frame) /\ DOMAIN calls = DOMAIN stack
      /\ \A j \in 1 .. Len(stack) - 1 : calls[j] = stack[j]
      /\ calls[Len(stack)] = Advanced(Top)
  BY <1>1, <1>2, <1>3, Calls DEF Below
<1>5. Top.next \in DOMAIN md.ops[Top.node] /\ Top.node \in Nodes
  BY <1>1, <1>2, <1>3 DEF Exhausted, Types, IsMetadata, Frame
<1>6. n \in Nodes \cup {Null}
  BY <1>1, <1>5 DEF Types, IsMetadata
<1>7. \A S \in SUBSET Nodes : Closed(S) => n \in S \cup {Null}
  BY <1>1, <1>3, <1>5 DEF Closed, Least
<1>8. Visit(n, calls)
  BY <1>1
<1> HIDE DEF calls
<1>9. \A j \in DOMAIN calls : calls[j].node \in visited
  <2> SUFFICES ASSUME NEW j \in DOMAIN stack PROVE calls[j].node \in visited
    BY <1>4
  <2>1. CASE j = Len(stack)
    BY <1>3, <1>4, <2>1
  <2>2. CASE j \in 1 .. Len(stack) - 1
    BY <1>1, <1>4, <2>2 DEF StackVisited
  <2> QED BY <1>2, <2>1, <2>2
<1>10. ASSUME NEW m \in visited, NEW i \in DOMAIN md.ops[m],
              md.ops[m][i] \notin visited \cup {Null, n}
       PROVE  Waits(calls, m, i)
  <2>1. Waits(stack, m, i)
    BY <1>1, <1>10 DEF Frontier
  <2>2. PICK j \in DOMAIN stack : stack[j].node = m /\ i >= stack[j].next
    BY <2>1 DEF Waits
  <2>3. CASE j = Len(stack)
    <3>1. m = Top.node /\ i >= Top.next
      BY <1>2, <2>2, <2>3
    <3>2. i # Top.next
      BY <1>10, <3>1
    <3>3. i \in Nat
      BY <1>1, <1>10 DEF Types, IsMetadata
    <3>4. i >= Top.next + 1
      BY <1>3, <3>1, <3>2, <3>3
    <3> QED BY <1>3, <1>4, <2>2, <2>3, <3>1, <3>4 DEF Waits
  <2>4. CASE j \in 1 .. Len(stack) - 1
    BY <1>4, <2>2, <2>4 DEF Waits
  <2> QED BY <1>2, <2>3, <2>4
<1> HIDE DEF n
<1>11. /\ stack' \in Seq(Frame)
       /\ visited \subseteq visited' /\ visited' \subseteq Nodes
       /\ StackVisited' /\ Frontier' /\ Least'
  BY <1>1, <1>4, <1>6, <1>7, <1>8, <1>9, <1>10, VisitStep
<1>12. RootsVisited' /\ Types'
  BY <1>1, <1>11 DEF RootsVisited, Types, IsMetadata
<1> QED BY <1>11, <1>12 DEF Inv

(* A call that returns leaves no operand of its node waiting.              *)
LEMMA ReturnStep ==
  ASSUME Inv, Return
  PROVE  Inv'
<1>1. /\ Types /\ StackVisited /\ Frontier /\ Least /\ RootsVisited
      /\ stack # <<>> /\ Exhausted(Top) /\ stack' = Below
      /\ UNCHANGED <<md, root, visited>>
  BY DEF Inv, Return
<1>2. stack \in Seq(Frame) /\ Len(stack) \in Nat \ {0} /\ Top \in Frame
      /\ DOMAIN stack = 1 .. Len(stack) /\ Top = stack[Len(stack)]
  BY <1>1 DEF Types, Top
<1>3. /\ stack' \in Seq(Frame) /\ DOMAIN stack' = 1 .. Len(stack) - 1
      /\ \A j \in DOMAIN stack' : stack'[j] = stack[j]
  BY <1>1, <1>2, Calls DEF Below
<1>4. StackVisited'
  BY <1>1, <1>2, <1>3 DEF StackVisited
<1>5. Frontier'
  <2> SUFFICES ASSUME NEW m \in visited, NEW i \in DOMAIN md.ops[m],
                      md.ops[m][i] \notin visited \cup {Null}
               PROVE  Waits(stack', m, i)
    BY <1>1 DEF Frontier
  <2>1. PICK j \in DOMAIN stack : stack[j].node = m /\ i >= stack[j].next
    BY <1>1 DEF Frontier, Waits
  <2>2. m \in Nodes
    BY <1>1 DEF Types
  <2>3. i \in 1 .. Len(md.ops[m]) /\ Len(md.ops[m]) \in Nat
    BY <1>1, <2>2 DEF Types, IsMetadata
  <2>4. j # Len(stack)
    <3> SUFFICES ASSUME j = Len(stack) PROVE FALSE
      OBVIOUS
    <3>1. Top.node = m /\ i >= Top.next /\ Top.next \in Nat
      BY <1>2, <2>1 DEF Frame
    <3> QED BY <1>1, <2>3, <3>1 DEF Exhausted
  <2> QED BY <1>2, <1>3, <2>1, <2>4 DEF Waits
<1>6. Least' /\ RootsVisited' /\ Types'
  BY <1>1, <1>3 DEF Least, Closed, RootsVisited, Types, IsMetadata
<1> QED BY <1>4, <1>5, <1>6 DEF Inv

(* The next crawl starts with nothing visited; after the last one nothing  *)
(* changes but that there is no root to come.                              *)
LEMMA NextPassStep ==
  ASSUME Inv, NextPass
  PROVE  Inv'
<1>1. /\ Types /\ Frontier /\ Least /\ stack = <<>> /\ root' = 1
      /\ UNCHANGED <<md, stack>> /\ (visited' = {} \/ visited' = visited)
  BY DEF Inv, NextPass, PassEnd, Cleared
<1>2. RootsVisited'
  BY <1>1 DEF RootsVisited, Types, IsMetadata
<1>3. StackVisited'
  BY <1>1, NoCalls DEF StackVisited
<1>4. Frontier' /\ Least'
  BY <1>1, NoCalls DEF Frontier, Least, Closed, Waits
<1>5. Types'
  BY <1>1 DEF Types, IsMetadata
<1> QED BY <1>2, <1>3, <1>4, <1>5 DEF Inv

-----------------------------------------------------------------------------
(* Init establishes the invariant.                                         *)
LEMMA InvInit == Init => Inv
<1> SUFFICES ASSUME Init PROVE Inv
  OBVIOUS
<1>1. Types
  <2>1. IsMetadata(md)
    BY CrawlerAssumption DEF Init
  <2>2. root = 1 /\ stack \in Seq(Frame) /\ visited = {}
    BY NoCalls DEF Init
  <2> QED BY <2>1, <2>2 DEF Types
<1>2. StackVisited /\ Frontier /\ Least
  BY NoCalls DEF Init, StackVisited, Frontier, Least
<1>3. RootsVisited
  BY <1>1 DEF Init, RootsVisited, Types, IsMetadata
<1> QED BY <1>1, <1>2, <1>3 DEF Inv

(* Every step keeps it.                                                    *)
LEMMA InvStep == Inv /\ [Next]_vars => Inv'
<1> SUFFICES ASSUME Inv, [Next]_vars PROVE Inv'
  OBVIOUS
<1>1. CASE UNCHANGED vars
  BY <1>1 DEF vars, Inv, Types, IsMetadata, StackVisited, Frontier, Waits, Least,
              Closed, RootsVisited
<1> QED BY <1>1, RootStep, OperandStep, ReturnStep, NextPassStep DEF Next, Terminated

(* When the stack is empty and the roots are used up nothing waits.        *)
LEMMA InvVisits == Inv => VisitsReachable
<1> SUFFICES ASSUME Inv, PassEnd PROVE Closed(visited) /\ Least
  BY DEF VisitsReachable, Least
<1>1. Types /\ Frontier /\ RootsVisited /\ Least /\ stack = <<>> /\ root > Len(md.roots)
  BY DEF Inv, PassEnd
<1>2. \A i \in DOMAIN md.roots : md.roots[i] \in visited
  BY <1>1 DEF RootsVisited, Types, IsMetadata
<1>3. \A n \in visited : \A i \in DOMAIN md.ops[n] : md.ops[n][i] \in visited \cup {Null}
  BY <1>1, NoCalls DEF Frontier, Waits
<1> QED BY <1>1, <1>2, <1>3 DEF Closed

(* For any debug information, cyclic or not, with any roots: a crawl visits*)
(* all that can be reached from the roots and nothing else.                *)
THEOREM CrawlIsExact == Spec => []VisitsReachable
<1> QED BY InvInit, InvStep, InvVisits, PTL DEF Spec

-----------------------------------------------------------------------------
(* The field names of a class.                                             *)

(* A non-empty set of naturals has a least element.                        *)
LEMMA Minimum ==
  ASSUME NEW T \in SUBSET Nat, T # {}
  PROVE  \E x \in T : \A y \in T : x <= y
<1> DEFINE R == {ss \in Nat \X Nat : ss[1] < ss[2]}
<1>1. IsWellFoundedOn(R, Nat)
  <2>1. R = OpToRel(<, Nat)
    BY DEF OpToRel
  <2> QED BY <2>1, NatLessThanWellFounded
<1> HIDE DEF R
<1>2. PICK x \in T : \A y \in T : ~(<<y, x>> \in R)
  <2> T \subseteq Nat
    OBVIOUS
  <2> QED BY <1>1, WFMin, Zenon
<1>3. ASSUME NEW y \in T PROVE x <= y
  <2>1. x \in Nat /\ y \in Nat /\ <<y, x>> \notin R
    BY <1>2
  <2> QED BY <2>1 DEF R
<1> QED BY <1>3

(* The names so far, and the next member.                                  *)
Named(names, member) ==
  IF member = Null THEN names ELSE Append(names, FieldName(member))

(* g has the names of the first k of n members, for each k.                *)
Collects(members, n, g) ==
  g = [k \in 0 .. n |-> IF k = 0 THEN <<>> ELSE Named(g[k - 1], members[k])]

(* The recursion of FieldNames is well-founded.                            *)
LEMMA CollectsExists ==
  ASSUME NEW members, NEW n \in Nat
  PROVE  \E g : Collects(members, n, g)
<1> DEFINE T == {k \in Nat : ~\E g : Collects(members, k, g)}
<1>1. SUFFICES ASSUME T # {} PROVE FALSE
  OBVIOUS
<1>2. PICK m \in T : \A k \in T : m <= k
  <2> T \subseteq Nat
    OBVIOUS
  <2> HIDE DEF T
  <2> QED BY <1>1, Minimum
<1>3. CASE m = 0
  <2> DEFINE h == [k \in 0 .. m |-> <<>>]
  <2>1. h = [k \in 0 .. m |-> IF k = 0 THEN <<>> ELSE Named(h[k - 1], members[k])]
    BY <1>3
  <2> HIDE DEF h
  <2>2. Collects(members, m, h)
    BY <2>1 DEF Collects
  <2> QED BY <1>2, <2>2
<1>4. CASE m # 0
  <2>1. m - 1 \in Nat /\ m - 1 \notin T
    BY <1>2, <1>4
  <2>2. PICK g : Collects(members, m - 1, g)
    BY <2>1
  <2> DEFINE h == [k \in 0 .. m |-> IF k = m THEN Named(g[m - 1], members[m]) ELSE g[k]]
  <2>3. ASSUME NEW k \in 0 .. m
        PROVE  h[k] = IF k = 0 THEN <<>> ELSE Named(h[k - 1], members[k])
    <3>1. CASE k = m
      BY <1>4, <3>1
    <3>2. CASE k # m
      <4>1. h[k] = g[k] /\ k \in 0 .. m - 1
        BY <3>2
      <4>2. g[k] = IF k = 0 THEN <<>> ELSE Named(g[k - 1], members[k])
        BY <2>2, <4>1 DEF Collects
      <4>3. k # 0 => h[k - 1] = g[k - 1]
        BY <4>1
      <4> HIDE DEF h
      <4> QED BY <4>1, <4>2, <4>3
    <3> QED BY <3>1, <3>2
  <2>4. h = [k \in 0 .. m |-> h[k]]
    OBVIOUS
  <2> HIDE DEF h
  <2>5. h = [k \in 0 .. m |-> IF k = 0 THEN <<>> ELSE Named(h[k - 1], members[k])]
    BY <2>3, <2>4
  <2>6. Collects(members, m, h)
    BY <2>5 DEF Collects
  <2> QED BY <1>2, <2>6
<1> QED BY <1>3, <1>4

(* What a class has are names.                                             *)
LEMMA FieldNamesTypes ==
  ASSUME Types, NEW list \in Nodes
  PROVE  FieldNames(list) \in Seq(Names)
<1> DEFINE members == md.ops[list]
           n == Len(members)
<1>1. members \in Seq(Nodes \cup {Null}) /\ n \in Nat
  BY DEF Types, IsMetadata
<1>2. \A k \in 1 .. n : members[k] = Null \/ FieldName(members[k]) \in Names
  <2> SUFFICES ASSUME NEW k \in 1 .. n, members[k] # Null
               PROVE  FieldName(members[k]) \in Names
    OBVIOUS
  <2>1. members[k] \in Nodes
    BY <1>1
  <2>2. md.name[members[k]] \in Names \cup {Null} /\ "unknown" \in Names
    BY <2>1, CrawlerAssumption DEF Types, IsMetadata
  <2> HIDE DEF members
  <2> QED BY <2>2 DEF FieldName
<1> DEFINE g == CHOOSE g : Collects(members, n, g)
<1>3. Collects(members, n, g)
  <2> HIDE DEF members, n
  <2> QED BY <1>1, CollectsExists
<1>4. FieldNames(list) = g[n]
  BY DEF FieldNames, Collects, Named
<1> HIDE DEF g, members, n
<1> DEFINE T == {k \in 0 .. n : g[k] \notin Seq(Names)}
<1>5. T = {}
  <2>1. SUFFICES ASSUME T # {} PROVE FALSE
    OBVIOUS
  <2>2. PICK k \in T : \A j \in T : k <= j
    <3> T \subseteq Nat
      OBVIOUS
    <3> HIDE DEF T
    <3> QED BY <2>1, Minimum
  <2>3. g[k] = IF k = 0 THEN <<>> ELSE Named(g[k - 1], members[k])
    BY <1>3 DEF Collects
  <2>4. k # 0
    <3>1. <<>> \in Seq(Names)
      OBVIOUS
    <3> QED BY <2>2, <2>3, <3>1
  <2>5. k - 1 \in 0 .. n /\ k - 1 \notin T /\ k \in 1 .. n
    BY <1>1, <2>2, <2>4
  <2>6. g[k - 1] \in Seq(Names)
    BY <2>5
  <2>7. Named(g[k - 1], members[k]) \in Seq(Names)
    BY <1>2, <2>5, <2>6 DEF Named
  <2> QED BY <2>2, <2>3, <2>4, <2>7
<1>6. n \in 0 .. n
  BY <1>1
<1> QED BY <1>4, <1>5, <1>6

-----------------------------------------------------------------------------
(* The tables.                                                             *)

(* The nodes that can be reached.                                          *)
Reach == {n \in Nodes : \A S \in SUBSET Nodes : Closed(S) => n \in S}

TypedefsOf(n) == {t \in Reach : IsTypedef(t) /\ Base(t) = n}

(* A class whose fields are recorded, and the names it may have.           *)
IsRecorded(n) == IsClass(n) /\ md.name[n] # Null /\ Members(n) # Null

NamesIn(n) ==
  IF md.name[n] # "" THEN {md.name[n]} ELSE {TypedefName(t) : t \in TypedefsOf(n)}

(* c is the name of n, and of no other class.                              *)
OwnName(n, c) ==
  /\ n \in Reach /\ IsRecorded(n) /\ NamesIn(n) = {c}
  /\ \A m \in Reach \ {n} : IsRecorded(m) => NamesIn(m) # {} /\ c \notin NamesIn(m)

Tables ==
  /\ pass \in 1 .. 3
  /\ typedefMap \in [Nodes -> Names \cup {Null}]
  /\ fieldMap \in [ClassNames -> Seq(Names)]

(* The second crawl has visited what the first has.                        *)
Crawled == pass = 3 => visited = Reach /\ stack = <<>>

(* typedefMap names a type by a typedef of it, and after the first crawl   *)
(* every type that has one.                                                *)
TypedefInv ==
  /\ \A n \in Nodes : typedefMap[n] # Null =>
       \E t \in TypedefsOf(n) : typedefMap[n] = TypedefName(t)
  /\ \A t \in IF pass = 1 THEN visited ELSE Reach :
       IsTypedef(t) /\ Base(t) # Null => typedefMap[Base(t)] # Null

(* What the second crawl has met.                                          *)
Met == IF pass = 1 THEN {} ELSE visited

(* An entry only one class can have has its fields, once it has been met.  *)
FieldInv ==
  \A n \in Nodes : \A c \in Names : OwnName(n, c) =>
    fieldMap[c] = IF n \in Met THEN FieldNames(Members(n)) ELSE <<>>

(* The first field of a class named by a typedef is in that entry.         *)
FirstInv ==
  \A n \in Met :
    /\ IsRecorded(n) /\ md.name[n] = "" /\ typedefMap[n] # Null
    /\ FieldNames(Members(n)) # <<>>
    => \E i \in DOMAIN fieldMap[typedefMap[n]] :
         fieldMap[typedefMap[n]][i] = FieldNames(Members(n))[1]

TableInv == Tables /\ Crawled /\ TypedefInv /\ FieldInv /\ FirstInv

(* What a node says is typed.                                              *)
LEMMA NodeTypes ==
  ASSUME Types, NEW n \in Nodes
  PROVE  /\ Base(n) \in Nodes \cup {Null} /\ Members(n) \in Nodes \cup {Null}
         /\ md.name[n] \in Names \cup {Null} /\ TypedefName(n) \in Names
         /\ md.ops[n] \in Seq(Nodes \cup {Null})
<1>1. md.ops[n] \in Seq(Nodes \cup {Null}) /\ md.name[n] \in Names \cup {Null}
  BY DEF Types, IsMetadata
<1>2. \A i \in Nat \ {0} : Operand(n, i) \in Nodes \cup {Null}
  BY <1>1 DEF Operand
<1>3. TypedefName(n) \in Names
  BY <1>1, CrawlerAssumption DEF TypedefName
<1> QED BY <1>1, <1>2, <1>3 DEF Base, Members

(* What has been visited can be reached; at the end of a crawl it is all.  *)
LEMMA VisitedReach ==
  /\ Types /\ Least => visited \subseteq Reach
  /\ Inv /\ PassEnd => visited = Reach
<1>1. Types /\ Least => visited \subseteq Reach
  BY DEF Types, Least, Reach
<1>2. ASSUME Inv, PassEnd PROVE visited = Reach
  <2>1. Closed(visited) /\ visited \in SUBSET Nodes /\ Types /\ Least
    BY <1>2, InvVisits DEF VisitsReachable, Inv, Types
  <2>2. Reach \subseteq visited
    BY <2>1 DEF Reach
  <2> QED BY <1>1, <2>1, <2>2
<1> QED BY <1>1, <1>2

(* A class with a name is recorded under one of its names.                 *)
LEMMA NamesGiven ==
  ASSUME Types, TypedefInv, pass # 1, NEW n \in Reach, IsRecorded(n), NamesIn(n) # {}
  PROVE  ClassName(n) \subseteq NamesIn(n) /\ ClassName(n) # {}
<1>1. n \in Nodes
  BY DEF Reach
<1>2. CASE md.name[n] # ""
  BY <1>2 DEF ClassName, NamesIn
<1>3. CASE md.name[n] = ""
  <2>1. PICK t \in TypedefsOf(n) : TRUE
    BY <1>3 DEF NamesIn
  <2>2. t \in Reach /\ IsTypedef(t) /\ Base(t) = n /\ n # Null
    BY <1>1, <2>1, CrawlerAssumption DEF TypedefsOf
  <2>3. typedefMap[n] # Null
    BY <2>2 DEF TypedefInv
  <2>4. \E u \in TypedefsOf(n) : typedefMap[n] = TypedefName(u)
    BY <1>1, <2>3 DEF TypedefInv
  <2> QED BY <1>3, <2>3, <2>4 DEF ClassName, NamesIn
<1> QED BY <1>2, <1>3

(* FieldNames as an operator on modules.                                   *)
NamesOf(m, list) ==
  LET members == m.ops[list]
      names[i \in 0 .. Len(members)] ==
        IF i = 0 THEN <<>>
        ELSE IF members[i] = Null THEN names[i - 1]
        ELSE Append(names[i - 1],
                    IF m.name[members[i]] = Null THEN "unknown" ELSE m.name[members[i]])
  IN names[Len(members)]

(* It is the same in a module that is the same.                            *)
LEMMA SameNames ==
  ASSUME UNCHANGED md, NEW list
  PROVE  FieldNames(list)' = FieldNames(list)
<1>1. FieldNames(list) = NamesOf(md, list)
  BY DEF FieldNames, FieldName, NamesOf
<1>2. FieldNames(list)' = NamesOf(md', list)
  BY DEF FieldNames, FieldName, NamesOf
<1>3. NamesOf(md', list) = NamesOf(md, list)
  OBVIOUS
<1> QED BY <1>1, <1>2, <1>3

(* The names of a class and what is recorded of it do not change.          *)
LEMMA SameModule ==
  ASSUME UNCHANGED md
  PROVE  /\ Reach' = Reach
         /\ \A n : /\ IsRecorded(n)' <=> IsRecorded(n)
                   /\ NamesIn(n)' = NamesIn(n) /\ TypedefsOf(n)' = TypedefsOf(n)
                   /\ FieldNames(Members(n))' = FieldNames(Members(n))
                   /\ TypedefName(n)' = TypedefName(n)
                   /\ Base(n)' = Base(n) /\ (IsTypedef(n)' <=> IsTypedef(n))
                   /\ \A c : OwnName(n, c)' <=> OwnName(n, c)
<1>1. Reach' = Reach
  BY DEF Reach, Closed
<1>2. \A n : /\ IsRecorded(n)' <=> IsRecorded(n)
             /\ TypedefName(n)' = TypedefName(n)
             /\ Base(n)' = Base(n) /\ (IsTypedef(n)' <=> IsTypedef(n))
             /\ Members(n)' = Members(n)
  BY DEF IsRecorded, IsClass, Members, Operand, CHECK_TAG, IsTypedef, Base, TypedefName
<1>3. \A n : TypedefsOf(n)' = TypedefsOf(n)
  BY <1>1, <1>2 DEF TypedefsOf
<1>4. \A n : NamesIn(n)' = NamesIn(n)
  BY <1>2, <1>3 DEF NamesIn
<1>5. \A n : FieldNames(Members(n))' = FieldNames(Members(n))
  BY <1>2, SameNames
<1>6. \A n, c : OwnName(n, c)' <=> OwnName(n, c)
  BY <1>1, <1>2, <1>4 DEF OwnName
<1> QED BY <1>1, <1>2, <1>3, <1>4, <1>5, <1>6


(* They stay right when nothing is written.                                *)
LEMMA TablesStay ==
  ASSUME TableInv, UNCHANGED <<md, pass, visited, typedefMap, fieldMap>>,
         pass = 3 => stack' = stack
  PROVE  TableInv'
<1>1. Tables /\ Crawled /\ TypedefInv /\ FieldInv /\ FirstInv
  BY DEF TableInv
<1>2. Tables'
  BY <1>1 DEF Tables
<1>3. Crawled'
  BY <1>1, SameModule DEF Crawled
<1>4. TypedefInv'
  <2>1. \A k \in Nodes : typedefMap'[k] # Null =>
          \E t \in TypedefsOf(k)' : typedefMap'[k] = TypedefName(t)'
    BY <1>1, SameModule DEF TypedefInv
  <2>2. \A t \in IF pass' = 1 THEN visited' ELSE Reach' :
          IsTypedef(t)' /\ Base(t)' # Null => typedefMap'[Base(t)'] # Null
    BY <1>1, SameModule DEF TypedefInv
  <2> QED BY <2>1, <2>2 DEF TypedefInv
<1>5. Met' = Met
  BY DEF Met
<1>6. FieldInv'
  <2>1. \A k \in Nodes : \A c \in Names : OwnName(k, c)' =>
          fieldMap'[c] = IF k \in Met' THEN FieldNames(Members(k))' ELSE <<>>
    BY <1>1, <1>5, SameModule DEF FieldInv
  <2> QED BY <2>1 DEF FieldInv
<1>7. FirstInv'
  <2> SUFFICES ASSUME NEW k \in Met', IsRecorded(k)', md'.name[k] = "", typedefMap'[k] # Null,
                      FieldNames(Members(k))' # <<>>
               PROVE  \E i \in DOMAIN fieldMap'[typedefMap'[k]] :
                        fieldMap'[typedefMap'[k]][i] = FieldNames(Members(k))'[1]
    BY DEF FirstInv
  <2>1. IsRecorded(k) /\ FieldNames(Members(k))' = FieldNames(Members(k))
    BY SameModule
  <2> QED BY <1>1, <1>5, <2>1 DEF FirstInv
<1> QED BY <1>2, <1>3, <1>4, <1>6, <1>7 DEF TableInv

(* What a list has stays in front when more is appended.                   *)
LEMMA Appended ==
  ASSUME NEW s \in Seq(Names), NEW t \in Seq(Names)
  PROVE  /\ s \o t \in Seq(Names) /\ (s = <<>> => s \o t = t)
         /\ \A i \in DOMAIN s : i \in DOMAIN (s \o t) /\ (s \o t)[i] = s[i]
         /\ t # <<>> => \E i \in DOMAIN (s \o t) : (s \o t)[i] = t[1]
<1>1. s \o t \in Seq(Names) /\ (s = <<>> => s \o t = t)
  OBVIOUS
<1>2. \A i \in DOMAIN s : i \in DOMAIN (s \o t) /\ (s \o t)[i] = s[i]
  OBVIOUS
<1>3. ASSUME t # <<>> PROVE \E i \in DOMAIN (s \o t) : (s \o t)[i] = t[1]
  <2>1. Len(t) >= 1 /\ Len(s) \in Nat /\ Len(t) \in Nat
    BY <1>3
  <2>2. Len(s) + 1 \in DOMAIN (s \o t) /\ (s \o t)[Len(s) + 1] = t[1]
    BY <2>1
  <2> QED BY <2>2
<1> QED BY <1>1, <1>2, <1>3

(* A node visited by the first crawl: its typedef is learnt.               *)
LEMMA TypedefVisit ==
  ASSUME Types, TableInv, UNCHANGED <<md, pass, fieldMap>>, pass = 1,
         NEW n \in Nodes, n \in Reach, visited' = visited \cup {n},
         typedefMap' = Typedefs(n)
  PROVE  TableInv'
<1>1. /\ Tables /\ Crawled /\ TypedefInv /\ FieldInv /\ FirstInv
  BY DEF TableInv
<1>2. Base(n) \in Nodes \cup {Null} /\ TypedefName(n) \in Names
  BY NodeTypes
<1>3. Null \notin Nodes /\ Null \notin Names
  BY CrawlerAssumption
<1>4. typedefMap' \in [Nodes -> Names \cup {Null}]
  BY <1>1, <1>2 DEF Typedefs, Tables
<1>5. Tables' /\ Crawled'
  BY <1>1, <1>4 DEF Tables, Crawled
<1>6. TypedefInv'
  <2>1. ASSUME NEW k \in Nodes, typedefMap'[k] # Null
        PROVE  \E t \in TypedefsOf(k) : typedefMap'[k] = TypedefName(t)
    <3>1. CASE typedefMap'[k] = typedefMap[k]
      BY <1>1, <2>1, <3>1 DEF TypedefInv
    <3>2. CASE typedefMap'[k] # typedefMap[k]
      <4>1. IsTypedef(n) /\ k = Base(n) /\ typedefMap'[k] = TypedefName(n)
        BY <1>1, <3>2 DEF Typedefs, Tables
      <4>2. n \in TypedefsOf(k)
        BY <4>1 DEF TypedefsOf
      <4> QED BY <4>1, <4>2
    <3> QED BY <3>1, <3>2
  <2>2. ASSUME NEW t \in visited \cup {n}, IsTypedef(t), Base(t) # Null
        PROVE  typedefMap'[Base(t)] # Null
    <3>1. Base(t) \in Nodes
      <4>1. t \in Nodes
        BY DEF Types
      <4> QED BY <2>2, <4>1, NodeTypes
    <3>2. CASE typedefMap[Base(t)] # Null
      BY <1>1, <1>2, <1>3, <3>1, <3>2 DEF Typedefs, Tables
    <3>3. CASE typedefMap[Base(t)] = Null
      <4>1. t = n
        BY <1>1, <2>2, <3>3 DEF TypedefInv
      <4> QED BY <1>1, <1>2, <1>3, <2>2, <3>1, <3>3, <4>1 DEF Typedefs, Tables
    <3> QED BY <3>2, <3>3
  <2>3. \A k \in Nodes : typedefMap'[k] # Null =>
          \E t \in TypedefsOf(k)' : typedefMap'[k] = TypedefName(t)'
    BY <2>1, SameModule
  <2>4. \A t \in visited' : IsTypedef(t)' /\ Base(t)' # Null => typedefMap'[Base(t)'] # Null
    BY <2>2, SameModule
  <2> QED BY <2>3, <2>4 DEF TypedefInv
<1>7. Met = {} /\ Met' = {}
  BY DEF Met
<1>8. \A k \in Nodes : \A c \in Names : OwnName(k, c)' =>
        fieldMap'[c] = IF k \in Met' THEN FieldNames(Members(k))' ELSE <<>>
  BY <1>1, <1>7, SameModule DEF FieldInv
<1>9. FieldInv' /\ FirstInv'
  BY <1>7, <1>8 DEF FieldInv, FirstInv
<1> QED BY <1>5, <1>6, <1>9 DEF TableInv

(* A node visited by the second crawl: its fields are recorded.            *)
LEMMA FieldVisit ==
  ASSUME Types, TableInv, UNCHANGED <<md, pass, typedefMap>>, pass = 2,
         NEW n \in Nodes, n \in Reach, n \notin visited, visited' = visited \cup {n},
         fieldMap' \in FieldsOf(n)
  PROVE  TableInv'
<1>1. /\ Tables /\ Crawled /\ TypedefInv /\ FieldInv /\ FirstInv
  BY DEF TableInv
<1>2. IsRecorded(n) => FieldNames(Members(n)) \in Seq(Names)
  <2>1. Members(n) \in Nodes \cup {Null}
    BY NodeTypes
  <2> QED BY <2>1, FieldNamesTypes DEF IsRecorded
<1>3. IsRecorded(n) => ClassName(n) \subseteq ClassNames
  <2>1. md.name[n] \in Names \cup {Null} /\ typedefMap[n] \in Names \cup {Null}
    BY <1>1, NodeTypes DEF Tables
  <2>2. IsRecorded(n) => md.name[n] # Null
    BY DEF IsRecorded
  <2> QED BY <2>1, <2>2 DEF ClassName, ClassNames
<1> DEFINE F == FieldNames(Members(n))
<1>4. \/ ~IsRecorded(n) /\ fieldMap' = fieldMap
      \/ IsRecorded(n) /\ \E d \in ClassName(n) : fieldMap' = [fieldMap EXCEPT ![d] = @ \o F]
  BY DEF FieldsOf, IsRecorded, Recorded
<1> HIDE DEF F
<1>5. fieldMap' \in [ClassNames -> Seq(Names)]
  <2>1. CASE fieldMap' = fieldMap
    BY <1>1, <2>1 DEF Tables
  <2>2. CASE IsRecorded(n) /\ \E d \in ClassName(n) : fieldMap' = [fieldMap EXCEPT ![d] = @ \o F]
    <3>1. PICK d \in ClassName(n) : fieldMap' = [fieldMap EXCEPT ![d] = @ \o F]
      BY <2>2
    <3>2. fieldMap[d] \o F \in Seq(Names)
      BY <1>1, <1>2, <1>3, <2>2, Appended DEF F, Tables
    <3> QED BY <1>1, <1>3, <2>2, <3>1, <3>2 DEF Tables
  <2> QED BY <1>4, <2>1, <2>2
<1>6. Tables' /\ Crawled' /\ Met = visited /\ Met' = visited \cup {n}
  BY <1>1, <1>5 DEF Tables, Crawled, Met
<1>7. TypedefInv'
  <2>1. \A k \in Nodes : typedefMap'[k] # Null =>
          \E t \in TypedefsOf(k)' : typedefMap'[k] = TypedefName(t)'
    BY <1>1, SameModule DEF TypedefInv
  <2>2. \A t \in Reach' : IsTypedef(t)' /\ Base(t)' # Null => typedefMap'[Base(t)'] # Null
    BY <1>1, SameModule DEF TypedefInv
  <2> QED BY <2>1, <2>2 DEF TypedefInv
<1>8. ASSUME NEW k \in Nodes, NEW c \in Names, OwnName(k, c)
      PROVE  fieldMap'[c] = IF k \in Met' THEN FieldNames(Members(k)) ELSE <<>>
  <2>1. fieldMap[c] = IF k \in visited THEN FieldNames(Members(k)) ELSE <<>>
    BY <1>1, <1>6, <1>8 DEF FieldInv
  <2>2. CASE ~IsRecorded(n)
    <3>1. k # n
      BY <1>8, <2>2 DEF OwnName
    <3> QED BY <1>4, <1>6, <2>1, <2>2, <3>1
  <2>3. CASE IsRecorded(n)
    <3>1. PICK d \in ClassName(n) : fieldMap' = [fieldMap EXCEPT ![d] = @ \o F]
      BY <1>4, <2>3
    <3>2. NamesIn(n) # {} /\ (k = n => NamesIn(n) = {c}) /\ (k # n => c \notin NamesIn(n))
      BY <1>8, <2>3 DEF OwnName
    <3>3. d \in NamesIn(n)
      BY <1>1, <2>3, <3>2, NamesGiven
    <3>4. CASE k = n
      <4>1. d = c /\ fieldMap[c] = <<>> /\ c \in ClassNames
        BY <2>1, <3>2, <3>3, <3>4 DEF ClassNames
      <4>2. <<>> \o F = F
        <5>1. <<>> \in Seq(Names)
          OBVIOUS
        <5> QED BY <1>2, <2>3, <5>1, Appended DEF F
      <4>3. fieldMap'[c] = F
        BY <1>1, <3>1, <4>1, <4>2 DEF Tables
      <4> QED BY <1>6, <3>4, <4>3 DEF F
    <3>5. CASE k # n
      <4>1. d # c /\ c \in ClassNames
        BY <3>2, <3>3, <3>5 DEF ClassNames
      <4>2. fieldMap'[c] = fieldMap[c]
        BY <1>1, <3>1, <4>1 DEF Tables
      <4> QED BY <1>6, <2>1, <3>5, <4>2
    <3> QED BY <3>4, <3>5
  <2> QED BY <2>2, <2>3
<1>9. \A k \in Nodes : \A c \in Names : OwnName(k, c)' =>
        fieldMap'[c] = IF k \in Met' THEN FieldNames(Members(k))' ELSE <<>>
  BY <1>8, SameModule
<1>10. ASSUME NEW k \in Met', IsRecorded(k), md.name[k] = "", typedefMap[k] # Null,
              FieldNames(Members(k)) # <<>>
       PROVE  \E i \in DOMAIN fieldMap'[typedefMap[k]] :
                fieldMap'[typedefMap[k]][i] = FieldNames(Members(k))[1]
  <2>1. k \in Nodes
    BY <1>6 DEF Types
  <2> DEFINE e == typedefMap[k]
  <2>2. e \in ClassNames
    BY <1>1, <1>10, <2>1 DEF Tables, ClassNames
  <2>3. CASE k \in visited
    <3>1. PICK i \in DOMAIN fieldMap[e] : fieldMap[e][i] = FieldNames(Members(k))[1]
      BY <1>1, <1>6, <1>10, <2>3 DEF FirstInv
    <3> HIDE DEF e
    <3>2. i \in DOMAIN fieldMap'[e] /\ fieldMap'[e][i] = fieldMap[e][i]
      <4>1. CASE fieldMap' = fieldMap
        BY <4>1
      <4>2. CASE IsRecorded(n) /\ \E d \in ClassName(n) : fieldMap' = [fieldMap EXCEPT ![d] = @ \o F]
        <5>1. PICK d \in ClassName(n) : fieldMap' = [fieldMap EXCEPT ![d] = @ \o F]
          BY <4>2
        <5>2. fieldMap'[e] = IF e = d THEN fieldMap[e] \o F ELSE fieldMap[e]
          BY <1>1, <1>3, <2>2, <4>2, <5>1 DEF Tables
        <5>3. fieldMap[e] \in Seq(Names) /\ F \in Seq(Names)
          BY <1>1, <1>2, <2>2, <4>2 DEF Tables, F
        <5>4. i \in DOMAIN (fieldMap[e] \o F) /\ (fieldMap[e] \o F)[i] = fieldMap[e][i]
          BY <5>3, Appended
        <5> QED BY <5>2, <5>4
      <4> QED BY <1>4, <4>1, <4>2
    <3>3. fieldMap'[e][i] = FieldNames(Members(k))[1]
      BY <3>1, <3>2
    <3> QED BY <3>2, <3>3 DEF e
  <2>4. CASE k \notin visited
    <3>1. k = n /\ e \in ClassNames
      BY <1>6, <2>2, <2>4
    <3>2. ClassName(n) = {e}
      BY <1>10, <3>1 DEF ClassName
    <3> HIDE DEF e
    <3>3. fieldMap' = [fieldMap EXCEPT ![e] = @ \o F]
      BY <1>4, <1>10, <3>1, <3>2
    <3>4. fieldMap'[e] = fieldMap[e] \o F /\ fieldMap[e] \in Seq(Names)
      BY <1>1, <2>2, <3>3 DEF Tables
    <3>5. \E i \in DOMAIN fieldMap'[e] : fieldMap'[e][i] = F[1]
      <4>1. F \in Seq(Names) /\ F # <<>>
        BY <1>2, <1>10, <3>1 DEF F
      <4> DEFINE old == fieldMap[e]
      <4>2. old \in Seq(Names) /\ fieldMap'[e] = old \o F
        BY <3>4
      <4> HIDE DEF old
      <4>3. \E i \in DOMAIN (old \o F) : (old \o F)[i] = F[1]
        BY <4>1, <4>2, Appended
      <4> QED BY <4>2, <4>3
    <3> QED BY <3>1, <3>5 DEF e, F
  <2> QED BY <2>3, <2>4
<1>11. FirstInv'
  <2> SUFFICES ASSUME NEW k \in Met', IsRecorded(k)', md'.name[k] = "", typedefMap'[k] # Null,
                      FieldNames(Members(k))' # <<>>
               PROVE  \E i \in DOMAIN fieldMap'[typedefMap'[k]] :
                        fieldMap'[typedefMap'[k]][i] = FieldNames(Members(k))'[1]
    BY DEF FirstInv
  <2>1. IsRecorded(k) /\ FieldNames(Members(k))' = FieldNames(Members(k))
    BY SameModule
  <2> QED BY <1>10, <2>1
<1> QED BY <1>6, <1>7, <1>9, <1>11 DEF TableInv, FieldInv

(* A call of traverseMetadata keeps the tables right.                      *)
LEMMA VisitTables ==
  ASSUME Types, (Types /\ Least)', TableInv, UNCHANGED <<md, pass>>, pass # 3,
         NEW n \in Nodes \cup {Null}, NEW calls, Visit(n, calls)
  PROVE  TableInv'
<1>1. CASE n = Null \/ n \in visited
  <2>1. UNCHANGED <<visited, typedefMap, fieldMap>>
    BY <1>1 DEF Visit
  <2> QED BY <2>1, TablesStay
<1>2. CASE n # Null /\ n \notin visited
  <2>1. /\ n \in Nodes /\ visited' = visited \cup {n}
        /\ \/ pass = 1 /\ typedefMap' = Typedefs(n) /\ UNCHANGED fieldMap
           \/ pass # 1 /\ fieldMap' \in FieldsOf(n) /\ UNCHANGED typedefMap
    BY <1>2 DEF Visit
  <2>2. visited' \subseteq Reach'
    BY DEF Types, Least, Reach
  <2>3. n \in Reach
    BY <2>1, <2>2, SameModule
  <2>4. pass \in {1, 2}
    BY DEF TableInv, Tables
  <2> QED BY <1>2, <2>1, <2>3, <2>4, TypedefVisit, FieldVisit
<1> QED BY <1>1, <1>2

(* Init establishes the table invariant.                                   *)
LEMMA TableInit == Init => TableInv
<1> SUFFICES ASSUME Init PROVE TableInv
  OBVIOUS
<1>1. <<>> \in Seq(Names)
  OBVIOUS
<1>2. /\ pass = 1 /\ visited = {} /\ typedefMap = [n \in Nodes |-> Null]
      /\ fieldMap = [c \in ClassNames |-> <<>>]
  BY DEF Init
<1>3. Tables /\ Crawled
  BY <1>1, <1>2 DEF Tables, Crawled
<1>4. TypedefInv
  BY <1>2 DEF TypedefInv
<1>5. Met = {}
  BY <1>2 DEF Met
<1>6. FieldInv /\ FirstInv
  BY <1>2, <1>5 DEF FieldInv, FirstInv, ClassNames
<1> QED BY <1>3, <1>4, <1>6 DEF TableInv

(* The next crawl knows every typedef, and nothing is recorded before it.  *)
LEMMA NextPassTables ==
  ASSUME Inv, TableInv, NextPass
  PROVE  TableInv'
<1>1. /\ PassEnd /\ pass' = pass + 1 /\ UNCHANGED <<md, stack, typedefMap, fieldMap>>
      /\ visited' = IF pass = 1 THEN {} ELSE visited
      /\ pass \in {1, 2} /\ stack = <<>>
  BY DEF NextPass, PassEnd, Cleared, TableInv, Tables
<1>2. Tables /\ TypedefInv /\ FieldInv /\ FirstInv
  BY DEF TableInv
<1>3. visited = Reach
  BY <1>1, VisitedReach
<1>4. Tables'
  BY <1>1, <1>2 DEF Tables
<1>5. Crawled'
  BY <1>1, <1>3, SameModule DEF Crawled
<1>6. TypedefInv'
  <2>1. \A k \in Nodes : typedefMap'[k] # Null =>
          \E t \in TypedefsOf(k)' : typedefMap'[k] = TypedefName(t)'
    BY <1>1, <1>2, SameModule DEF TypedefInv
  <2>2. \A t \in Reach : IsTypedef(t) /\ Base(t) # Null => typedefMap[Base(t)] # Null
    BY <1>2, <1>3 DEF TypedefInv
  <2>3. \A t \in Reach' : IsTypedef(t)' /\ Base(t)' # Null => typedefMap'[Base(t)'] # Null
    BY <1>1, <2>2, SameModule
  <2>4. pass' # 1
    BY <1>1
  <2> QED BY <2>1, <2>3, <2>4 DEF TypedefInv
<1>7. Met' = Met
  BY <1>1 DEF Met
<1>8. FieldInv'
  <2>1. \A k \in Nodes : \A c \in Names : OwnName(k, c)' =>
          fieldMap'[c] = IF k \in Met' THEN FieldNames(Members(k))' ELSE <<>>
    BY <1>1, <1>2, <1>7, SameModule DEF FieldInv
  <2> QED BY <2>1 DEF FieldInv
<1>9. FirstInv'
  <2> SUFFICES ASSUME NEW k \in Met', IsRecorded(k)', md'.name[k] = "", typedefMap'[k] # Null,
                      FieldNames(Members(k))' # <<>>
               PROVE  \E i \in DOMAIN fieldMap'[typedefMap'[k]] :
                        fieldMap'[typedefMap'[k]][i] = FieldNames(Members(k))'[1]
    BY DEF FirstInv
  <2>1. IsRecorded(k) /\ FieldNames(Members(k))' = FieldNames(Members(k))
    BY <1>1, SameModule
  <2> QED BY <1>1, <1>2, <1>7, <2>1 DEF FirstInv
<1> QED BY <1>4, <1>5, <1>6, <1>8, <1>9 DEF TableInv

(* A step keeps the table invariant.                                       *)
LEMMA TableStep == Inv /\ Inv' /\ TableInv /\ [Next]_vars => TableInv'
<1> SUFFICES ASSUME Inv, Inv', TableInv, [Next]_vars PROVE TableInv'
  OBVIOUS
<1>1. Types /\ (Types /\ Least)' /\ Crawled
  BY DEF Inv, TableInv
<1>2. CASE CallRoot
  <2>1. md.roots[root] \in Nodes
    BY <1>1, <1>2 DEF CallRoot, Types, IsMetadata
  <2>2. pass # 3 /\ UNCHANGED <<md, pass>> /\ Visit(md.roots[root], <<>>)
    BY <1>2 DEF CallRoot
  <2> QED BY <1>1, <2>1, <2>2, VisitTables
<1>3. CASE CallOperand
  <2> DEFINE n == md.ops[Top.node][Top.next]
  <2>1. /\ stack # <<>> /\ ~Exhausted(Top) /\ UNCHANGED <<md, pass>>
        /\ Visit(n, Append(Below, Advanced(Top)))
    BY <1>3 DEF CallOperand
  <2>2. pass # 3
    BY <1>1, <2>1 DEF Crawled
  <2>3. Top \in Frame
    BY <1>1, <2>1 DEF Top, Types
  <2>4. Top.next \in DOMAIN md.ops[Top.node] /\ Top.node \in Nodes
    BY <1>1, <2>1, <2>3 DEF Exhausted, Types, IsMetadata, Frame
  <2>5. n \in Nodes \cup {Null}
    BY <1>1, <2>4 DEF Types, IsMetadata
  <2> HIDE DEF n
  <2> QED BY <1>1, <2>1, <2>2, <2>5, VisitTables
<1>4. CASE Return
  <2>1. UNCHANGED <<md, pass, visited, typedefMap, fieldMap>> /\ (pass = 3 => stack' = stack)
    BY <1>1, <1>4 DEF Return, Crawled
  <2> QED BY <2>1, TablesStay
<1>5. CASE NextPass
  BY <1>5, NextPassTables
<1>6. CASE Terminated \/ UNCHANGED vars
  <2>1. UNCHANGED vars
    BY <1>6 DEF Terminated
  <2> QED BY <2>1, TablesStay DEF vars
<1> QED BY <1>2, <1>3, <1>4, <1>5, <1>6 DEF Next

(* After the crawls a class is one that can be reached, under its names.   *)
LEMMA ClassesCrawled ==
  ASSUME TableInv, pass = 3
  PROVE  /\ Classes = {n \in Reach : IsRecorded(n)} /\ Met = Reach
         /\ \A n : Typedeffers(n) = TypedefsOf(n) /\ NamesFor(n) = NamesIn(n)
<1>1. visited = Reach
  BY DEF TableInv, Crawled
<1>2. \A n : Typedeffers(n) = TypedefsOf(n)
  BY <1>1 DEF Typedeffers, TypedefsOf
<1>3. \A n : NamesFor(n) = NamesIn(n)
  BY <1>2 DEF NamesFor, NamesIn
<1>4. Classes = {n \in Reach : IsRecorded(n)}
  BY <1>1 DEF Classes, IsRecorded
<1>5. Met = Reach
  BY <1>1 DEF Met
<1> QED BY <1>2, <1>3, <1>4, <1>5

(* An entry only one class can have gives its fields by their index.       *)
LEMMA TableFields == Inv /\ TableInv => FieldsByIndex
<1> SUFFICES ASSUME Inv, TableInv, pass = 3, NEW n \in Classes, NEW c \in Names,
                    NamesFor(n) = {c},
                    \A m \in Classes \ {n} : NamesFor(m) # {} /\ c \notin NamesFor(m),
                    NEW i \in 0 .. Len(FieldNames(Members(n)))
             PROVE  LET fields == FieldNames(Members(n))
                    IN GetFieldName(c, i) = IF fields = <<>> THEN "NA"
                                            ELSE IF i = Len(fields) THEN "unknown"
                                            ELSE fields[i + 1]
  BY DEF FieldsByIndex
<1> DEFINE fields == FieldNames(Members(n))
<1>1. n \in Reach /\ IsRecorded(n) /\ Met = Reach
  BY ClassesCrawled
<1>2. OwnName(n, c)
  BY <1>1, ClassesCrawled DEF OwnName
<1>3. n \in Nodes /\ Types
  BY <1>1 DEF Reach, Inv
<1>4. fieldMap[c] = fields
  BY <1>1, <1>2, <1>3 DEF TableInv, FieldInv
<1>5. Members(n) \in Nodes
  BY <1>1, <1>3, NodeTypes DEF IsRecorded
<1>6. fields \in Seq(Names)
  BY <1>3, <1>5, FieldNamesTypes
<1>7. i \in 0 .. Len(fields)
  OBVIOUS
<1> HIDE DEF fields
<1>8. Len(fields) \in Nat /\ (i >= Len(fields) <=> i = Len(fields))
  BY <1>6, <1>7
<1>9. GetFieldName(c, i) = IF fields = <<>> THEN "NA"
                           ELSE IF i = Len(fields) THEN "unknown" ELSE fields[i + 1]
  BY <1>4, <1>8 DEF GetFieldName
<1> QED BY <1>9 DEF fields

(* After the crawls a type that has a typedef is named by one.             *)
LEMMA NamedByTypedef ==
  ASSUME TypedefInv, pass = 3, NEW n \in Nodes, TypedefsOf(n) # {}
  PROVE  typedefMap[n] # Null /\ \E t \in TypedefsOf(n) : typedefMap[n] = TypedefName(t)
<1>1. PICK u \in TypedefsOf(n) : TRUE
  OBVIOUS
<1>2. u \in Reach /\ IsTypedef(u) /\ Base(u) = n /\ n # Null
  BY <1>1, CrawlerAssumption DEF TypedefsOf
<1>3. typedefMap[n] # Null
  BY <1>2 DEF TypedefInv
<1> QED BY <1>3 DEF TypedefInv

(* Positions of a list, counted from 1 and from 0.                         *)
LEMMA FromZero ==
  ASSUME NEW s \in Seq(Names), NEW j \in DOMAIN s
  PROVE  /\ j - 1 \in 0 .. Len(s) - 1 /\ ~(j - 1 >= Len(s)) /\ (j - 1) + 1 = j
         /\ s # <<>>
OBVIOUS

(* A class a typedef names has its first field under a typedef's name.     *)
LEMMA TableFirst == Inv /\ TableInv => TypedefNamesClass
<1> SUFFICES ASSUME Inv, TableInv, pass = 3, NEW n \in Classes,
                    md.name[n] = "", Typedeffers(n) # {}, FieldNames(Members(n)) # <<>>
             PROVE  \E t \in Typedeffers(n) :
                      \E i \in 0 .. Len(fieldMap[TypedefName(t)]) - 1 :
                        GetFieldName(TypedefName(t), i) = FieldNames(Members(n))[1]
  BY DEF TypedefNamesClass
<1>1. n \in Reach /\ IsRecorded(n) /\ Met = Reach /\ Typedeffers(n) = TypedefsOf(n)
  BY ClassesCrawled
<1>2. n \in Nodes /\ Types /\ Tables /\ TypedefInv /\ FirstInv
  BY <1>1 DEF Reach, Inv, TableInv
<1>3. typedefMap[n] # Null /\ \E t \in TypedefsOf(n) : typedefMap[n] = TypedefName(t)
  BY <1>1, <1>2, NamedByTypedef
<1>4. PICK t \in TypedefsOf(n) : typedefMap[n] = TypedefName(t)
  BY <1>3
<1> DEFINE c == TypedefName(t)
           entry == fieldMap[c]
<1>5. PICK j \in DOMAIN entry : entry[j] = FieldNames(Members(n))[1]
  BY <1>1, <1>2, <1>3, <1>4 DEF FirstInv
<1>6. entry \in Seq(Names)
  <2>1. t \in Nodes
    BY DEF TypedefsOf, Reach
  <2>2. c \in ClassNames
    BY <1>2, <2>1, NodeTypes DEF ClassNames
  <2> HIDE DEF c
  <2> QED BY <1>2, <2>2 DEF Tables
<1> HIDE DEF entry
<1>7. j - 1 \in 0 .. Len(entry) - 1 /\ entry # <<>> /\ ~(j - 1 >= Len(entry)) /\ (j - 1) + 1 = j
  BY <1>5, <1>6, FromZero
<1>8. GetFieldName(c, j - 1) = FieldNames(Members(n))[1]
  <2>1. GetFieldName(c, j - 1) = entry[(j - 1) + 1]
    BY <1>7 DEF GetFieldName, entry
  <2> QED BY <1>5, <1>7, <2>1
<1> QED BY <1>1, <1>7, <1>8 DEF entry

(* For any debug information: when the crawl is over the fields of a class *)
(* whose name no other class may have are found by their index, each once. *)
THEOREM FieldsAreByIndex == Spec => []FieldsByIndex
<1> QED BY InvInit, InvStep, TableInit, TableStep, TableFields, PTL DEF Spec

(* A class without a name is under a typedef's name if any refers to it,   *)
(* wherever in the graph the typedef is.                                   *)
THEOREM TypedefsNameClasses == Spec => []TypedefNamesClass
<1> QED BY InvInit, InvStep, TableInit, TableStep, TableFirst, PTL DEF Spec
=============================================================================
