----------------------------- MODULE QueryProofs -----------------------------
(***************************************************************************)
(* The answer a client gets: what the executor proofs say of a query's run *)
(* holds for the whole query, the cap leaves a graph that is closed, and   *)
(* what the parser hands down from a scope to its statements, the          *)
(* relationship and the filters, is what the answer obeys.                 *)
(***************************************************************************)
EXTENDS Query, AnswerProofs

\* A query runs the executor: answering leaves its state alone.
THEOREM QueryRunsExecutor == QuerySpec => Spec
<1>1. QueryInit => Init
  BY DEF QueryInit
<1>2. [QueryNext]_<<vars, response>> => [Next]_vars
  BY DEF QueryNext, Respond
<1> QED BY <1>1, <1>2, PTL DEF QuerySpec, Spec

-----------------------------------------------------------------------------
(* Symbols in the order of their first instance.                           *)

\* The result holds rows of the index.
Rows(nodes) == IsFiniteSet(nodes) /\ nodes \subseteq DOMAIN db.inst

\* The first instance of a symbol is one of the result's, and none is earlier.
LEMMA FirstOfIs ==
  ASSUME Typing, Rows(result.nodes), NEW sym \in Symbols(result.nodes)
  PROVE  /\ FirstOf(sym) \in result.nodes /\ SymOf(FirstOf(sym)) = sym
         /\ \A j \in result.nodes : SymOf(j) = sym => NoLater(FirstOf(sym), j)
<1> DEFINE own == {j \in result.nodes : SymOf(j) = sym}
           R == {p \in own \X own : NoLater(p[1], p[2])}
<1>1. own # {} /\ IsFiniteSet(own)
  BY FS_Subset DEF Symbols, Rows
<1>2. \A j \in own : db.inst[j].obj \in Int /\ db.inst[j].lo \in Int
  BY DEF Rows, Typing, TypedPlan, Table
<1>3. \A a, b \in own : <<a, b>> \in R <=> NoLater(a, b)
  OBVIOUS
<1> HIDE DEF R, own
<1>4. \A a, b \in own : <<a, b>> \in R \/ <<b, a>> \in R
  <2>1. \A a, b \in own : NoLater(a, b) \/ NoLater(b, a)
    BY <1>2 DEF NoLater
  <2> QED BY <1>3, <2>1
<1>5. \A a, b, c \in own : <<a, b>> \in R /\ <<b, c>> \in R => <<a, c>> \in R
  <2>1. ASSUME NEW a \in own, NEW b \in own, NEW c \in own, NoLater(a, b), NoLater(b, c)
        PROVE  NoLater(a, c)
    BY <1>2, <2>1 DEF NoLater
  <2> QED BY <1>3, <2>1
<1>6. \E i \in own : \A j \in own : NoLater(i, j)
  BY <1>1, <1>3, <1>4, <1>5, LeastOfPreorder
<1>7. FirstOf(sym) \in own /\ \A j \in own : NoLater(FirstOf(sym), j)
  BY <1>6 DEF FirstOf, NoLater, own
<1> QED BY <1>7 DEF own

\* select_kept ranks the symbols in a strict total order.
LEMMA RankOrder ==
  ASSUME Typing, Rows(result.nodes)
  PROVE  LET all == Symbols(result.nodes)
         IN /\ \A a, b \in all : a = b \/ Before(a, b) \/ Before(b, a)
            /\ \A a \in all : ~Before(a, a)
            /\ \A a, b, c \in all : Before(a, b) /\ Before(b, c) => Before(a, c)
            /\ \A a, b \in all : Before(a, b) => NoLater(FirstOf(a), FirstOf(b))
<1> DEFINE all == Symbols(result.nodes)
<1>1. \A a \in all : /\ a \in Int
                     /\ db.inst[FirstOf(a)].obj \in Int /\ db.inst[FirstOf(a)].lo \in Int
  <2> TAKE a \in all
  <2>1. FirstOf(a) \in DOMAIN db.inst /\ db.inst[FirstOf(a)].sym = a
    BY FirstOfIs DEF Rows, SymOf
  <2> QED BY <2>1 DEF Typing, TypedPlan, Table
<1> HIDE DEF all
<1>2. \A a, b \in all : a = b \/ Before(a, b) \/ Before(b, a)
  BY <1>1 DEF Before
<1>3. \A a \in all : ~Before(a, a)
  BY <1>1 DEF Before
<1>4. \A a, b, c \in all : Before(a, b) /\ Before(b, c) => Before(a, c)
  BY <1>1 DEF Before
<1>5. \A a, b \in all : Before(a, b) => NoLater(FirstOf(a), FirstOf(b))
  BY <1>1 DEF Before, NoLater
<1> QED BY <1>2, <1>3, <1>4, <1>5 DEF all

\* A finite result has finitely many symbols.
LEMMA SymbolsFinite ==
  ASSUME NEW nodes, IsFiniteSet(nodes)
  PROVE  IsFiniteSet(Symbols(nodes)) /\ Cardinality(Symbols(nodes)) \in Nat
<1> DEFINE f == [i \in nodes |-> SymOf(i)]
<1>1. f \in Surjection(nodes, Symbols(nodes))
  BY DEF Surjection, Symbols
<1> HIDE DEF f
<1> QED BY <1>1, FS_Surjection, FS_CardinalityType

\* The cap keeps a beginning of that order, and everything only when there
\* are no more symbols than it allows.
LEMMA KeptIsFirst ==
  ASSUME Typing, Rows(result.nodes), NEW cap \in Nat
  PROVE  LET all == Symbols(result.nodes)
         IN /\ Kept(cap) \subseteq all
            /\ \A a \in Kept(cap), b \in all \ Kept(cap) : Before(a, b)
            /\ Kept(cap) # all <=> cap # 0 /\ Cardinality(all) > cap
<1> DEFINE all == Symbols(result.nodes)
           before(a) == {b \in all : Before(b, a)}
<1>1. IsFiniteSet(all) /\ Cardinality(all) \in Nat
  BY SymbolsFinite DEF Rows
<1>2. /\ \A a, b \in all : a = b \/ Before(a, b) \/ Before(b, a)
      /\ \A a \in all : ~Before(a, a)
      /\ \A a, b, c \in all : Before(a, b) /\ Before(b, c) => Before(a, c)
  BY RankOrder
<1>3. Kept(cap) = IF cap = 0 \/ Cardinality(all) <= cap THEN all
                  ELSE {a \in all : Cardinality(before(a)) < cap}
  BY DEF Kept
<1>4. \A a \in all : IsFiniteSet(before(a)) /\ Cardinality(before(a)) \in Nat
  BY <1>1, FS_Subset, FS_CardinalityType
<1>5. ASSUME NEW a \in Kept(cap), NEW b \in all \ Kept(cap), ~Before(a, b)
      PROVE  FALSE
  <2>1. /\ a \in all /\ Cardinality(before(a)) < cap
        /\ b \in all /\ ~(Cardinality(before(b)) < cap)
    BY <1>3, <1>5
  <2>2. Before(b, a)
    BY <1>2, <1>5, <2>1
  <2>3. before(b) \subseteq before(a)
    BY <1>2, <2>1, <2>2
  <2>4. Cardinality(before(b)) <= Cardinality(before(a))
    <3>1. IsFiniteSet(before(a))
      BY <1>4, <2>1
    <3> HIDE DEF before
    <3> QED BY <2>3, <3>1, FS_Subset
  <2>5. Cardinality(before(a)) \in Nat /\ Cardinality(before(b)) \in Nat
    BY <1>4, <2>1
  <2> HIDE DEF before
  <2> QED BY <2>1, <2>4, <2>5
<1>6. ASSUME cap # 0, Cardinality(all) > cap
      PROVE  Kept(cap) # all
  <2> DEFINE R == {p \in all \X all : p[1] = p[2] \/ Before(p[2], p[1])}
  <2>1. \A a, b \in all : <<a, b>> \in R <=> a = b \/ Before(b, a)
    OBVIOUS
  <2>2. all # {}
    BY <1>6, FS_EmptySet
  <2> HIDE DEF R, all
  <2>3. /\ \A a, b \in all : <<a, b>> \in R \/ <<b, a>> \in R
        /\ \A a, b, c \in all : <<a, b>> \in R /\ <<b, c>> \in R => <<a, c>> \in R
    BY <1>2, <2>1
  <2>4. PICK last \in all : \A b \in all : last = b \/ Before(b, last)
    BY <1>1, <2>1, <2>2, <2>3, LeastOfPreorder
  <2>5. before(last) = all \ {last}
    BY <1>2, <2>4
  <2>6. Cardinality(before(last)) = Cardinality(all) - 1
    BY <1>1, <2>4, <2>5, FS_RemoveElement
  <2>7. ~(Cardinality(before(last)) < cap)
    BY <1>1, <1>6, <2>6
  <2>8. ~(cap = 0 \/ Cardinality(all) <= cap)
    BY <1>1, <1>6
  <2> QED BY <1>3, <2>4, <2>7, <2>8
<1> HIDE DEF all, before
<1> QED BY <1>1, <1>3, <1>5, <1>6 DEF all
-----------------------------------------------------------------------------
(* What the executor answers, which the cap then cuts.                     *)

\* A containment is between nodes of the answer.
IsContainment(h) == h.child \in AllNodes /\ h.parents \subseteq AllNodes

Answered ==
  pc = "done" =>
    /\ result.nodes = AllNodes
    /\ \A d \in result.refs : IsEdge(d)
    /\ \A h \in result.has : IsContainment(h)

\* A containment of the answer is between nodes of it.
LEMMA ContainersWithin == \A h \in HasEdges : IsContainment(h)
<1> DEFINE rows == {h \in UNION {RowsOf(s, "hc") \cup RowsOf(s, "hp") : s \in Statements} :
                     h.parent \in AllNodes /\ h.child \in AllNodes}
           Above(c) == {h.parent : h \in {r \in rows : r.child = c}}
           Least(c) == {p \in Above(c) : \A o \in Above(c) : Span(p) <= Span(o)}
<1>1. HasEdges = {[child |-> c, parents |-> Least(c)] : c \in {h.child : h \in rows}}
  BY DEF HasEdges
<1>2. \A h \in rows : h.parent \in AllNodes /\ h.child \in AllNodes
  OBVIOUS
<1> HIDE DEF rows
<1>3. \A c : Least(c) \subseteq AllNodes
  BY <1>2
<1> HIDE DEF Least
<1> QED BY <1>1, <1>2, <1>3 DEF IsContainment

\* The last step answers with edges of the nodes, and done is done.
LEMMA AnsweredNext ==
  ASSUME Typing, Answered, [Next]_vars
  PROVE  Answered'
<1> SUFFICES ASSUME pc' = "done" PROVE Answered'
  BY DEF Answered
<1>1. CASE UNCHANGED vars
  <2>1. AllNodes' = AllNodes /\ \A i : SymOf(i)' = SymOf(i)
    BY <1>1, SameVars, SameQuery, SameRegistry DEF AllNodes, SymOf
  <2> QED BY <1>1, <2>1, SameVars DEF Answered, IsEdge, IsContainment, SymOf
<1>2. CASE Finish \/ FinishWithoutImplicit
  <2>1. UNCHANGED <<db, plan, reg>>
    BY <1>2 DEF Finish, FinishWithoutImplicit, Answer
  <2>2. AllNodes' = AllNodes
    BY <2>1, SameQuery, SameRegistry DEF AllNodes
  <2>3. PICK implicit \in SUBSET Drawable :
          result'.nodes = AllNodes /\ result'.refs = RefEdges(implicit) /\ result'.has = HasEdges
    <3>1. FindEdgesBetween(AllNodes, eph) \subseteq Drawable
      BY LayersAreEphemeral, AnswerIsFinite, LeastEdges DEF EdgeRows, Drawable
    <3> QED BY <1>2, <3>1 DEF Finish, FinishWithoutImplicit, Answer
  <2>4. /\ \A d \in result'.refs : IsEdge(d)
        /\ \A h \in result'.has : IsContainment(h)
    BY <2>3, FirstOffer, ContainersWithin
  <2> QED BY <2>1, <2>2, <2>3, <2>4 DEF Answered, IsEdge, IsContainment, SymOf
<1> QED BY <1>1, <1>2, DoneSteps

-----------------------------------------------------------------------------
(* The answer that is cut.                                                 *)

\* Whatever the cap, the cut leaves a graph without loose ends.
LEMMA CutIsClosed ==
  ASSUME Typing, EdgesComplete, Answered, pc = "done", NEW cap \in Nat
  PROVE  IsClosed(Graph(cap))
<1> DEFINE all == Symbols(result.nodes)
           kept == Kept(cap)
           shown == {i \in result.nodes : SymOf(i) \in kept}
           missing == AllNodes \ shown
<1>1. /\ Graph(cap).nodes = shown /\ Graph(cap).refs = KeptRefs(kept) /\ Graph(cap).has = KeptHas(kept)
      /\ Graph(cap).truncated <=> cap # 0 /\ Cardinality(all) > cap
  BY DEF Graph
<1>2. result.nodes = AllNodes /\ Rows(result.nodes)
  BY AnswerIsFinite DEF Answered, Rows
<1>3. /\ kept \subseteq all
      /\ \A a \in kept, b \in all \ kept : Before(a, b)
      /\ kept # all <=> cap # 0 /\ Cardinality(all) > cap
  BY <1>2, KeptIsFirst
<1>4. \A i \in AllNodes : /\ SymOf(i) \in all
                          /\ SymOf(i) \in kept <=> i \in shown
  BY <1>2 DEF Symbols
<1>5. ASSUME NEW d \in KeptRefs(kept)
      PROVE  d.key.from \in shown /\ d.to \subseteq shown
  <2>1. d \in result.refs /\ SymOf(d.key.from) \in kept /\ d.key.sym \in kept
    BY DEF KeptRefs
  <2>2. IsEdge(d) /\ d.to \subseteq AllNodes
    BY <1>2, <2>1 DEF Answered, EdgesComplete
  <2>3. d.key.from \in AllNodes /\ \A i \in d.to : i \in AllNodes /\ SymOf(i) \in kept
    BY <2>1, <2>2 DEF IsEdge
  <2> HIDE DEF shown, kept, missing
  <2>4. d.key.from \in shown
    BY <1>4, <2>1, <2>3
  <2> QED BY <1>4, <2>3, <2>4
<1>6. ASSUME NEW h \in KeptHas(kept)
      PROVE  h.child \in shown /\ h.parents \subseteq shown
  <2>1. h \in result.has /\ SymOf(h.child) \in kept /\ \A p \in h.parents : SymOf(p) \in kept
    BY DEF KeptHas, Symbols
  <2>2. IsContainment(h)
    BY <2>1 DEF Answered
  <2>3. h.child \in AllNodes /\ \A i \in h.parents : i \in AllNodes /\ SymOf(i) \in kept
    BY <2>1, <2>2 DEF IsContainment
  <2> HIDE DEF shown, kept, missing
  <2>4. h.child \in shown
    BY <1>4, <2>1, <2>3
  <2> QED BY <1>4, <2>3, <2>4
<1>7. ASSUME ~result.lost, NEW e \in EdgeRows(shown, Visible(eph))
      PROVE  \E d \in KeptRefs(kept) : d.key = EdgeKey(e)
  <2>1. e \in EdgeRows(AllNodes, Visible(eph)) /\ e.from \in shown /\ e.to \in shown
    BY <1>2 DEF EdgeRows
  <2>2. PICK d \in result.refs : d.key = EdgeKey(e)
    BY <1>2, <1>7, <2>1 DEF EdgesComplete
  <2>3. SymOf(d.key.from) \in kept /\ d.key.sym \in kept
    BY <2>1, <2>2 DEF EdgeKey
  <2> QED BY <2>2, <2>3 DEF KeptRefs
<1>8. kept # all <=> missing # {}
  <2>1. \A a \in all : \E i \in AllNodes : SymOf(i) = a
    BY <1>2 DEF Symbols
  <2>2. \A i : i \in missing <=> i \in AllNodes /\ i \notin shown
    OBVIOUS
  <2> HIDE DEF shown, kept, all, missing
  <2>3. ASSUME NEW i \in missing
        PROVE  SymOf(i) \in all \ kept
    BY <1>4, <2>2
  <2>4. ASSUME NEW a \in all \ kept
        PROVE  missing # {}
    BY <1>4, <2>1, <2>2
  <2> QED BY <1>3, <2>3, <2>4
<1>9. ASSUME NEW a \in Symbols(shown), NEW b \in Symbols(missing)
      PROVE  \E i \in shown : SymOf(i) = a /\ \A j \in missing : SymOf(j) = b => NoLater(i, j)
  <2>1. a \in kept /\ b \in all \ kept
    <3>1. \A i \in shown : SymOf(i) \in kept
      OBVIOUS
    <3>2. \A i \in missing : SymOf(i) \in all \ kept
      <4>1. \A i \in missing : i \in AllNodes /\ i \notin shown
        OBVIOUS
      <4> HIDE DEF shown, kept, all, missing
      <4> QED BY <1>4, <4>1
    <3> HIDE DEF shown, kept, all
    <3> QED BY <3>1, <3>2 DEF Symbols
  <2> HIDE DEF kept, all
  <2>2. NoLater(FirstOf(a), FirstOf(b))
    BY <1>2, <1>3, <2>1, RankOrder DEF all
  <2>3. /\ FirstOf(a) \in result.nodes /\ SymOf(FirstOf(a)) = a
        /\ FirstOf(b) \in result.nodes
        /\ \A j \in result.nodes : SymOf(j) = b => NoLater(FirstOf(b), j)
    BY <1>2, <1>3, <2>1, FirstOfIs DEF all
  <2>4. ASSUME NEW j \in missing, SymOf(j) = b
        PROVE  NoLater(FirstOf(a), j)
    <3>1. NoLater(FirstOf(b), j)
      BY <1>2, <2>3, <2>4
    <3>2. j \in DOMAIN db.inst /\ FirstOf(a) \in DOMAIN db.inst /\ FirstOf(b) \in DOMAIN db.inst
      BY <1>2, <2>3 DEF Rows
    <3>3. \A i \in DOMAIN db.inst : db.inst[i].obj \in Int /\ db.inst[i].lo \in Int
      BY DEF Typing, TypedPlan, Table
    <3> QED BY <2>2, <3>1, <3>2, <3>3 DEF NoLater
  <2> QED BY <1>4, <2>1, <2>3, <2>4
<1> HIDE DEF all, kept, shown, missing
<1>10. Graph(cap).truncated <=> missing # {}
  BY <1>1, <1>3, <1>8
<1> DEFINE graph == Graph(cap)
<1>11. /\ graph.nodes = shown /\ missing = AllNodes \ graph.nodes
       /\ graph.refs = KeptRefs(kept) /\ graph.has = KeptHas(kept)
  BY <1>1 DEF missing
<1> HIDE DEF graph
<1>12. /\ \A e \in graph.refs : e.key.from \in graph.nodes /\ e.to \subseteq graph.nodes
       /\ \A h \in graph.has : h.child \in graph.nodes /\ h.parents \subseteq graph.nodes
  BY <1>5, <1>6, <1>11
<1>13. ~result.lost => \A e \in EdgeRows(graph.nodes, Visible(eph)) :
                         \E d \in graph.refs : d.key = EdgeKey(e)
  BY <1>7, <1>11
<1>14. graph.truncated <=> AllNodes \ graph.nodes # {}
  BY <1>10, <1>11 DEF graph
<1>15. \A a \in Symbols(graph.nodes), b \in Symbols(AllNodes \ graph.nodes) :
         \E i \in graph.nodes :
           SymOf(i) = a /\ \A j \in AllNodes \ graph.nodes : SymOf(j) = b => NoLater(i, j)
  BY <1>9, <1>11
<1>16. IsClosed(graph)
  BY <1>12, <1>13, <1>14, <1>15 DEF IsClosed
<1> QED BY <1>16 DEF graph

\* Nothing happens in the executor once it is done.
LEMMA DoneStays ==
  ASSUME pc = "done", [Next]_vars
  PROVE  UNCHANGED vars
<1>1. ~(Push \/ Materialise \/ Drain \/ Seed \/ PopNext)
  BY DEF Push, Materialise, Drain, Seed, PopNext
<1>2. ~(NotifyParent \/ NotifyOther)
  BY DEF NotifyParent, NotifyOther
<1>3. ~(PushPanics \/ UseUnresolved \/ Abort \/ Finish \/ FinishWithoutImplicit)
  BY DEF PushPanics, UseUnresolved, Abort, Finish, FinishWithoutImplicit, Answer, Dry
<1> QED BY <1>1, <1>2, <1>3 DEF Next, Step, Ended

\* A closed graph stays one.
LEMMA ClosedStays ==
  ASSUME UNCHANGED vars, IsClosed(response')
  PROVE  IsClosed(response)'
<1>1. AllNodes' = AllNodes
  BY SameVars, SameQuery, SameRegistry DEF AllNodes
<1>2. db' = db /\ eph' = eph /\ result' = result
  BY SameVars
<1>3. EdgeRows(response.nodes, Visible(eph))' = EdgeRows(response'.nodes, Visible(eph))
  BY <1>2 DEF EdgeRows, SymOf, Visible, Covers
<1>4. /\ \A e : EdgeKey(e)' = EdgeKey(e)
      /\ \A i, j : NoLater(i, j)' = NoLater(i, j) /\ SymOf(i)' = SymOf(i)
  BY <1>2 DEF EdgeKey, Occurrence, Symbols, NoLater, SymOf
<1> QED BY <1>1, <1>2, <1>3, <1>4 DEF IsClosed, Symbols

\* A graph is answered once, when the executor is done, and stays as it is.
AnsweredOnce == response.status = "ok" => pc = "done" /\ IsClosed(response)

\* A graph is answered once the executor is done, is closed, and stays.
LEMMA AnsweredOnceNext ==
  ASSUME Typing, EdgesComplete, Answered, AnsweredOnce, [QueryNext]_<<vars, response>>
  PROVE  AnsweredOnce'
<1> SUFFICES ASSUME response'.status = "ok"
             PROVE  pc' = "done" /\ IsClosed(response)'
  BY DEF AnsweredOnce
<1>1. CASE response' = response
  <2>1. UNCHANGED vars /\ pc = "done" /\ IsClosed(response)
    BY <1>1, DoneStays DEF AnsweredOnce, QueryNext, Respond
  <2> QED BY <1>1, <2>1, ClosedStays DEF vars
<1>2. CASE Respond
  <2>1. PICK cap \in Nat : pc = "done" /\ response' = Graph(cap) /\ UNCHANGED vars
    BY <1>2, LimitsAssumption DEF Respond, NoResponse
  <2>2. IsClosed(response')
    BY <2>1, CutIsClosed
  <2> QED BY <2>1, <2>2, ClosedStays DEF vars
<1> QED BY <1>1, <1>2 DEF QueryNext

\* build_result_graph cuts the answer without leaving an edge that leads out
\* of it, dropping a reference between two nodes it shows or hiding that it
\* cut; what it drops comes last in the source.
THEOREM GraphCloses == QuerySpec => []GraphIsClosed
<1>1. QueryInit => Answered /\ AnsweredOnce
  BY DEF QueryInit, Init, Answered, AnsweredOnce, NoResponse
<1>2. Typing /\ EdgesComplete /\ Answered /\ AnsweredOnce /\ [QueryNext]_<<vars, response>>
        => Answered' /\ AnsweredOnce'
  <2>1. [QueryNext]_<<vars, response>> => [Next]_vars
    BY DEF QueryNext, Respond
  <2> QED BY <2>1, AnsweredNext, AnsweredOnceNext
<1>3. AnsweredOnce => GraphIsClosed
  BY DEF AnsweredOnce, GraphIsClosed
<1> QED
  BY <1>1, <1>2, <1>3, QueryRunsExecutor, ExecutorTyped, EveryReferenceDrawn, PTL DEF QuerySpec

-----------------------------------------------------------------------------
(* Folds over the verbs of a statement, and the tables of the forest.      *)

\* The greatest of 1..m, which a fold takes away first.
LEMMA GreatestOf ==
  ASSUME NEW m \in Nat, m # 0
  PROVE  /\ Max(1 .. m) = m /\ (1 .. m) \ {m} = 1 .. m - 1
         /\ \A T \in SUBSET (1 .. m) : m \in T => Max(T) = m
<1>1. \A T \in SUBSET (1 .. m) : m \in T => \A x \in T : (\A y \in T : x >= y) <=> x = m
  OBVIOUS
<1>2. \A T \in SUBSET (1 .. m) : m \in T => Max(T) = m
  BY <1>1 DEF Max
<1> QED BY <1>2

HasLength(seq, n) == n \in Nat /\ DOMAIN seq = 1 .. n

\* What FoldLeft computes: a value for every set of places in the sequence,
\* each from the one without its last place.
IsBuildTable(H, places, seq, base) ==
  H = [T \in SUBSET places |->
         IF T = {} THEN base ELSE BuildVerb(H[T \ {Max(T)}], seq[Max(T)])]

\* The contexts that a fold over the verbs passes through, as one function.
LEMMA BuildTable ==
  ASSUME NEW seq, NEW n \in Nat, NEW base
  PROVE  \E H : IsBuildTable(H, 1 .. n, seq, base)
<1> DEFINE Bad == {m \in Nat : ~ \E H : IsBuildTable(H, 1 .. m, seq, base)}
<1> SUFFICES ASSUME Bad # {} PROVE FALSE
  OBVIOUS
<1>1. PICK m \in Bad : \A k \in Bad : m <= k
  BY LeastNat
<1>2. ASSUME m = 0 PROVE FALSE
  <2> DEFINE none == [T \in SUBSET (1 .. 0) |-> base]
  <2>1. IsBuildTable(none, 1 .. 0, seq, base)
    <3>1. SUBSET (1 .. 0) = {{}}
      OBVIOUS
    <3> QED BY <3>1 DEF IsBuildTable
  <2> QED BY <1>1, <1>2, <2>1
<1>3. m \in Nat /\ m - 1 \in Nat
  BY <1>2
<1>4. PICK G : IsBuildTable(G, 1 .. m - 1, seq, base)
  <2>1. m - 1 \notin Bad
    <3> HIDE DEF Bad
    <3> QED BY <1>1, <1>3
  <2> QED BY <1>3, <2>1
<1> DEFINE H == [T \in SUBSET (1 .. m) |->
                   IF m \in T THEN BuildVerb(G[T \ {m}], seq[m]) ELSE G[T]]
<1>5. ASSUME NEW T \in SUBSET (1 .. m)
      PROVE  H[T] = IF T = {} THEN base ELSE BuildVerb(H[T \ {Max(T)}], seq[Max(T)])
  <2>1. CASE m \in T
    <3>1. Max(T) = m /\ T \ {m} \in SUBSET (1 .. m) /\ m \notin T \ {m}
      BY <1>2, <1>3, <2>1, GreatestOf
    <3>2. T \ {m} \in SUBSET (1 .. m - 1)
      BY <1>3
    <3> QED BY <2>1, <3>1
  <2>2. CASE m \notin T
    <3>1. T \in SUBSET (1 .. m - 1)
      BY <1>3, <1>5, <2>2
    <3>2. G[T] = IF T = {} THEN base ELSE BuildVerb(G[T \ {Max(T)}], seq[Max(T)])
      BY <1>4, <3>1 DEF IsBuildTable
    <3>3. T \ {Max(T)} \in SUBSET (1 .. m) /\ m \notin T \ {Max(T)}
      BY <3>1, <2>2
    <3> QED BY <2>2, <3>2, <3>3
  <2> QED BY <2>1, <2>2
<1>6. IsBuildTable(H, 1 .. m, seq, base)
  BY <1>5 DEF IsBuildTable
<1> QED BY <1>1, <1>6

\* build_verb for every verb in turn: the contexts after each of them.
LEMMA BuildSteps ==
  ASSUME NEW seq, NEW n, HasLength(seq, n), NEW base
  PROVE  \E ctx : /\ ctx[0] = base /\ ctx[n] = BuildVerbs(base, seq)
                  /\ \A k \in 1 .. n : ctx[k] = BuildVerb(ctx[k - 1], seq[k])
<1>0. n \in Nat
  BY DEF HasLength
<1> DEFINE H == CHOOSE F : IsBuildTable(F, 1 .. n, seq, base)
<1>1. BuildVerbs(base, seq) = H[1 .. n]
  BY DEF BuildVerbs, FoldLeft, MapThenFoldSet, IsBuildTable, HasLength
<1>2. IsBuildTable(H, 1 .. n, seq, base)
  BY <1>0, BuildTable
<1> HIDE DEF H
<1> DEFINE ctx == [k \in 0 .. n |-> H[1 .. k]]
<1>3. ctx[0] = base
  <2>1. 1 .. 0 = {} /\ 0 \in 0 .. n
    BY <1>0
  <2> QED BY <1>2, <2>1 DEF IsBuildTable
<1>4. ASSUME NEW k \in 1 .. n
      PROVE  ctx[k] = BuildVerb(ctx[k - 1], seq[k])
  <2>1. 1 .. k \subseteq 1 .. n /\ k \in 1 .. k /\ k - 1 \in 0 .. n /\ k \in 0 .. n
    BY <1>0
  <2>2. Max(1 .. k) = k /\ (1 .. k) \ {k} = 1 .. k - 1
    BY GreatestOf
  <2>3. H[1 .. k] = BuildVerb(H[1 .. k - 1], seq[k])
    BY <1>2, <2>1, <2>2 DEF IsBuildTable
  <2> QED BY <2>1, <2>3
<1>5. ctx[n] = BuildVerbs(base, seq)
  BY <1>0, <1>1
<1> HIDE DEF ctx
<1> QED BY <1>3, <1>4, <1>5

\* A context has its five fields.
IsContext(c) == c = [verbs |-> c.verbs, rel |-> c.rel, modified |-> c.modified,
                     hands |-> c.hands, types |-> c.types]

\* What one verb does to the relationship.
LEMMA BuildRelates ==
  ASSUME NEW c, IsContext(c), NEW w
  PROVE  LET d == BuildVerb(c, w)
         IN /\ IsContext(d)
            /\ d.rel = IF w.v = "derive" THEN w.rel ELSE c.rel
            /\ d.modified <=> w.v = "derive" \/ c.modified
            /\ d.hands = IF w.v = "derive" THEN w.inherit ELSE c.hands
<1> DEFINE u == UpdateContext(c, w)
<1>1. /\ IsContext(u)
      /\ w.v # "derive" => u.rel = c.rel /\ u.modified = c.modified /\ u.hands = c.hands
      /\ w.v = "derive" => u.rel = w.rel /\ u.modified /\ u.hands = w.inherit
  BY DEF IsContext, UpdateContext
<1> HIDE DEF u
<1>2. BuildVerb(c, w) = IF w.v = "derive" THEN u ELSE [u EXCEPT !.verbs = AddVerb(@, w)]
  BY DEF BuildVerb, u
<1> QED BY <1>1, <1>2 DEF IsContext

\* The nearest of some statements is one of them and no other is nearer.
LEMMA NearestIs ==
  ASSUME NEW S, NEW n \in Nat, S \subseteq 0 .. n, S # {}
  PROVE  Nearest(S) \in S /\ \A j \in S : j <= Nearest(S)
<1> DEFINE back == {k \in Nat : \E i \in S : k = n - i}
<1>1. \A i \in S : n - i \in Nat
  OBVIOUS
<1>2. back \subseteq Nat /\ back # {}
  BY <1>1
<1> HIDE DEF back
<1>3. PICK b \in back : \A a \in back : b <= a
  BY <1>2, LeastNat
<1>4. PICK i \in S : b = n - i
  BY DEF back
<1>5. \A j \in S : n - i <= n - j
  BY <1>1, <1>3, <1>4 DEF back
<1>6. \A j \in S : j <= i
  BY <1>5
<1> QED BY <1>6 DEF Nearest

\* The greatest of some numbers is one of them.
LEMMA GreatestIs ==
  ASSUME NEW S, NEW n \in Nat, S \subseteq 0 .. n, S # {}
  PROVE  Max(S) \in S
<1>1. PICK i \in S : \A j \in S : j <= i
  BY NearestIs
<1>2. \A j \in S : i >= j
  BY <1>1
<1> QED BY <1>2 DEF Max

\* The last has, refs or derive of a statement decides, and without one the
\* relationship stays as it was.
LEMMA FoldRelates ==
  ASSUME NEW seq, NEW n, HasLength(seq, n), NEW base, IsContext(base)
  PROVE  LET end == BuildVerbs(base, seq)
             at == Places(seq, {"derive"})
             last == seq[Nearest(at)]
         IN /\ IsContext(end)
            /\ at = {} => end.rel = base.rel /\ (end.modified <=> base.modified) /\ end.hands = base.hands
            /\ at # {} => end.rel = last.rel /\ end.modified /\ end.hands = last.inherit
<1> DEFINE at == Places(seq, {"derive"})
           last == Nearest(at)
<1>1. PICK ctx : /\ ctx[0] = base /\ ctx[n] = BuildVerbs(base, seq)
                 /\ \A k \in 1 .. n : ctx[k] = BuildVerb(ctx[k - 1], seq[k])
  BY BuildSteps
<1>2. /\ n \in Nat /\ at \subseteq 1 .. n
      /\ \A k \in 1 .. n : k \in at <=> seq[k].v = "derive"
  BY DEF Places, HasLength
<1>3. at # {} => last \in at /\ last \in 1 .. n /\ \A j \in at : j <= last
  <2>1. at \subseteq 0 .. n
    BY <1>2
  <2> HIDE DEF at
  <2> QED BY <1>2, <2>1, NearestIs
<1> HIDE DEF at, last
<1> DEFINE Unsaid(k) == IsContext(ctx[k]) /\ (\A j \in at : k < j) =>
                        /\ ctx[k].rel = base.rel /\ (ctx[k].modified <=> base.modified)
                        /\ ctx[k].hands = base.hands
           Said(k) == last <= k => /\ ctx[k].rel = seq[last].rel /\ ctx[k].modified
                                  /\ ctx[k].hands = seq[last].inherit
           Holds(k) == IsContext(ctx[k]) /\ Unsaid(k) /\ (at # {} => Said(k))
           Bad == {k \in 0 .. n : ~Holds(k)}
<1>4. ASSUME NEW k \in 1 .. n, Holds(k - 1)
      PROVE  Holds(k)
  <2> DEFINE c == ctx[k - 1]
             w == seq[k]
             d == ctx[k]
  <2>1. d = BuildVerb(c, w) /\ IsContext(c)
    BY <1>1, <1>4
  <2>2. w.v = "derive" <=> k \in at
    BY <1>2
  <2>3. k - 1 \in Int /\ k \in Int /\ k - 1 < k
    OBVIOUS
  <2> HIDE DEF c, w, d
  <2>4. CASE w.v # "derive"
    <3>1. /\ IsContext(d) /\ d.rel = c.rel
          /\ (d.modified <=> c.modified) /\ d.hands = c.hands
      BY <2>1, <2>4, BuildRelates
    <3>2. k \notin at /\ (at # {} /\ last <= k => last <= k - 1)
      BY <1>2, <1>3, <2>2, <2>4
    <3>3. (\A j \in at : k < j) => (\A j \in at : k - 1 < j)
      BY <1>2
    <3> QED BY <1>4, <3>1, <3>2, <3>3 DEF c, d
  <2>5. CASE w.v = "derive"
    <3>1. /\ IsContext(d) /\ d.rel = w.rel
          /\ d.modified /\ d.hands = w.inherit
      BY <2>1, <2>5, BuildRelates
    <3>2. k \in at /\ k <= last
      BY <1>2, <1>3, <2>2, <2>5
    <3>3. ~ (\A j \in at : k < j)
      BY <2>3, <3>2
    <3>4. last <= k => last = k
      BY <1>2, <1>3, <3>2
    <3> QED BY <3>1, <3>3, <3>4 DEF w, d
  <2> QED BY <2>4, <2>5
<1>5. Holds(0)
  <2>1. at # {} => ~(last <= 0)
    BY <1>2, <1>3
  <2> QED BY <1>1, <2>1
<1> HIDE DEF Holds
<1>6. Bad = {}
  <2> SUFFICES ASSUME Bad # {} PROVE FALSE
    OBVIOUS
  <2>1. PICK k \in Bad : \A j \in Bad : k <= j
    <3>1. Bad \subseteq Nat
      OBVIOUS
    <3> HIDE DEF Bad
    <3> QED BY <3>1, LeastNat
  <2>2. k \in 1 .. n /\ k - 1 \in 0 .. n
    BY <1>2, <1>5
  <2>3. Holds(k - 1)
    BY <2>1, <2>2
  <2> QED BY <1>4, <2>2, <2>3
<1>7. Holds(n)
  BY <1>2, <1>6
<1> QED BY <1>1, <1>2, <1>3, <1>7 DEF Holds, at, last

-----------------------------------------------------------------------------
(* The forest: enclosing statements and the contexts they leave.           *)

\* The two recursive functions over the forest exist: a statement comes
\* after the one it is in.
IsUp(up, n, parent) ==
  up = [v \in 0 .. n |-> IF v = 0 THEN {} ELSE {parent[v]} \cup up[parent[v]]]

\* The statements above each statement, as one function of the forest.
LEMMA UpTable ==
  ASSUME NEW n \in Nat, NEW parent, \A v \in 1 .. n : parent[v] \in 0 .. v - 1
  PROVE  \E up : IsUp(up, n, parent)
<1> DEFINE Bad == {m \in 0 .. n : ~ \E up : IsUp(up, m, parent)}
<1> SUFFICES ASSUME Bad # {} PROVE FALSE
  <2>1. n \in 0 .. n
    OBVIOUS
  <2> QED BY <2>1
<1>1. PICK m \in Bad : \A k \in Bad : m <= k
  <2>1. Bad \subseteq Nat
    OBVIOUS
  <2> HIDE DEF Bad
  <2> QED BY <2>1, LeastNat
<1>2. ASSUME m = 0 PROVE FALSE
  <2> DEFINE none == [v \in 0 .. 0 |-> {}]
  <2>1. IsUp(none, 0, parent)
    BY DEF IsUp
  <2> QED BY <1>1, <1>2, <2>1
<1>3. m \in 1 .. n /\ m - 1 \in 0 .. n
  BY <1>2
<1>4. PICK up : IsUp(up, m - 1, parent)
  <2>1. m - 1 \notin Bad
    <3> HIDE DEF Bad
    <3> QED BY <1>1, <1>3
  <2> QED BY <1>3, <2>1
<1> DEFINE more == [v \in 0 .. m |-> IF v = m THEN {parent[m]} \cup up[parent[m]] ELSE up[v]]
<1>5. ASSUME NEW v \in 0 .. m
      PROVE  more[v] = IF v = 0 THEN {} ELSE {parent[v]} \cup more[parent[v]]
  <2>1. v # 0 => parent[v] \in 0 .. m /\ parent[v] # m /\ parent[v] \in 0 .. m - 1
    BY <1>3
  <2>2. v # m => v \in 0 .. m - 1
    BY <1>3
  <2>3. v # m => up[v] = IF v = 0 THEN {} ELSE {parent[v]} \cup up[parent[v]]
    BY <1>4, <2>2 DEF IsUp
  <2>4. v = m => v # 0
    BY <1>3
  <2> QED BY <2>1, <2>3, <2>4
<1>6. IsUp(more, m, parent)
  BY <1>5 DEF IsUp
<1> QED BY <1>1, <1>6

Own(ast, s) == IF IsPreamble(ast[s]) THEN <<>> ELSE ast[s].verbs
Start(ast, s, exit) ==
  Derive(IF ast[s].parent = 0 THEN GlobalFor(ast, s) ELSE OpenScope(exit[ast[s].parent]))
IsExits(exit, n, ast) == exit = [s \in 1 .. n |-> BuildVerbs(Start(ast, s, exit), Own(ast, s))]

\* The context each statement is left with, as one function of the forest.
LEMMA ExitsTable ==
  ASSUME NEW n \in Nat, NEW ast, \A s \in 1 .. n : ast[s].parent \in 0 .. s - 1
  PROVE  \E exit : IsExits(exit, n, ast)
<1> DEFINE Bad == {m \in 0 .. n : ~ \E exit : IsExits(exit, m, ast)}
<1> SUFFICES ASSUME Bad # {} PROVE FALSE
  <2>1. n \in 0 .. n
    OBVIOUS
  <2> QED BY <2>1
<1>1. PICK m \in Bad : \A k \in Bad : m <= k
  <2>1. Bad \subseteq Nat
    OBVIOUS
  <2> HIDE DEF Bad
  <2> QED BY <2>1, LeastNat
<1>2. ASSUME m = 0 PROVE FALSE
  <2> DEFINE none == [s \in {} |-> <<>>]
  <2>1. IsExits(none, 0, ast)
    <3>1. 1 .. 0 = {}
      OBVIOUS
    <3> QED BY <3>1 DEF IsExits
  <2> QED BY <1>1, <1>2, <2>1
<1>3. m \in 1 .. n /\ m - 1 \in 0 .. n
  BY <1>2
<1>4. PICK exit : IsExits(exit, m - 1, ast)
  <2>1. m - 1 \notin Bad
    <3> HIDE DEF Bad
    <3> QED BY <1>1, <1>3
  <2> QED BY <1>3, <2>1
<1> DEFINE more == [s \in 1 .. m |-> IF s = m THEN BuildVerbs(Start(ast, m, exit), Own(ast, m))
                                     ELSE exit[s]]
<1>5. ASSUME NEW s \in 1 .. m
      PROVE  more[s] = BuildVerbs(Start(ast, s, more), Own(ast, s))
  <2>1. ast[s].parent # 0 => exit[ast[s].parent] = more[ast[s].parent]
    <3>1. ast[s].parent \in 0 .. s - 1 /\ s \in 1 .. n
      BY <1>3
    <3>2. ast[s].parent # 0 => ast[s].parent \in 1 .. m /\ ast[s].parent # m
      BY <1>3, <3>1
    <3> QED BY <3>2
  <2>2. Start(ast, s, more) = Start(ast, s, exit)
    BY <2>1 DEF Start
  <2>3. s # m => exit[s] = BuildVerbs(Start(ast, s, exit), Own(ast, s))
    <3>1. s # m => s \in 1 .. m - 1
      BY <1>3
    <3> QED BY <1>4, <3>1 DEF IsExits
  <2> QED BY <2>2, <2>3
<1>6. IsExits(more, m, ast)
  BY <1>5 DEF IsExits
<1> QED BY <1>1, <1>6

\* A statement is left with its own verbs folded into what it was entered with.
LEMMA ExitOf ==
  ASSUME NEW ast, IsForest(ast), NEW s \in DOMAIN ast
  PROVE  Exits(ast)[s] = BuildVerbs(Entry(ast, s), Own(ast, s))
<1> DEFINE n == Len(ast)
<1>1. DOMAIN ast = 1 .. n /\ n \in Nat /\ \A v \in 1 .. n : ast[v].parent \in 0 .. v - 1
  BY DEF IsForest
<1> DEFINE exit == CHOOSE e : IsExits(e, n, ast)
<1>2. Exits(ast) = exit
  BY <1>1 DEF Exits, IsExits, Start, Own
<1>3. IsExits(exit, n, ast)
  <2> HIDE DEF n
  <2> QED BY <1>1, ExitsTable
<1> HIDE DEF exit
<1> QED BY <1>1, <1>2, <1>3 DEF IsExits, Entry, Start

-----------------------------------------------------------------------------
(* How the statements of a query are related.                              *)

\* The query being executed is one the parser built.
Parsed == IsForest(Source) /\ q = BuildQuery(Source)

\* The query has the statements of its source, and their parents.
LEMMA ParsedShape ==
  ASSUME Parsed
  PROVE  /\ q.n = Len(Source) /\ q.n \in Nat /\ DOMAIN Source = Statements
         /\ \A s \in Statements :
              /\ q.parent[s] = Source[s].parent /\ q.parent[s] \in 0 .. s - 1
              /\ q.rel[s] = Entry(Source, s).rel
              /\ IsPreamble(Source[s]) => s = 1
              /\ q.parent[s] = 1 => ~IsPreamble(Source[1])
<1>1. DOMAIN Source = 1 .. Len(Source) /\ Len(Source) \in Nat
  BY DEF Parsed, IsForest
<1>2. /\ q.n = Len(Source) /\ q.parent = [s \in DOMAIN Source |-> Source[s].parent]
      /\ q.rel = [s \in DOMAIN Source |-> Entry(Source, s).rel]
  BY DEF Parsed, BuildQuery
<1> QED BY <1>1, <1>2 DEF Parsed, IsForest, Statements

\* The verbs of a statement, and those of the preamble, come in sequence.
LEMMA VerbsLength ==
  ASSUME Parsed, NEW s \in Statements \cup {0}, Statements # {}
  PROVE  \E n : HasLength(VerbsAt(s), n)
<1>1. 1 \in Statements
  BY ParsedShape DEF Statements
<1>2. \A v \in Statements : Source[v].verbs \in Seq(ToSet(Source[v].verbs))
  BY ParsedShape DEF Parsed, IsForest
<1>3. \A v \in Statements : HasLength(Source[v].verbs, Len(Source[v].verbs))
  <2> TAKE v \in Statements
  <2> DEFINE verbs == Source[v].verbs
  <2>1. verbs \in Seq(ToSet(verbs))
    BY <1>2
  <2> HIDE DEF verbs
  <2>2. DOMAIN verbs = 1 .. Len(verbs) /\ Len(verbs) \in Nat
    BY <2>1
  <2> QED BY <2>2 DEF HasLength, verbs
<1>4. HasLength(<<>>, 0)
  BY DEF HasLength
<1>5. IsPreamble(Source[1]) => \E n : HasLength(Tail(Source[1].verbs), n)
  <2> SUFFICES ASSUME IsPreamble(Source[1]) PROVE \E n : HasLength(Tail(Source[1].verbs), n)
    OBVIOUS
  <2> DEFINE verbs == Source[1].verbs
             V == ToSet(verbs)
  <2>1. verbs \in Seq(V) /\ verbs # <<>>
    BY <1>1, <1>2 DEF IsPreamble
  <2> HIDE DEF verbs, V
  <2>2. Tail(verbs) \in Seq(V)
    BY <2>1
  <2> DEFINE rest == Tail(verbs)
  <2>3. HasLength(rest, Len(rest))
    <3> HIDE DEF rest
    <3>1. rest \in Seq(V)
      BY <2>2 DEF rest
    <3>2. DOMAIN rest = 1 .. Len(rest) /\ Len(rest) \in Nat
      BY <3>1
    <3> QED BY <3>2 DEF HasLength
  <2> QED BY <2>3 DEF verbs
<1>6. CASE s \in Statements
  <2>1. s > 0
    BY <1>6, ParsedShape DEF Statements
  <2> QED BY <1>3, <1>4, <1>6, <2>1 DEF VerbsAt, Verbs
<1>7. CASE s = 0
  BY <1>4, <1>5, <1>7 DEF VerbsAt
<1> QED BY <1>6, <1>7

\* What encloses a statement is its parent and what encloses that, down to
\* the preamble, written as 0.
LEMMA Encloses ==
  ASSUME Parsed, NEW s \in Statements
  PROVE  /\ Enclosing(s) \subseteq 0 .. s - 1
         /\ Enclosing(s) = IF s = 1 /\ IsPreamble(Source[1]) THEN {}
                           ELSE IF q.parent[s] = 0 THEN {0}
                           ELSE {q.parent[s]} \cup Enclosing(q.parent[s])
<1> DEFINE up == CHOOSE u : IsUp(u, q.n, q.parent)
<1>1. /\ q.n \in Nat /\ \A v \in 1 .. q.n : q.parent[v] \in 0 .. v - 1
      /\ \A v \in 1 .. q.n : q.parent[v] = 1 => ~IsPreamble(Source[1])
  BY ParsedShape DEF Statements
<1>2. IsUp(up, q.n, q.parent)
  BY <1>1, UpTable
<1>3. \A v : Enclosing(v) = IF v = 1 /\ IsPreamble(Source[1]) THEN {} ELSE up[v]
  BY DEF Enclosing, IsUp
<1> HIDE DEF up
<1>4. up[0] = {} /\ \A v \in 1 .. q.n : up[v] = {q.parent[v]} \cup up[q.parent[v]]
  BY <1>1, <1>2 DEF IsUp
<1>5. \A v \in 0 .. q.n : up[v] \subseteq 0 .. v - 1
  <2> DEFINE Bad == {v \in 0 .. q.n : ~(up[v] \subseteq 0 .. v - 1)}
  <2> SUFFICES ASSUME Bad # {} PROVE FALSE
    OBVIOUS
  <2>1. PICK v \in Bad : \A w \in Bad : v <= w
    <3>1. Bad \subseteq Nat
      OBVIOUS
    <3> HIDE DEF Bad
    <3> QED BY <3>1, LeastNat
  <2>2. v \in 1 .. q.n
    BY <1>1, <1>4
  <2>3. q.parent[v] \in 0 .. v - 1 /\ q.parent[v] \notin Bad
    BY <1>1, <2>1, <2>2
  <2>4. up[q.parent[v]] \subseteq 0 .. q.parent[v] - 1
    BY <1>1, <2>2, <2>3
  <2>5. up[v] \subseteq 0 .. v - 1
    BY <1>4, <2>2, <2>3, <2>4
  <2> QED BY <2>5
<1>6. s \in 1 .. q.n
  BY DEF Statements
<1>7. q.parent[s] # 0 => Enclosing(q.parent[s]) = up[q.parent[s]]
  BY <1>1, <1>3, <1>6
<1> QED BY <1>3, <1>4, <1>5, <1>6, <1>7

Derivers(S) == With(S, {"derive"})
Said(s) == LastOf(Nearest(Derivers(Enclosing(s))), {"derive"})

\* What a context carries of the nearest derive around it: whether it is
\* handed down, and the relationship it stands for.
Carries(c, S, near) ==
  LET verb == LastOf(Nearest(S), {"derive"})
  IN /\ IsContext(c)
     /\ S = {} => ~c.hands /\ ~c.modified
     /\ S # {} => /\ c.hands <=> verb.inherit
                  /\ c.modified <=> verb.inherit \/ near
                  /\ c.modified => c.rel = verb.rel

EntryHolds(s) ==
  LET S == Derivers(Enclosing(s))
      c == Entry(Source, s)
  IN /\ Carries(c, S, FALSE)
     /\ c.rel = IF S # {} /\ (Said(s).inherit \/ Nearest(S) = q.parent[s]) THEN Said(s).rel
                ELSE IF q.parent[s] = 0 THEN {"refs"} ELSE {"refs", "has"}
ExitHolds(s) ==
  LET S == Derivers({s} \cup Enclosing(s))
  IN Carries(Exits(Source)[s], S, Nearest(S) = s)

\* A scope is entered the way its statement was left.
LEMMA EntryOfScope ==
  ASSUME Parsed, NEW s \in Statements, q.parent[s] # 0, ExitHolds(q.parent[s])
  PROVE  EntryHolds(s)
<1> DEFINE p == q.parent[s]
           c == Exits(Source)[p]
           S == Derivers(Enclosing(s))
<1>1. p \in Statements /\ Source[s].parent = p /\ (s = 1 => FALSE)
  BY ParsedShape DEF Statements
<1>2. S = Derivers({p} \cup Enclosing(p))
  BY <1>1, Encloses
<1>3. Entry(Source, s) = Derive(OpenScope(c))
  BY <1>1 DEF Entry
<1>4. Carries(c, S, Nearest(S) = p)
  BY <1>2 DEF ExitHolds
<1> DEFINE e == Entry(Source, s)
<1> HIDE DEF c, S, p, e
<1>5. /\ IsContext(e) /\ (e.hands <=> c.hands) /\ (e.modified <=> c.hands)
      /\ e.rel = IF c.modified THEN c.rel ELSE {"refs", "has"}
  BY <1>3, <1>4 DEF Carries, IsContext, Derive, OpenScope, e
<1>6. Carries(e, S, FALSE)
  BY <1>4, <1>5 DEF Carries
<1>7. e.rel = IF S # {} /\ (Said(s).inherit \/ Nearest(S) = p) THEN Said(s).rel
              ELSE {"refs", "has"}
  BY <1>4, <1>5 DEF Carries, Said, S
<1> QED BY <1>6, <1>7 DEF EntryHolds, S, p, e

\* A statement at the top level is entered the way the preamble was left.
LEMMA EntryOfTop ==
  ASSUME Parsed, NEW s \in Statements, q.parent[s] = 0
  PROVE  EntryHolds(s)
<1> DEFINE S == Derivers(Enclosing(s))
           g == GlobalFor(Source, s)
           e == Entry(Source, s)
<1>1. s \in Nat /\ s # 0 /\ Source[s].parent = 0 /\ (IsPreamble(Source[s]) => s = 1)
  BY ParsedShape DEF Statements
<1>2. e = Derive(g)
  BY <1>1 DEF Entry
<1>3. IsContext(Global) /\ ~Global.hands /\ ~Global.modified /\ Global.rel = {"refs"}
  BY DEF Global, IsContext
<1>4. VerbsAt(0) = IF IsPreamble(Source[1]) THEN Tail(Source[1].verbs) ELSE <<>>
  BY DEF VerbsAt
<1>5. S = IF s = 1 /\ IsPreamble(Source[1]) THEN {} ELSE Derivers({0})
  BY Encloses DEF Derivers, With
<1> DEFINE verbs == VerbsAt(0)
           at == Places(verbs, {"derive"})
           verb == verbs[Nearest(at)]
<1>6. Derivers({0}) = IF at = {} THEN {} ELSE {0}
  BY DEF Derivers, With
<1>7. IsContext(g) /\ (IF S = {} THEN ~g.hands /\ g.rel = {"refs"}
                       ELSE S = {0} /\ (g.hands <=> verb.inherit) /\ g.rel = verb.rel)
  <2>1. CASE s > 1 /\ IsPreamble(Source[1])
    <3>1. g = BuildVerbs(Global, verbs) /\ S = Derivers({0})
      <4>1. GlobalFor(Source, s) = BuildVerbs(Global, Tail(Source[1].verbs))
        BY <2>1 DEF GlobalFor
      <4>2. s # 1
        BY <2>1
      <4> HIDE DEF S
      <4> QED BY <1>4, <1>5, <2>1, <4>1, <4>2
    <3>2. PICK n : HasLength(verbs, n)
      BY <1>1, VerbsLength
    <3> HIDE DEF g, verbs, S
    <3>3. /\ IsContext(g)
          /\ at = {} => g.rel = Global.rel /\ (g.hands = Global.hands)
          /\ at # {} => g.rel = verb.rel /\ g.hands = verb.inherit
      BY <1>3, <3>1, <3>2, FoldRelates
    <3> QED BY <1>3, <1>6, <3>1, <3>3
  <2>2. CASE ~(s > 1 /\ IsPreamble(Source[1]))
    <3>1. g = Global
      BY <2>2 DEF GlobalFor
    <3>2. S = {}
      <4>1. s = 1 \/ ~IsPreamble(Source[1])
        BY <1>1, <2>2
      <4>2. ~IsPreamble(Source[1]) => at = {}
        BY <1>4 DEF Places
      <4> QED BY <1>5, <1>6, <4>1, <4>2
    <3> QED BY <1>3, <3>1, <3>2
  <2> QED BY <2>1, <2>2
<1>8. S = {0} => Nearest(S) = 0
  BY DEF Nearest
<1>9. S = {0} => Said(s) = verb
  BY <1>8 DEF Said, LastOf
<1> HIDE DEF S, g, e, verb
<1>10. IsContext(e) /\ (e.hands <=> g.hands) /\ (e.modified <=> g.hands) /\ e.rel = g.rel
  BY <1>2, <1>7 DEF Derive, IsContext
<1>11. Carries(e, S, FALSE)
  BY <1>7, <1>9, <1>10 DEF Carries, Said, S
<1>12. e.rel = IF S # {} THEN Said(s).rel ELSE {"refs"}
  BY <1>7, <1>9, <1>10
<1>13. S # {} => S = {0}
  BY <1>7
<1> QED BY <1>8, <1>11, <1>12, <1>13 DEF EntryHolds, S, e

\* A statement adds what it says itself, and is nearer than what encloses it.
LEMMA ExitOfStatement ==
  ASSUME Parsed, NEW s \in Statements, EntryHolds(s)
  PROVE  ExitHolds(s)
<1> DEFINE A == Derivers(Enclosing(s))
           S == Derivers({s} \cup Enclosing(s))
           verbs == VerbsAt(s)
           at == Places(verbs, {"derive"})
           base == Entry(Source, s)
           end == Exits(Source)[s]
<1>1. s \in Nat /\ s > 0 /\ Source # <<>> /\ s \in DOMAIN Source
  BY ParsedShape DEF Statements
<1>2. end = BuildVerbs(base, verbs)
  BY <1>1, ExitOf DEF Parsed, Own, VerbsAt, Verbs
<1>3. PICK n : HasLength(verbs, n)
  BY VerbsLength
<1>4. S = A \cup (IF at = {} THEN {} ELSE {s}) /\ A \subseteq 0 .. s - 1
  BY Encloses DEF Derivers, With
<1>5. Carries(base, A, FALSE)
  BY DEF EntryHolds
<1> HIDE DEF A, S, verbs, base, end
<1>6. /\ IsContext(end)
      /\ at = {} => end.rel = base.rel /\ (end.modified <=> base.modified) /\ end.hands = base.hands
      /\ at # {} => end.rel = verbs[Nearest(at)].rel /\ end.modified
                    /\ end.hands = verbs[Nearest(at)].inherit
  BY <1>2, <1>3, <1>5, FoldRelates DEF Carries
<1>7. CASE at = {}
  <2>1. S = A /\ s \notin A
    BY <1>1, <1>4, <1>7
  <2>2. A # {} => Nearest(A) # s
    <3>1. s - 1 \in Nat
      BY <1>1
    <3> QED BY <1>4, <2>1, <3>1, NearestIs
  <2> QED BY <1>5, <1>6, <1>7, <2>1, <2>2 DEF Carries, ExitHolds, S, end
<1>8. CASE at # {}
  <2>1. s \in S /\ \A t \in S : t <= s
    BY <1>1, <1>4, <1>8
  <2>2. Nearest(S) = s
    <3>1. \A t \in S : (\A u \in S : u <= t) => t = s
      BY <1>1, <1>4, <2>1
    <3> QED BY <2>1, <3>1 DEF Nearest
  <2>3. LastOf(s, {"derive"}) = verbs[Nearest(at)]
    BY DEF LastOf, verbs
  <2>4. Carries(end, S, TRUE)
    BY <1>6, <1>8, <2>1, <2>2, <2>3 DEF Carries
  <2> QED BY <2>2, <2>4 DEF ExitHolds, S, end, Carries
<1> QED BY <1>7, <1>8

\* Every statement is entered with the relationship that is said nearest.
LEMMA EveryEntry ==
  ASSUME Parsed
  PROVE  \A s \in Statements : EntryHolds(s)
<1> DEFINE Bad == {s \in Statements : ~EntryHolds(s)}
<1> SUFFICES ASSUME Bad # {} PROVE FALSE
  OBVIOUS
<1>1. Statements \subseteq Nat /\ \A s \in Statements : q.parent[s] \in 0 .. s - 1
  BY ParsedShape DEF Statements
<1>2. PICK s \in Bad : \A t \in Bad : s <= t
  <2>1. Bad \subseteq Nat
    BY <1>1
  <2> HIDE DEF Bad
  <2> QED BY <2>1, LeastNat
<1>3. CASE q.parent[s] = 0
  BY <1>3, EntryOfTop
<1>4. CASE q.parent[s] # 0
  <2>1. q.parent[s] \in Statements /\ q.parent[s] < s
    BY <1>1, <1>4, ParsedShape DEF Statements
  <2>2. EntryHolds(q.parent[s])
    BY <1>1, <1>2, <2>1
  <2> QED BY <1>4, <2>1, <2>2, ExitOfStatement, EntryOfScope
<1> QED BY <1>3, <1>4

\* A parsed query relates its scopes as RelationshipScope says.
LEMMA ParsedRelates ==
  ASSUME Parsed
  PROVE  RelationshipScope
<1> SUFFICES ASSUME NEW s \in Statements
             PROVE  LET around == With(Enclosing(s), {"derive"})
                        verb == LastOf(Nearest(around), {"derive"})
                    IN IF around # {} /\ (verb.inherit \/ Nearest(around) = q.parent[s])
                       THEN q.rel[s] = verb.rel
                       ELSE "refs" \in q.rel[s]
  BY DEF RelationshipScope
<1>1. EntryHolds(s) /\ q.rel[s] = Entry(Source, s).rel
  BY EveryEntry, ParsedShape
<1> QED BY <1>1 DEF EntryHolds, Said, Derivers

-----------------------------------------------------------------------------
(* Which verbs a command keeps.                                            *)

List(verbs) == verbs \in Seq(ToSet(verbs))

\* A sequence is a list of its own members.
LEMMA ListIs ==
  ASSUME NEW V, NEW verbs \in Seq(V)
  PROVE  /\ List(verbs) /\ HasLength(verbs, Len(verbs))
         /\ \A x : x \in ToSet(verbs) <=> \E i \in 1 .. Len(verbs) : verbs[i] = x
<1>1. DOMAIN verbs = 1 .. Len(verbs) /\ Len(verbs) \in Nat
  OBVIOUS
<1>2. \A i \in 1 .. Len(verbs) : verbs[i] \in ToSet(verbs)
  BY <1>1 DEF ToSet
<1>3. List(verbs)
  <2> DEFINE S == ToSet(verbs)
  <2> HIDE DEF S
  <2>1. \A i \in 1 .. Len(verbs) : verbs[i] \in S
    BY <1>2 DEF S
  <2>2. verbs \in Seq(S)
    BY <1>1, <2>1
  <2> QED BY <2>2 DEF List, S
<1> QED BY <1>1, <1>3 DEF HasLength, ToSet

\* A list with one more verb at its end.
LEMMA ListAppend ==
  ASSUME NEW verbs, List(verbs), NEW w
  PROVE  LET more == Append(verbs, w)
         IN /\ List(more) /\ ToSet(more) = ToSet(verbs) \cup {w} /\ Len(more) = Len(verbs) + 1
            /\ more[Len(verbs) + 1] = w /\ \A i \in 1 .. Len(verbs) : more[i] = verbs[i]
<1> DEFINE V == ToSet(verbs) \cup {w}
           more == Append(verbs, w)
<1>1. verbs \in Seq(V) /\ w \in V
  BY DEF List
<1> HIDE DEF V
<1>2. /\ more \in Seq(V) /\ Len(more) = Len(verbs) + 1 /\ Len(verbs) \in Nat
      /\ more[Len(verbs) + 1] = w /\ \A i \in 1 .. Len(verbs) : more[i] = verbs[i]
  BY <1>1
<1>3. /\ \A x : x \in ToSet(verbs) <=> \E i \in 1 .. Len(verbs) : verbs[i] = x
      /\ \A x : x \in ToSet(more) <=> \E i \in 1 .. Len(more) : more[i] = x
      /\ List(more)
  BY <1>1, <1>2, ListIs
<1> HIDE DEF more
<1>4. ToSet(more) = ToSet(verbs) \cup {w}
  <2>1. ASSUME NEW x \in ToSet(verbs) PROVE x \in ToSet(more)
    <3>1. PICK i \in 1 .. Len(verbs) : verbs[i] = x
      BY <1>3, <2>1
    <3>2. i \in 1 .. Len(more) /\ more[i] = x
      BY <1>2, <3>1
    <3> QED BY <1>3, <3>2
  <2>2. w \in ToSet(more)
    <3>1. Len(verbs) + 1 \in 1 .. Len(more)
      BY <1>2
    <3> QED BY <1>2, <1>3, <3>1
  <2>3. ASSUME NEW x \in ToSet(more) PROVE x = w \/ x \in ToSet(verbs)
    <3>1. PICK i \in 1 .. Len(more) : more[i] = x
      BY <1>3, <2>3
    <3>2. i = Len(verbs) + 1 \/ i \in 1 .. Len(verbs)
      BY <1>2
    <3> QED BY <1>2, <1>3, <3>1, <3>2
  <2> QED BY <2>1, <2>2, <2>3
<1> QED BY <1>2, <1>3, <1>4 DEF more

\* A fold within a set of values: the values for every set of places.
IsFoldTable(H, n, A, base, seq, step) ==
  \A T \in SUBSET (1 .. n) :
    H[T] \in A /\ H[T] = IF T = {} THEN base ELSE step[H[T \ {Max(T)}]][seq[Max(T)]]
StaysIn(A, V, step) == \A a \in A, v \in V : step[a][v] \in A

\* The values that a fold passes through, as one function.
LEMMA FoldTable ==
  ASSUME NEW n \in Nat, NEW A, NEW base \in A, NEW V, NEW seq, \A i \in 1 .. n : seq[i] \in V,
         NEW step, StaysIn(A, V, step)
  PROVE  \E H : IsFoldTable(H, n, A, base, seq, step)
<1> DEFINE Good(m, H) == IsFoldTable(H, m, A, base, seq, step)
           Bad == {m \in 0 .. n : ~ \E H : Good(m, H)}
<1> SUFFICES ASSUME Bad # {} PROVE FALSE
  <2>1. n \in 0 .. n
    OBVIOUS
  <2> HIDE DEF Good
  <2> QED BY <2>1 DEF Good
<1>1. PICK m \in Bad : \A k \in Bad : m <= k
  <2>1. Bad \subseteq Nat
    OBVIOUS
  <2> HIDE DEF Bad
  <2> QED BY <2>1, LeastNat
<1>2. ASSUME m = 0 PROVE FALSE
  <2> DEFINE none == [T \in {{}} |-> base]
  <2>1. Good(0, none)
    <3>1. SUBSET (1 .. 0) = {{}}
      OBVIOUS
    <3> QED BY <3>1 DEF IsFoldTable
  <2> HIDE DEF Good
  <2> QED BY <1>1, <1>2, <2>1
<1>3. m \in 1 .. n /\ m - 1 \in 0 .. n /\ m \in Nat /\ m - 1 \in Nat
  BY <1>2
<1>4. PICK G : Good(m - 1, G)
  <2>1. m - 1 \notin Bad
    <3> HIDE DEF Bad
    <3> QED BY <1>1, <1>3
  <2> HIDE DEF Good
  <2> QED BY <1>3, <2>1
<1> HIDE DEF Bad
<1> DEFINE H == [T \in SUBSET (1 .. m) |->
                   IF m \in T THEN step[G[T \ {m}]][seq[m]] ELSE G[T]]
<1>5. ASSUME NEW T \in SUBSET (1 .. m)
      PROVE  H[T] \in A /\ H[T] = IF T = {} THEN base ELSE step[H[T \ {Max(T)}]][seq[Max(T)]]
  <2>1. CASE m \in T
    <3>1. Max(T) = m /\ T \ {m} \in SUBSET (1 .. m) /\ m \notin T \ {m}
      BY <1>3, <2>1, GreatestOf
    <3>2. T \ {m} \in SUBSET (1 .. m - 1)
      BY <1>3
    <3>3. G[T \ {m}] \in A /\ seq[m] \in V
      BY <1>3, <1>4, <3>2 DEF IsFoldTable
    <3> QED BY <2>1, <3>1, <3>3 DEF StaysIn
  <2>2. CASE m \notin T
    <3>1. T \in SUBSET (1 .. m - 1)
      <4>1. \A x \in 1 .. m : x # m => x \in 1 .. m - 1
        BY <1>3
      <4> QED BY <1>5, <2>2, <4>1
    <3>2. G[T] \in A /\ G[T] = IF T = {} THEN base ELSE step[G[T \ {Max(T)}]][seq[Max(T)]]
      BY <1>4, <3>1 DEF IsFoldTable
    <3>3. T \ {Max(T)} \in SUBSET (1 .. m) /\ m \notin T \ {Max(T)}
      BY <3>1, <2>2
    <3> QED BY <2>2, <3>2, <3>3
  <2> QED BY <2>1, <2>2
<1>6. Good(m, H)
  BY <1>5 DEF IsFoldTable
<1> HIDE DEF Good
<1> QED BY <1>1, <1>6 DEF Bad

IsRetainTable(H, n, verbs, kept) ==
  H = [T \in SUBSET (1 .. n) |->
         IF T = {} THEN <<>>
         ELSE IF verbs[Max(T)] \in kept THEN Append(H[T \ {Max(T)}], verbs[Max(T)])
         ELSE H[T \ {Max(T)}]]

\* The lists that Retain passes through, as one function.
LEMMA RetainTable ==
  ASSUME NEW V, NEW n \in Nat, NEW verbs, \A i \in 1 .. n : verbs[i] \in V, NEW kept
  PROVE  \E H : IsRetainTable(H, n, verbs, kept)
<1> DEFINE step == [a \in Seq(V) |-> [v \in V |-> IF v \in kept THEN Append(a, v) ELSE a]]
<1>1. \A a \in Seq(V), v \in V : /\ step[a][v] = IF v \in kept THEN Append(a, v) ELSE a
                                 /\ step[a][v] \in Seq(V)
  OBVIOUS
<1> HIDE DEF step
<1>2. <<>> \in Seq(V)
  OBVIOUS
<1>3. PICK G : IsFoldTable(G, n, Seq(V), <<>>, verbs, step)
  <2> DEFINE A == Seq(V)
  <2> HIDE DEF A
  <2>1. <<>> \in A /\ StaysIn(A, V, step)
    BY <1>1, <1>2 DEF A, StaysIn
  <2>2. \E H : IsFoldTable(H, n, A, <<>>, verbs, step)
    BY <2>1, FoldTable
  <2> QED BY <2>2 DEF A
<1> DEFINE H == [T \in SUBSET (1 .. n) |-> G[T]]
<1>4. ASSUME NEW T \in SUBSET (1 .. n), T # {}
      PROVE  Max(T) \in 1 .. n /\ T \ {Max(T)} \in SUBSET (1 .. n)
  <2>1. Max(T) \in T
    <3>1. T \subseteq 0 .. n
      BY <1>4
    <3> QED BY <1>4, <3>1, GreatestIs
  <2> QED BY <1>4, <2>1
<1>5. ASSUME NEW T \in SUBSET (1 .. n)
      PROVE  H[T] = IF T = {} THEN <<>>
                    ELSE IF verbs[Max(T)] \in kept THEN Append(H[T \ {Max(T)}], verbs[Max(T)])
                    ELSE H[T \ {Max(T)}]
  <2>1. CASE T = {}
    BY <1>3, <2>1 DEF IsFoldTable
  <2>2. CASE T # {}
    <3> DEFINE m == Max(T)
               U == T \ {m}
    <3>1. m \in 1 .. n /\ U \in SUBSET (1 .. n)
      BY <1>4, <2>2
    <3>2. G[T] = step[G[U]][verbs[m]] /\ G[U] \in Seq(V)
      BY <1>3, <2>2, <3>1 DEF IsFoldTable
    <3>3. H[T] = G[T] /\ H[U] = G[U]
      BY <3>1
    <3> HIDE DEF m, U, H
    <3>4. G[T] = IF verbs[m] \in kept THEN Append(G[U], verbs[m]) ELSE G[U]
      BY <1>1, <3>1, <3>2
    <3> QED BY <2>2, <3>3, <3>4 DEF m, U
  <2> QED BY <2>1, <2>2
<1>6. IsRetainTable(H, n, verbs, kept)
  BY <1>5 DEF IsRetainTable
<1> QED BY <1>6

\* Retain keeps the verbs of the set, and their order.
LEMMA RetainSteps ==
  ASSUME NEW verbs, List(verbs), NEW kept
  PROVE  \E out : /\ out[0] = <<>> /\ out[Len(verbs)] = Retain(verbs, kept)
                  /\ \A k \in 1 .. Len(verbs) :
                       out[k] = IF verbs[k] \in kept THEN Append(out[k - 1], verbs[k]) ELSE out[k - 1]
<1> DEFINE n == Len(verbs)
           H == CHOOSE F : IsRetainTable(F, n, verbs, kept)
<1>0. n \in Nat /\ DOMAIN verbs = 1 .. n /\ \A i \in 1 .. n : verbs[i] \in ToSet(verbs)
  BY DEF List, ToSet
<1>1. Retain(verbs, kept) = H[1 .. n]
  BY <1>0 DEF Retain, FoldLeft, MapThenFoldSet, IsRetainTable
<1>2. IsRetainTable(H, n, verbs, kept)
  <2> HIDE DEF n
  <2> QED BY <1>0, RetainTable
<1> HIDE DEF H, n
<1> DEFINE out == [k \in 0 .. n |-> H[1 .. k]]
<1>3. out[0] = <<>>
  <2>1. 1 .. 0 = {} /\ 0 \in 0 .. n
    BY <1>0
  <2> QED BY <1>2, <2>1 DEF IsRetainTable
<1>4. ASSUME NEW k \in 1 .. n
      PROVE  out[k] = IF verbs[k] \in kept THEN Append(out[k - 1], verbs[k]) ELSE out[k - 1]
  <2>1. 1 .. k \subseteq 1 .. n /\ k \in 1 .. k /\ k - 1 \in 0 .. n /\ k \in 0 .. n
    BY <1>0
  <2>2. Max(1 .. k) = k /\ (1 .. k) \ {k} = 1 .. k - 1
    BY GreatestOf
  <2>3. H[1 .. k] = IF verbs[k] \in kept THEN Append(H[1 .. k - 1], verbs[k]) ELSE H[1 .. k - 1]
    BY <1>2, <2>1, <2>2 DEF IsRetainTable
  <2> QED BY <2>1, <2>3
<1>5. out[n] = Retain(verbs, kept)
  BY <1>0, <1>1
<1> HIDE DEF out
<1> QED BY <1>3, <1>4, <1>5 DEF n

\* No verb of a list would displace one before it.
Settled(verbs) ==
  \A j \in 1 .. Len(verbs) : \A i \in 1 .. j - 1 : ~Displaces(verbs[j], verbs[i])

\* A list stays settled when the verb at its end displaces none of it.
LEMMA SettledAppend ==
  ASSUME NEW verbs, List(verbs), Settled(verbs), NEW w,
         \A o \in ToSet(verbs) : ~Displaces(w, o)
  PROVE  Settled(Append(verbs, w))
<1> DEFINE n == Len(verbs)
           more == Append(verbs, w)
<1>1. /\ n \in Nat /\ \A i \in 1 .. n : verbs[i] \in ToSet(verbs)
  <2>1. verbs \in Seq(ToSet(verbs))
    BY DEF List
  <2> QED BY <2>1, ListIs
<1>2. /\ Len(more) = n + 1 /\ more[n + 1] = w /\ \A i \in 1 .. n : more[i] = verbs[i]
  BY ListAppend
<1> HIDE DEF more, n
<1>3. ASSUME NEW j \in 1 .. n + 1, NEW i \in 1 .. j - 1
      PROVE  ~Displaces(more[j], more[i])
  <2>1. i \in 1 .. n /\ more[i] = verbs[i]
    BY <1>1, <1>2
  <2>2. CASE j = n + 1
    BY <1>1, <1>2, <2>1, <2>2
  <2>3. CASE j # n + 1
    <3>1. j \in 1 .. n /\ more[j] = verbs[j]
      BY <1>1, <1>2, <2>3
    <3> QED BY <2>1, <3>1 DEF Settled, n
  <2> QED BY <2>2, <2>3
<1> QED BY <1>2, <1>3 DEF Settled, more

\* Retain leaves the verbs of the set, and a settled list settled.
LEMMA RetainIs ==
  ASSUME NEW verbs, List(verbs), NEW kept
  PROVE  LET some == Retain(verbs, kept)
         IN /\ List(some) /\ ToSet(some) = ToSet(verbs) \cap kept
            /\ Settled(verbs) => Settled(some)
<1> DEFINE n == Len(verbs)
<1>1. PICK out : /\ out[0] = <<>> /\ out[n] = Retain(verbs, kept)
                 /\ \A k \in 1 .. n :
                      out[k] = IF verbs[k] \in kept THEN Append(out[k - 1], verbs[k]) ELSE out[k - 1]
  BY RetainSteps
<1>2. n \in Nat /\ \A x : x \in ToSet(verbs) <=> \E i \in 1 .. n : verbs[i] = x
  <2>1. verbs \in Seq(ToSet(verbs))
    BY DEF List
  <2> QED BY <2>1, ListIs
<1> DEFINE Upto(k) == {verbs[i] : i \in 1 .. k}
           Holds(k) == /\ List(out[k]) /\ ToSet(out[k]) = Upto(k) \cap kept
                       /\ Settled(verbs) => Settled(out[k])
           Bad == {k \in 0 .. n : ~Holds(k)}
<1>3. ASSUME NEW k \in 1 .. n, Holds(k - 1)
      PROVE  Holds(k)
  <2> DEFINE before == out[k - 1]
             after == out[k]
             w == verbs[k]
  <2>1. after = IF w \in kept THEN Append(before, w) ELSE before
    BY <1>1
  <2>2. Upto(k) = Upto(k - 1) \cup {w}
    <3>1. \A i \in 1 .. k : i = k \/ i \in 1 .. k - 1
      OBVIOUS
    <3>2. \A i \in 1 .. k - 1 : i \in 1 .. k
      OBVIOUS
    <3>3. k \in 1 .. k
      OBVIOUS
    <3> QED BY <3>1, <3>2, <3>3
  <2>3. List(before) /\ ToSet(before) = Upto(k - 1) \cap kept /\ (Settled(verbs) => Settled(before))
    BY <1>3
  <2>4. Settled(verbs) => \A o \in Upto(k - 1) : ~Displaces(w, o)
    BY <1>2 DEF Settled
  <2> HIDE DEF before, after, w, Upto
  <2>5. CASE w \in kept
    <3>1. after = Append(before, w)
      BY <2>1, <2>5
    <3>2. List(after) /\ ToSet(after) = ToSet(before) \cup {w}
      BY <2>3, <3>1, ListAppend
    <3>3. ToSet(after) = Upto(k) \cap kept
      BY <2>2, <2>3, <2>5, <3>2
    <3>4. Settled(verbs) => Settled(after)
      BY <2>3, <2>4, <3>1, SettledAppend
    <3> QED BY <3>2, <3>3, <3>4 DEF after
  <2>6. CASE w \notin kept
    <3>1. after = before /\ ToSet(before) = Upto(k) \cap kept
      BY <2>1, <2>2, <2>3, <2>6
    <3> QED BY <2>3, <3>1 DEF after
  <2> QED BY <2>5, <2>6
<1>4. Holds(0)
  <2>1. List(<<>>) /\ ToSet(<<>>) = {} /\ Settled(<<>>)
    BY DEF List, ToSet, Settled
  <2>2. Upto(0) = {}
    OBVIOUS
  <2> HIDE DEF Upto
  <2> QED BY <1>1, <2>1, <2>2
<1> HIDE DEF Holds
<1>5. Bad = {}
  <2> SUFFICES ASSUME Bad # {} PROVE FALSE
    OBVIOUS
  <2>1. PICK k \in Bad : \A j \in Bad : k <= j
    <3>1. Bad \subseteq Nat
      OBVIOUS
    <3> HIDE DEF Bad
    <3> QED BY <3>1, LeastNat
  <2>2. k \in 1 .. n /\ k - 1 \in 0 .. n
    BY <1>2, <1>4
  <2>3. Holds(k - 1)
    BY <2>1, <2>2
  <2> QED BY <1>3, <2>2, <2>3
<1>6. Holds(n)
  BY <1>2, <1>5
<1>7. Upto(n) = ToSet(verbs)
  BY <1>2
<1> QED BY <1>1, <1>6, <1>7 DEF Holds

\* What a verb that is added to a list leaves of it, followed by the verb.
LEMMA ReplacedIs ==
  ASSUME NEW verbs, List(verbs), Settled(verbs), NEW w
  PROVE  LET more == Append(Displaced(w, verbs), w)
         IN /\ List(more) /\ Settled(more)
            /\ ToSet(more) = {o \in ToSet(verbs) : ~Displaces(w, o)} \cup {w}
<1> DEFINE some == Displaced(w, verbs)
           kept == {o \in ToSet(verbs) : ~Displaces(w, o)}
<1>1. some = Retain(verbs, kept)
  BY DEF Displaced
<1> HIDE DEF some, kept
<1>2. List(some) /\ ToSet(some) = ToSet(verbs) \cap kept /\ Settled(some)
  BY <1>1, RetainIs
<1>3. ToSet(some) = kept /\ \A o \in kept : ~Displaces(w, o)
  BY <1>2 DEF kept
<1>4. Settled(Append(some, w))
  BY <1>2, <1>3, SettledAppend
<1>5. List(Append(some, w)) /\ ToSet(Append(some, w)) = kept \cup {w}
  BY <1>2, <1>3, ListAppend
<1> QED BY <1>4, <1>5 DEF some, kept

IsAddTable(H, n, verbs) ==
  H = [T \in SUBSET (1 .. n) |->
         IF T = {} THEN <<>>
         ELSE Append(Displaced(verbs[Max(T)], H[T \ {Max(T)}]), verbs[Max(T)])]

\* The lists that add_verb passes through, as one function.
LEMMA AddTable ==
  ASSUME NEW V, NEW n \in Nat, NEW verbs, \A i \in 1 .. n : verbs[i] \in V
  PROVE  \E H : IsAddTable(H, n, verbs)
<1> DEFINE A == {a \in Seq(V) : Settled(a)}
           step == [a \in A |-> [v \in V |-> Append(Displaced(v, a), v)]]
<1>1. ASSUME NEW a \in A, NEW v \in V
      PROVE  step[a][v] = Append(Displaced(v, a), v) /\ step[a][v] \in A
  <2> DEFINE new == Append(Displaced(v, a), v)
  <2>1. a \in Seq(V) /\ Settled(a) /\ List(a)
    BY ListIs
  <2>2. \A x \in ToSet(a) : x \in V
    BY <2>1, ListIs
  <2>3. List(new) /\ Settled(new) /\ \A x \in ToSet(new) : x \in ToSet(a) \cup {v}
    BY <2>1, ReplacedIs
  <2> HIDE DEF new
  <2>4. new \in Seq(ToSet(new)) /\ \A x \in ToSet(new) : x \in V
    BY <2>2, <2>3 DEF List
  <2>5. new \in Seq(V)
    <3> DEFINE S == ToSet(new)
    <3>1. new \in Seq(S) /\ S \subseteq V
      BY <2>4
    <3> HIDE DEF S
    <3> QED BY <3>1
  <2> QED BY <2>3, <2>5 DEF new
<1>2. <<>> \in A
  BY DEF Settled
<1> HIDE DEF step
<1>3. PICK G : IsFoldTable(G, n, A, <<>>, verbs, step)
  <2> HIDE DEF A
  <2>1. StaysIn(A, V, step)
    BY <1>1 DEF StaysIn
  <2>2. \E H : IsFoldTable(H, n, A, <<>>, verbs, step)
    BY <1>2, <2>1, FoldTable
  <2> QED BY <2>2
<1> HIDE DEF A
<1> DEFINE H == [T \in SUBSET (1 .. n) |-> G[T]]
<1>4. ASSUME NEW T \in SUBSET (1 .. n), T # {}
      PROVE  Max(T) \in 1 .. n /\ T \ {Max(T)} \in SUBSET (1 .. n)
  <2>1. Max(T) \in T
    <3>1. T \subseteq 0 .. n
      BY <1>4
    <3> QED BY <1>4, <3>1, GreatestIs
  <2> QED BY <1>4, <2>1
<1>5. ASSUME NEW T \in SUBSET (1 .. n)
      PROVE  H[T] = IF T = {} THEN <<>>
                    ELSE Append(Displaced(verbs[Max(T)], H[T \ {Max(T)}]), verbs[Max(T)])
  <2>1. CASE T = {}
    BY <1>3, <2>1 DEF IsFoldTable
  <2>2. CASE T # {}
    <3> DEFINE m == Max(T)
               U == T \ {m}
    <3>1. m \in 1 .. n /\ U \in SUBSET (1 .. n)
      BY <1>4, <2>2
    <3>2. G[T] = step[G[U]][verbs[m]] /\ G[U] \in A
      BY <1>3, <2>2, <3>1 DEF IsFoldTable
    <3>3. H[T] = G[T] /\ H[U] = G[U]
      BY <3>1
    <3> HIDE DEF m, U, H
    <3>4. G[T] = Append(Displaced(verbs[m], G[U]), verbs[m])
      BY <1>1, <3>1, <3>2
    <3> QED BY <2>2, <3>3, <3>4 DEF m, U
  <2> QED BY <2>1, <2>2
<1>6. IsAddTable(H, n, verbs)
  BY <1>5 DEF IsAddTable
<1> QED BY <1>6

\* add_verb goes through the whole list again.
IsAdding(out, all) ==
  /\ out[0] = <<>>
  /\ \A k \in 1 .. Len(all) : out[k] = Append(Displaced(all[k], out[k - 1]), all[k])

\* add_verb for every verb of the list in turn, and then for the new one.
LEMMA AddSteps ==
  ASSUME NEW verbs, List(verbs), NEW w
  PROVE  \E out : IsAdding(out, Append(verbs, w)) /\ out[Len(Append(verbs, w))] = AddVerb(verbs, w)
<1> DEFINE all == Append(verbs, w)
           n == Len(all)
           H == CHOOSE F : IsAddTable(F, n, all)
<1>0. n \in Nat /\ DOMAIN all = 1 .. n /\ \A i \in 1 .. n : all[i] \in ToSet(all)
  <2>1. List(all)
    BY ListAppend
  <2> HIDE DEF all
  <2> QED BY <2>1 DEF List, ToSet
<1>1. AddVerb(verbs, w) = H[1 .. n]
  BY <1>0 DEF AddVerb, FoldLeft, MapThenFoldSet, IsAddTable
<1>2. IsAddTable(H, n, all)
  <2> HIDE DEF n, all
  <2> QED BY <1>0, AddTable
<1> HIDE DEF H, n, all
<1> DEFINE out == [k \in 0 .. n |-> H[1 .. k]]
<1>3. out[0] = <<>>
  <2>1. 1 .. 0 = {} /\ 0 \in 0 .. n
    BY <1>0
  <2> QED BY <1>2, <2>1 DEF IsAddTable
<1>4. ASSUME NEW k \in 1 .. n
      PROVE  out[k] = Append(Displaced(all[k], out[k - 1]), all[k])
  <2>1. 1 .. k \subseteq 1 .. n /\ k \in 1 .. k /\ k - 1 \in 0 .. n /\ k \in 0 .. n
    BY <1>0
  <2>2. Max(1 .. k) = k /\ (1 .. k) \ {k} = 1 .. k - 1
    BY GreatestOf
  <2>3. H[1 .. k] = Append(Displaced(all[k], H[1 .. k - 1]), all[k])
    BY <1>2, <2>1, <2>2 DEF IsAddTable
  <2> QED BY <2>1, <2>3
<1>5. out[n] = AddVerb(verbs, w)
  BY <1>0, <1>1
<1> HIDE DEF out
<1>6. IsAdding(out, all)
  BY <1>3, <1>4 DEF IsAdding, n
<1> QED BY <1>5, <1>6 DEF n, all

\* Settled as the list is, all of it stays but what the new verb displaces.
LEMMA AddIs ==
  ASSUME NEW verbs, List(verbs), Settled(verbs), NEW w
  PROVE  LET more == AddVerb(verbs, w)
         IN /\ List(more) /\ Settled(more)
            /\ ToSet(more) = {o \in ToSet(verbs) : ~Displaces(w, o)} \cup {w}
<1> DEFINE n == Len(verbs)
           all == Append(verbs, w)
<1>1. PICK out : IsAdding(out, all) /\ out[Len(all)] = AddVerb(verbs, w)
  BY AddSteps
<1>2. n \in Nat /\ \A x : x \in ToSet(verbs) <=> \E i \in 1 .. n : verbs[i] = x
  <2>1. verbs \in Seq(ToSet(verbs))
    BY DEF List
  <2> QED BY <2>1, ListIs
<1>3. Len(all) = n + 1 /\ all[n + 1] = w /\ \A i \in 1 .. n : all[i] = verbs[i]
  BY ListAppend
<1> HIDE DEF all, n
<1>9. /\ out[0] = <<>> /\ AddVerb(verbs, w) = out[n + 1]
      /\ \A k \in 1 .. n + 1 : out[k] = Append(Displaced(all[k], out[k - 1]), all[k])
  BY <1>1, <1>3 DEF IsAdding
<1> DEFINE Upto(k) == {verbs[i] : i \in 1 .. k}
           Holds(k) == List(out[k]) /\ Settled(out[k]) /\ ToSet(out[k]) = Upto(k)
           Bad == {k \in 0 .. n : ~Holds(k)}
<1>4. ASSUME NEW k \in 1 .. n, Holds(k - 1)
      PROVE  Holds(k)
  <2> DEFINE before == out[k - 1]
             after == out[k]
             v == verbs[k]
  <2>1. after = Append(Displaced(v, before), v)
    BY <1>2, <1>3, <1>9
  <2>2. Upto(k) = Upto(k - 1) \cup {v}
    <3>1. \A i \in 1 .. k : i = k \/ i \in 1 .. k - 1
      OBVIOUS
    <3>2. \A i \in 1 .. k - 1 : i \in 1 .. k
      OBVIOUS
    <3>3. k \in 1 .. k
      OBVIOUS
    <3> QED BY <3>1, <3>2, <3>3
  <2>3. List(before) /\ Settled(before) /\ ToSet(before) = Upto(k - 1)
    BY <1>4
  <2>4. \A o \in Upto(k - 1) : ~Displaces(v, o)
    BY <1>2 DEF Settled, n
  <2> HIDE DEF before, after, v, Upto
  <2>5. /\ List(after) /\ Settled(after)
        /\ ToSet(after) = {o \in ToSet(before) : ~Displaces(v, o)} \cup {v}
    BY <2>1, <2>3, ReplacedIs
  <2>6. ToSet(after) = Upto(k)
    BY <2>2, <2>3, <2>4, <2>5
  <2> QED BY <2>5, <2>6 DEF after
<1>5. Holds(0)
  <2>1. List(<<>>) /\ ToSet(<<>>) = {} /\ Settled(<<>>)
    BY DEF List, ToSet, Settled
  <2>2. Upto(0) = {}
    OBVIOUS
  <2> HIDE DEF Upto
  <2> QED BY <1>9, <2>1, <2>2
<1> HIDE DEF Holds
<1>6. Bad = {}
  <2> SUFFICES ASSUME Bad # {} PROVE FALSE
    OBVIOUS
  <2>1. PICK k \in Bad : \A j \in Bad : k <= j
    <3>1. Bad \subseteq Nat
      OBVIOUS
    <3> HIDE DEF Bad
    <3> QED BY <3>1, LeastNat
  <2>2. k \in 1 .. n /\ k - 1 \in 0 .. n
    BY <1>2, <1>5
  <2>3. Holds(k - 1)
    BY <2>1, <2>2
  <2> QED BY <1>4, <2>2, <2>3
<1>7. List(out[n]) /\ Settled(out[n]) /\ ToSet(out[n]) = ToSet(verbs)
  <2>1. Holds(n)
    BY <1>2, <1>6
  <2>2. Upto(n) = ToSet(verbs)
    BY <1>2
  <2> QED BY <2>1, <2>2 DEF Holds
<1>8. AddVerb(verbs, w) = Append(Displaced(w, out[n]), w)
  <2>1. n + 1 \in 1 .. n + 1 /\ (n + 1) - 1 = n
    BY <1>2
  <2>2. out[n + 1] = Append(Displaced(all[n + 1], out[(n + 1) - 1]), all[n + 1])
    BY <1>9, <2>1
  <2> QED BY <1>3, <1>9, <2>1, <2>2
<1> QED BY <1>7, <1>8, ReplacedIs

\* A context whose command is a settled list of verbs.
WellBuilt(c) == IsContext(c) /\ List(c.verbs) /\ Settled(c.verbs)

\* What one verb does to the command.
LEMMA BuildCommands ==
  ASSUME NEW c, WellBuilt(c), NEW w
  PROVE  LET d == BuildVerb(c, w)
         IN /\ WellBuilt(d)
            /\ ToSet(d.verbs) = IF w.v = "derive" THEN ToSet(c.verbs)
                                ELSE {o \in ToSet(c.verbs) : ~Displaces(w, o)} \cup {w}
<1> DEFINE u == UpdateContext(c, w)
           d == BuildVerb(c, w)
<1>1. IsContext(u) /\ u.verbs = c.verbs
  BY DEF WellBuilt, IsContext, UpdateContext
<1>2. d = IF w.v = "derive" THEN u ELSE [u EXCEPT !.verbs = AddVerb(c.verbs, w)]
  BY <1>1 DEF BuildVerb, u
<1> HIDE DEF u, d
<1> DEFINE more == AddVerb(c.verbs, w)
<1>3. /\ List(more) /\ Settled(more)
      /\ ToSet(more) = {o \in ToSet(c.verbs) : ~Displaces(w, o)} \cup {w}
  BY AddIs DEF WellBuilt
<1> HIDE DEF more
<1>4. CASE w.v = "derive"
  BY <1>1, <1>2, <1>4 DEF WellBuilt, d
<1>5. CASE w.v # "derive"
  <2>1. IsContext(d) /\ d.verbs = more
    BY <1>1, <1>2, <1>5 DEF IsContext, more
  <2> QED BY <1>3, <1>5, <2>1 DEF WellBuilt, d
<1> QED BY <1>4, <1>5

\* A verb that no later one displaces stays to the end.
Given(x, i, base, seq) ==
  IF i = 0 THEN x \in ToSet(base.verbs) ELSE x = seq[i] /\ x.v # "derive"
Lasts(x, i, k, seq) == \A j \in i + 1 .. k : ~Displaces(seq[j], x)

\* A verb that was given, by the context or by the statement itself, is in
\* the command at its end when no later verb of the statement displaces it.
LEMMA FoldKeeps ==
  ASSUME NEW seq, NEW n, HasLength(seq, n), NEW base, WellBuilt(base)
  PROVE  LET end == BuildVerbs(base, seq)
         IN /\ WellBuilt(end)
            /\ \A x : \A i \in 0 .. n :
                 Given(x, i, base, seq) /\ Lasts(x, i, n, seq) => x \in ToSet(end.verbs)
<1>1. PICK ctx : /\ ctx[0] = base /\ ctx[n] = BuildVerbs(base, seq)
                 /\ \A k \in 1 .. n : ctx[k] = BuildVerb(ctx[k - 1], seq[k])
  BY BuildSteps
<1>2. n \in Nat
  BY DEF HasLength
<1> DEFINE Holds(k) == /\ WellBuilt(ctx[k])
                       /\ \A x : \A i \in 0 .. k :
                            Given(x, i, base, seq) /\ Lasts(x, i, k, seq) => x \in ToSet(ctx[k].verbs)
           Bad == {k \in 0 .. n : ~Holds(k)}
<1>3. ASSUME NEW k \in 1 .. n, Holds(k - 1)
      PROVE  Holds(k)
  <2> DEFINE c == ctx[k - 1]
             w == seq[k]
             d == ctx[k]
  <2>1. d = BuildVerb(c, w) /\ WellBuilt(c)
    BY <1>1, <1>3
  <2>2. \A x : \A i \in 0 .. k - 1 :
          Given(x, i, base, seq) /\ Lasts(x, i, k - 1, seq) => x \in ToSet(c.verbs)
    BY <1>3
  <2> HIDE DEF c, d
  <2>3. WellBuilt(d) /\ ToSet(d.verbs) = IF w.v = "derive" THEN ToSet(c.verbs)
                                         ELSE {o \in ToSet(c.verbs) : ~Displaces(w, o)} \cup {w}
    BY <2>1, BuildCommands
  <2>4. ASSUME NEW x, NEW i \in 0 .. k, Given(x, i, base, seq), Lasts(x, i, k, seq)
        PROVE  x \in ToSet(d.verbs)
    <3>1. CASE i = k
      <4>1. x = w /\ w.v # "derive"
        BY <2>4, <3>1 DEF Given
      <4> HIDE DEF w
      <4> QED BY <2>3, <4>1
    <3>2. CASE i # k
      <4>1. i \in 0 .. k - 1 /\ k \in i + 1 .. k /\ \A j \in i + 1 .. k - 1 : j \in i + 1 .. k
        BY <3>2
      <4>2. Lasts(x, i, k - 1, seq) /\ ~Displaces(w, x)
        BY <2>4, <4>1 DEF Lasts
      <4>3. x \in ToSet(c.verbs)
        BY <2>2, <2>4, <4>1, <4>2
      <4> HIDE DEF w
      <4> QED BY <2>3, <4>2, <4>3
    <3> QED BY <3>1, <3>2
  <2> QED BY <2>3, <2>4 DEF d
<1>4. Holds(0)
  <2>1. \A i \in 0 .. 0 : i = 0
    OBVIOUS
  <2> QED BY <1>1, <2>1 DEF Given
<1> HIDE DEF Holds
<1>5. Bad = {}
  <2> SUFFICES ASSUME Bad # {} PROVE FALSE
    OBVIOUS
  <2>1. PICK k \in Bad : \A j \in Bad : k <= j
    <3>1. Bad \subseteq Nat
      OBVIOUS
    <3> HIDE DEF Bad
    <3> QED BY <3>1, LeastNat
  <2>2. k \in 1 .. n /\ k - 1 \in 0 .. n
    BY <1>2, <1>4
  <2>3. Holds(k - 1)
    BY <2>1, <2>2
  <2> QED BY <1>3, <2>2, <2>3
<1>6. Holds(n)
  BY <1>2, <1>5
<1> QED BY <1>1, <1>6 DEF Holds

-----------------------------------------------------------------------------
(* What a statement is told by its verbs and those around it.              *)

TypeKinds == {"type", "type filter", "any"}
Rulers(S) == With(S, TypeKinds)
Ruling(S) == LastOf(Nearest(Rulers(S)), TypeKinds)

\* A context keeps every ignore of some statements, and of the verbs that
\* rule on the type the last one of the nearest, if it is near or handed down.
Keeps(c, S, near) ==
  /\ WellBuilt(c)
  /\ \A t \in S : \A k \in DOMAIN VerbsAt(t) :
       VerbsAt(t)[k].v = "ignore" => VerbsAt(t)[k] \in ToSet(c.verbs)
  /\ Rulers(S) # {} /\ (near \/ Ruling(S).inherit) => Ruling(S) \in ToSet(c.verbs)

\* The verb that rules the types of some statements is one of theirs.
LEMMA RulingIs ==
  ASSUME Parsed, Statements # {}, NEW S, S \subseteq Statements \cup {0}, Rulers(S) # {}
  PROVE  /\ Nearest(Rulers(S)) \in S
         /\ \E k \in DOMAIN VerbsAt(Nearest(Rulers(S))) : Ruling(S) = VerbsAt(Nearest(Rulers(S)))[k]
         /\ Ruling(S).v \in TypeKinds
<1> DEFINE R == Rulers(S)
           t == Nearest(R)
           at == Places(VerbsAt(t), TypeKinds)
<1>1. q.n \in Nat /\ S \subseteq 0 .. q.n /\ R \subseteq S
  BY ParsedShape DEF Statements, Rulers, With
<1>2. t \in R
  <2>1. R \subseteq 0 .. q.n /\ R # {}
    BY <1>1
  <2> HIDE DEF R
  <2> QED BY <1>1, <2>1, NearestIs
<1>3. t \in S /\ at # {}
  BY <1>2 DEF Rulers, With
<1>4. PICK n : HasLength(VerbsAt(t), n)
  <2>1. t \in Statements \cup {0}
    BY <1>3
  <2> HIDE DEF t
  <2> QED BY <2>1, VerbsLength
<1>5. Nearest(at) \in at
  <2>1. at \subseteq 0 .. n /\ n \in Nat
    BY <1>4 DEF HasLength, Places
  <2> HIDE DEF at
  <2> QED BY <1>3, <2>1, NearestIs
<1>6. Ruling(S) = VerbsAt(t)[Nearest(at)]
  BY DEF Ruling, LastOf
<1> HIDE DEF t
<1> QED BY <1>3, <1>5, <1>6 DEF Places, t

\* A scope takes over what is handed down.
LEMMA DeriveKeeps ==
  ASSUME Parsed, Statements # {}, NEW S, S \subseteq Statements \cup {0},
         NEW c, NEW near, Keeps(c, S, near)
  PROVE  Keeps(Derive(c), S, FALSE) /\ Keeps(Derive(OpenScope(c)), S, FALSE)
<1> DEFINE kept == {w \in ToSet(c.verbs) : IsClone(w)}
           some == Retain(c.verbs, kept)
<1>1. IsContext(c) /\ List(c.verbs) /\ Settled(c.verbs)
  BY DEF Keeps, WellBuilt
<1>2. /\ IsContext(Derive(c)) /\ Derive(c).verbs = some
      /\ IsContext(Derive(OpenScope(c))) /\ Derive(OpenScope(c)).verbs = some
  <2> DEFINE o == OpenScope(c)
  <2>1. IsContext(o) /\ o.verbs = c.verbs
    <3> DEFINE rel == IF c.modified THEN c.rel ELSE {"refs", "has"}
    <3>1. o = [c EXCEPT !.rel = rel, !.types = {}]
      BY DEF OpenScope
    <3> HIDE DEF o, rel
    <3> QED BY <1>1, <3>1 DEF IsContext
  <2>2. Derive(c) = [c EXCEPT !.verbs = some, !.modified = c.hands]
    BY DEF Derive
  <2> HIDE DEF o
  <2>3. Derive(o) = [o EXCEPT !.verbs = some, !.modified = o.hands]
    BY <2>1 DEF Derive
  <2> HIDE DEF some
  <2>4. IsContext(Derive(c)) /\ Derive(c).verbs = some
    BY <1>1, <2>2 DEF IsContext
  <2>5. IsContext(Derive(o)) /\ Derive(o).verbs = some
    BY <2>1, <2>3 DEF IsContext
  <2> QED BY <2>4, <2>5 DEF o
<1>3. List(some) /\ Settled(some) /\ ToSet(some) = ToSet(c.verbs) \cap kept
  <2> HIDE DEF kept
  <2> QED BY <1>1, RetainIs
<1>4. ToSet(some) = kept
  BY <1>3
<1>5. ASSUME NEW t \in S, NEW k \in DOMAIN VerbsAt(t), VerbsAt(t)[k].v = "ignore"
      PROVE  VerbsAt(t)[k] \in ToSet(some)
  <2>1. VerbsAt(t)[k] \in ToSet(c.verbs)
    BY <1>5 DEF Keeps
  <2> QED BY <1>4, <1>5, <2>1 DEF IsClone
<1>6. ASSUME Rulers(S) # {}, Ruling(S).inherit
      PROVE  Ruling(S) \in ToSet(some)
  <2>1. Ruling(S) \in ToSet(c.verbs) /\ Ruling(S).v \in TypeKinds
    BY <1>6, RulingIs DEF Keeps
  <2> QED BY <1>4, <1>6, <2>1 DEF IsClone, TypeKinds
<1> HIDE DEF some
<1> QED BY <1>2, <1>3, <1>5, <1>6 DEF Keeps, WellBuilt

\* A statement adds its own verbs to what it was told.
LEMMA BuildKeeps ==
  ASSUME Parsed, Statements # {}, NEW t \in Statements \cup {0},
         NEW A, A \subseteq Statements \cup {0}, A \subseteq 0 .. t - 1,
         NEW base, Keeps(base, A, FALSE)
  PROVE  LET S == {t} \cup A
         IN Keeps(BuildVerbs(base, VerbsAt(t)), S, Nearest(Rulers(S)) = t)
<1> DEFINE S == {t} \cup A
           verbs == VerbsAt(t)
           end == BuildVerbs(base, verbs)
           at == Places(verbs, TypeKinds)
<1>1. PICK n : HasLength(verbs, n)
  BY VerbsLength
<1>2. n \in Nat /\ DOMAIN verbs = 1 .. n /\ t \in Nat
  BY <1>1, ParsedShape DEF HasLength, Statements
<1> HIDE DEF verbs, end
<1>3. /\ WellBuilt(end)
      /\ \A x : \A i \in 0 .. n :
           Given(x, i, base, verbs) /\ Lasts(x, i, n, verbs) => x \in ToSet(end.verbs)
  BY <1>1, FoldKeeps DEF Keeps, end
<1>4. ASSUME NEW u \in S, NEW k \in DOMAIN VerbsAt(u), VerbsAt(u)[k].v = "ignore"
      PROVE  VerbsAt(u)[k] \in ToSet(end.verbs)
  <2> DEFINE x == VerbsAt(u)[k]
  <2>1. \A i \in 0 .. n : Lasts(x, i, n, verbs)
    BY <1>4 DEF Lasts, Displaces, Suppresses
  <2>2. CASE u = t
    <3>1. k \in 0 .. n /\ Given(x, k, base, verbs)
      BY <1>2, <1>4, <2>2 DEF Given, verbs
    <3> QED BY <1>3, <2>1, <3>1
  <2>3. CASE u # t
    <3>1. u \in A
      BY <2>3
    <3>2. 0 \in 0 .. n /\ Given(x, 0, base, verbs)
      BY <1>2, <1>4, <3>1 DEF Given, Keeps
    <3> QED BY <1>3, <2>1, <3>2
  <2> QED BY <2>2, <2>3
<1>5. ASSUME NEW x, x.v \in TypeKinds, NEW j \in 1 .. n, Displaces(verbs[j], x)
      PROVE  j \in at
  BY <1>2, <1>5 DEF Displaces, Suppresses, TypeKinds, Places
<1>6. Rulers(S) = Rulers(A) \cup (IF at = {} THEN {} ELSE {t})
  BY DEF Rulers, With, verbs
<1>7. ASSUME Rulers(S) # {}, Nearest(Rulers(S)) = t \/ Ruling(S).inherit
      PROVE  Ruling(S) \in ToSet(end.verbs)
  <2>1. CASE at = {}
    <3>1. Rulers(S) = Rulers(A) /\ Ruling(S) = Ruling(A) /\ Rulers(A) # {}
      BY <1>6, <1>7, <2>1 DEF Ruling
    <3>2. Nearest(Rulers(A)) # t /\ Ruling(A).v \in TypeKinds
      <4>1. Nearest(Rulers(A)) \in A /\ Ruling(A).v \in TypeKinds
        BY <3>1, RulingIs
      <4>2. t \notin A
        BY <1>2
      <4> QED BY <4>1, <4>2
    <3>3. Ruling(A) \in ToSet(base.verbs)
      BY <1>7, <3>1, <3>2 DEF Keeps
    <3>4. 0 \in 0 .. n /\ Given(Ruling(A), 0, base, verbs)
      BY <1>2, <3>3 DEF Given
    <3>5. Lasts(Ruling(A), 0, n, verbs)
      <4> SUFFICES ASSUME NEW j \in 1 .. n PROVE ~Displaces(verbs[j], Ruling(A))
        BY DEF Lasts
      <4> QED BY <1>5, <2>1, <3>2
    <3> QED BY <1>3, <3>1, <3>4, <3>5
  <2>2. CASE at # {}
    <3> DEFINE i == Nearest(at)
    <3>1. i \in at /\ \A j \in at : j <= i
      <4>1. at \subseteq 0 .. n
        BY <1>2 DEF Places
      <4> HIDE DEF at
      <4> QED BY <1>2, <2>2, <4>1, NearestIs
    <3>2. Nearest(Rulers(S)) = t
      <4>1. t \in Rulers(S) /\ Rulers(S) \subseteq S
        BY <1>6, <2>2 DEF Rulers, With
      <4>2. \A u \in S : u \in Nat /\ u <= t
        BY <1>2
      <4> HIDE DEF S
      <4>3. \A u \in Rulers(S) : (\A v \in Rulers(S) : v <= u) => u = t
        <5>1. \A u \in Rulers(S) : u \in Nat /\ u <= t
          BY <4>1, <4>2
        <5> QED BY <1>2, <4>1, <5>1
      <4>4. \A u \in Rulers(S) : u <= t
        BY <4>1, <4>2
      <4> QED BY <4>1, <4>3, <4>4 DEF Nearest
    <3>3. Ruling(S) = verbs[i]
      <4> HIDE DEF S
      <4> QED BY <3>2 DEF Ruling, LastOf, verbs
    <3>4. i \in 1 .. n /\ verbs[i].v \in TypeKinds
      BY <1>2, <3>1 DEF Places
    <3> HIDE DEF i, at
    <3>5. i \in 0 .. n /\ Given(verbs[i], i, base, verbs)
      <4>1. i # 0 /\ i \in 0 .. n
        BY <1>2, <3>4
      <4>2. verbs[i].v # "derive"
        BY <3>4 DEF TypeKinds
      <4> QED BY <4>1, <4>2 DEF Given
    <3>6. Lasts(verbs[i], i, n, verbs)
      <4> SUFFICES ASSUME NEW j \in i + 1 .. n, Displaces(verbs[j], verbs[i]) PROVE FALSE
        BY DEF Lasts
      <4>1. j \in 1 .. n /\ ~(j <= i)
        BY <1>2, <3>4
      <4>2. j \in at
        BY <1>5, <3>4, <4>1
      <4> QED BY <3>1, <4>1, <4>2
    <3> QED BY <1>3, <3>3, <3>5, <3>6
  <2> QED BY <2>1, <2>2
<1> HIDE DEF S
<1>8. Keeps(end, S, Nearest(Rulers(S)) = t)
  BY <1>3, <1>4, <1>7 DEF Keeps
<1> QED BY <1>8 DEF S, end, verbs

EntryKeeps(s) == Keeps(Entry(Source, s), Enclosing(s), FALSE)
ExitKeeps(s) ==
  LET S == {s} \cup Enclosing(s)
  IN Keeps(Exits(Source)[s], S, Nearest(Rulers(S)) = s)

\* What encloses a statement comes before it.
LEMMA EnclosingWithin ==
  ASSUME Parsed, NEW s \in Statements
  PROVE  Enclosing(s) \subseteq 0 .. s - 1 /\ Enclosing(s) \subseteq Statements \cup {0}
<1>1. q.n \in Nat /\ s \in 1 .. q.n
  BY ParsedShape DEF Statements
<1>2. Enclosing(s) \subseteq 0 .. s - 1
  BY Encloses
<1>3. \A t \in 0 .. s - 1 : t \in 1 .. q.n \/ t = 0
  BY <1>1
<1> QED BY <1>2, <1>3 DEF Statements

\* A statement is left with what it was entered with and its own verbs.
LEMMA ExitKeepsAll ==
  ASSUME Parsed, NEW s \in Statements, EntryKeeps(s)
  PROVE  ExitKeeps(s)
<1> DEFINE base == Entry(Source, s)
           end == Exits(Source)[s]
           A == Enclosing(s)
<1>1. end = BuildVerbs(base, VerbsAt(s))
  <2>1. s > 0 /\ s \in DOMAIN Source
    BY ParsedShape DEF Statements
  <2> QED BY <2>1, ExitOf DEF Parsed, Own, VerbsAt, Verbs
<1>2. A \subseteq 0 .. s - 1 /\ A \subseteq Statements \cup {0} /\ Keeps(base, A, FALSE)
  BY EnclosingWithin DEF EntryKeeps
<1> HIDE DEF base, end, A
<1> DEFINE S == {s} \cup A
<1>3. Keeps(end, S, Nearest(Rulers(S)) = s)
  <2>1. s \in Statements \cup {0} /\ Statements # {}
    OBVIOUS
  <2> QED BY <1>1, <1>2, <2>1, BuildKeeps
<1> QED BY <1>3 DEF ExitKeeps, end, A

\* A scope is entered with what its statement was left with.
LEMMA EntryKeepsScope ==
  ASSUME Parsed, NEW s \in Statements, q.parent[s] # 0, ExitKeeps(q.parent[s])
  PROVE  EntryKeeps(s)
<1> DEFINE p == q.parent[s]
           c == Exits(Source)[p]
           S == {p} \cup Enclosing(p)
<1>1. p \in Statements /\ Source[s].parent = p /\ (s = 1 => FALSE)
  BY ParsedShape DEF Statements
<1>2. Enclosing(s) = S
  BY <1>1, Encloses
<1>3. Entry(Source, s) = Derive(OpenScope(c))
  BY <1>1 DEF Entry
<1>4. S \subseteq Statements \cup {0}
  BY <1>1, EnclosingWithin
<1>5. Keeps(c, S, Nearest(Rulers(S)) = p)
  BY DEF ExitKeeps
<1> HIDE DEF S, c, p
<1>6. Keeps(Derive(OpenScope(c)), S, FALSE)
  BY <1>1, <1>4, <1>5, DeriveKeeps
<1> QED BY <1>2, <1>3, <1>6 DEF EntryKeeps

\* The top level is entered with what the preamble says.
LEMMA EntryKeepsTop ==
  ASSUME Parsed, NEW s \in Statements, q.parent[s] = 0
  PROVE  EntryKeeps(s)
<1> DEFINE g == GlobalFor(Source, s)
           A == Enclosing(s)
<1>1. s \in Nat /\ s # 0 /\ Source[s].parent = 0 /\ Statements # {}
  BY ParsedShape DEF Statements
<1>2. Entry(Source, s) = Derive(g)
  BY <1>1 DEF Entry
<1>3. Keeps(Global, {}, FALSE)
  <2>1. WellBuilt(Global)
    <3>1. Global.verbs = <<>> /\ IsContext(Global)
      BY DEF Global, IsContext
    <3>2. List(<<>>) /\ Settled(<<>>)
      BY DEF List, ToSet, Settled
    <3> QED BY <3>1, <3>2 DEF WellBuilt
  <2>2. Rulers({}) = {}
    BY DEF Rulers, With
  <2> QED BY <2>1, <2>2 DEF Keeps
<1>4. A = IF s = 1 /\ IsPreamble(Source[1]) THEN {} ELSE {0}
  BY Encloses
<1> HIDE DEF g, A
<1>5. \E near : Keeps(g, A, near)
  <2>1. CASE s > 1 /\ IsPreamble(Source[1])
    <3>1. g = BuildVerbs(Global, VerbsAt(0)) /\ A = {0} \cup {}
      BY <1>4, <2>1 DEF GlobalFor, VerbsAt, g
    <3>2. 0 \in Statements \cup {0} /\ {} \subseteq Statements \cup {0} /\ {} \subseteq 0 .. 0 - 1
      OBVIOUS
    <3>3. Keeps(BuildVerbs(Global, VerbsAt(0)), {0} \cup {}, Nearest(Rulers({0} \cup {})) = 0)
      BY <1>1, <1>3, <3>2, BuildKeeps
    <3> QED BY <3>1, <3>3
  <2>2. CASE s = 1 /\ IsPreamble(Source[1])
    <3>1. g = Global /\ A = {}
      BY <1>4, <2>2 DEF GlobalFor, g
    <3>2. Keeps(g, A, FALSE)
      BY <1>3, <3>1
    <3> QED BY <3>2
  <2>3. CASE ~IsPreamble(Source[1])
    <3>1. g = Global /\ A = {0} /\ VerbsAt(0) = <<>>
      BY <1>4, <2>3 DEF GlobalFor, VerbsAt, g
    <3>2. Rulers({0}) = {} /\ DOMAIN VerbsAt(0) = {}
      BY <3>1 DEF Rulers, With, Places
    <3>3. Keeps(Global, {0}, FALSE)
      BY <1>3, <3>2 DEF Keeps
    <3> QED BY <3>1, <3>3
  <2>4. s = 1 \/ s > 1
    BY <1>1
  <2> QED BY <2>1, <2>2, <2>3, <2>4
<1>6. A \subseteq Statements \cup {0}
  BY <1>4
<1>7. Keeps(Derive(g), A, FALSE)
  BY <1>1, <1>5, <1>6, DeriveKeeps
<1> QED BY <1>2, <1>7 DEF EntryKeeps, A

\* Every statement is left with the filters that hold for it.
LEMMA EveryExitKeeps ==
  ASSUME Parsed
  PROVE  \A s \in Statements : ExitKeeps(s)
<1> DEFINE Bad == {s \in Statements : ~EntryKeeps(s)}
<1>1. Statements \subseteq Nat /\ \A s \in Statements : q.parent[s] \in 0 .. s - 1
  BY ParsedShape DEF Statements
<1>2. Bad = {}
  <2> SUFFICES ASSUME Bad # {} PROVE FALSE
    OBVIOUS
  <2>1. PICK s \in Bad : \A t \in Bad : s <= t
    <3>1. Bad \subseteq Nat
      BY <1>1
    <3> HIDE DEF Bad
    <3> QED BY <3>1, LeastNat
  <2>2. CASE q.parent[s] = 0
    BY <2>1, <2>2, EntryKeepsTop
  <2>3. CASE q.parent[s] # 0
    <3>1. q.parent[s] \in Statements /\ q.parent[s] < s
      BY <1>1, <2>1, <2>3, ParsedShape DEF Statements
    <3>2. EntryKeeps(q.parent[s])
      BY <1>1, <2>1, <3>1
    <3> QED BY <2>1, <2>3, <3>1, <3>2, ExitKeepsAll, EntryKeepsScope
  <2> QED BY <2>2, <2>3
<1> QED BY <1>2, ExitKeepsAll

\* The command of a statement has every verb that it was left with.
LEMMA CommandKeeps ==
  ASSUME Parsed, NEW s \in Statements
  PROVE  ToSet(Exits(Source)[s].verbs) \subseteq ToSet(Command(Source, s))
<1> DEFINE own == Exits(Source)[s].verbs
           filter == DefaultTypeFilter(Entry(Source, s).types)
           typed == IF Entry(Source, s).types # {} /\ ~ \E i \in DOMAIN own : Suppresses(own[i])
                    THEN AddVerb(own, filter) ELSE own
<1>1. List(own) /\ Settled(own)
  BY EveryExitKeeps DEF ExitKeeps, Keeps, WellBuilt
<1>2. \A types, o : ~Displaces(DefaultTypeFilter(types), o) /\ ~Displaces(UnitVerb, o)
  BY DEF Displaces, DefaultTypeFilter, UnitVerb, PlainVerb
<1>3. Command(Source, s) = IF \E i \in DOMAIN typed : IsSelector(typed[i]) THEN typed
                           ELSE AddVerb(typed, UnitVerb)
  BY DEF Command
<1> HIDE DEF own
<1>4. List(typed) /\ Settled(typed) /\ ToSet(own) \subseteq ToSet(typed)
  <2> DEFINE more == AddVerb(own, filter)
  <2>1. /\ List(more) /\ Settled(more)
        /\ ToSet(more) = {o \in ToSet(own) : ~Displaces(filter, o)} \cup {filter}
    <3> HIDE DEF filter
    <3> QED BY <1>1, AddIs
  <2>2. \A o : ~Displaces(filter, o)
    BY <1>2
  <2> HIDE DEF more, filter
  <2>3. ToSet(own) \subseteq ToSet(more)
    BY <2>1, <2>2
  <2>4. typed = more \/ typed = own
    BY DEF more
  <2> HIDE DEF typed
  <2> QED BY <1>1, <2>1, <2>3, <2>4
<1> HIDE DEF typed
<1> DEFINE more == AddVerb(typed, UnitVerb)
<1>5. ToSet(more) = {o \in ToSet(typed) : ~Displaces(UnitVerb, o)} \cup {UnitVerb}
  BY <1>4, AddIs
<1>6. Command(Source, s) = typed \/ Command(Source, s) = more
  BY <1>3
<1> HIDE DEF more
<1> QED BY <1>2, <1>4, <1>5, <1>6 DEF own

\* The verbs of a query are those of its source.
LEMMA AnyIsAny ==
  ASSUME Parsed, NEW t \in Statements \cup {0}, Statements # {},
         NEW k \in DOMAIN VerbsAt(t), VerbsAt(t)[k].v = "any"
  PROVE  VerbsAt(t)[k] = AnyModifier
<1>1. /\ 1 \in Statements /\ \A v \in Statements : v > 0
      /\ \A v \in Statements : /\ Source[v].verbs \in Seq(ToSet(Source[v].verbs))
                               /\ \A w \in ToSet(Source[v].verbs) : w.v = "any" => w = AnyModifier
  BY ParsedShape DEF Parsed, IsForest, Statements
<1>2. ASSUME NEW v \in Statements, NEW i \in DOMAIN Source[v].verbs, Source[v].verbs[i].v = "any"
      PROVE  Source[v].verbs[i] = AnyModifier
  BY <1>1, <1>2 DEF ToSet
<1>3. CASE t \in Statements
  <2>1. VerbsAt(t) = IF IsPreamble(Source[t]) THEN <<>> ELSE Source[t].verbs
    BY <1>1, <1>3 DEF VerbsAt, Verbs
  <2>2. VerbsAt(t) = Source[t].verbs
    BY <2>1
  <2> QED BY <1>2, <1>3, <2>2
<1>4. CASE t = 0
  <2> DEFINE verbs == Source[1].verbs
             V == ToSet(verbs)
  <2>1. VerbsAt(t) = IF IsPreamble(Source[1]) THEN Tail(verbs) ELSE <<>>
    BY <1>4 DEF VerbsAt
  <2>2. IsPreamble(Source[1]) /\ VerbsAt(t) = Tail(verbs)
    BY <2>1
  <2>3. verbs \in Seq(V) /\ verbs # <<>>
    BY <1>1, <2>2 DEF IsPreamble
  <2> HIDE DEF verbs, V
  <2>4. k \in DOMAIN Tail(verbs)
    BY <2>2
  <2>5. Tail(verbs)[k] = verbs[k + 1] /\ k + 1 \in DOMAIN verbs
    BY <2>3, <2>4
  <2> QED BY <1>1, <1>2, <2>2, <2>5 DEF verbs
<1> QED BY <1>3, <1>4

\* A statement accepts nothing that one of its filters refuses.
LEMMA FilterHolds ==
  ASSUME Parsed, NEW s \in Statements, NEW x \in ToSet(Exits(Source)[s].verbs), IsFilter(x)
  PROVE  /\ q.accept[s].names \subseteq CompositeFilter(x).names
         /\ q.accept[s].types \subseteq CompositeFilter(x).types
<1> DEFINE verbs == Command(Source, s)
<1>1. q.accept[s] = Accepting(verbs)
  <2>1. q.accept = [v \in DOMAIN Source |-> Accepting(Command(Source, v))]
    BY DEF Parsed, BuildQuery
  <2> QED BY <2>1, ParsedShape
<1>2. x \in ToSet(verbs)
  BY CommandKeeps
<1> HIDE DEF verbs
<1> QED BY <1>1, <1>2 DEF Accepting

\* A statement accepts no name that an ignore around it excludes.
LEMMA IgnoresHold ==
  ASSUME Parsed, NEW s \in Statements, NEW t \in Enclosing(s) \cup {s},
         NEW k \in DOMAIN VerbsAt(t), VerbsAt(t)[k].v = "ignore"
  PROVE  q.accept[s].names \subseteq VerbsAt(t)[k].names
<1> DEFINE x == VerbsAt(t)[k]
<1>1. x \in ToSet(Exits(Source)[s].verbs)
  BY EveryExitKeeps DEF ExitKeeps, Keeps
<1>2. IsFilter(x) /\ CompositeFilter(x).names = x.names
  BY DEF IsFilter, CompositeFilter
<1> HIDE DEF x
<1> QED BY <1>1, <1>2, FilterHolds DEF x

\* A statement accepts the types of its own last type verb, or of the
\* nearest inherited one.
LEMMA TypesHold ==
  ASSUME Parsed, NEW s \in Statements
  PROVE  LET own == With({s}, TypeKinds)
             out == With(Enclosing(s), TypeKinds)
             verb == LastOf(IF own # {} THEN s ELSE Nearest(out), TypeKinds)
         IN own # {} \/ (out # {} /\ verb.inherit)
              => q.accept[s].types \subseteq CompositeFilter(verb).types
<1> DEFINE own == With({s}, TypeKinds)
           out == With(Enclosing(s), TypeKinds)
           verb == LastOf(IF own # {} THEN s ELSE Nearest(out), TypeKinds)
           S == {s} \cup Enclosing(s)
<1> SUFFICES ASSUME own # {} \/ (out # {} /\ verb.inherit)
             PROVE  q.accept[s].types \subseteq CompositeFilter(verb).types
  OBVIOUS
<1>1. /\ S \subseteq Statements \cup {0} /\ Rulers(S) = own \cup out
      /\ out \subseteq 0 .. s - 1 /\ s \in Nat /\ own \subseteq {s}
  BY EnclosingWithin, ParsedShape DEF Rulers, With, Statements
<1>2. own # {} => own = {s} /\ Nearest(Rulers(S)) = s
  <2> SUFFICES ASSUME own # {} PROVE own = {s} /\ Nearest(Rulers(S)) = s
    OBVIOUS
  <2> HIDE DEF own, out, S
  <2>1. own = {s}
    BY <1>1
  <2>2. s \in Rulers(S) /\ \A u \in Rulers(S) : u \in Nat /\ u <= s
    <3>1. \A u \in out : u \in Nat /\ u <= s
      BY <1>1
    <3>2. \A u \in own : u = s
      BY <1>1
    <3>3. Rulers(S) = own \cup out /\ s \in Nat /\ s <= s
      BY <1>1
    <3> QED BY <2>1, <3>1, <3>2, <3>3
  <2>3. \A u \in Rulers(S) : (\A v \in Rulers(S) : v <= u) => u = s
    BY <2>2
  <2> QED BY <2>1, <2>2, <2>3 DEF Nearest
<1>3. own = {} => Rulers(S) = out
  BY <1>1
<1>4. Rulers(S) # {} /\ Ruling(S) = verb /\ (Nearest(Rulers(S)) = s \/ Ruling(S).inherit)
  <2>1. CASE own # {}
    <3>1. verb = LastOf(s, TypeKinds)
      BY <2>1
    <3> HIDE DEF own, out, verb, S
    <3> QED BY <1>1, <1>2, <2>1, <3>1 DEF Ruling
  <2>2. CASE own = {}
    <3>1. verb = LastOf(Nearest(out), TypeKinds) /\ out # {} /\ verb.inherit
      BY <2>2
    <3> HIDE DEF own, out, verb, S
    <3> QED BY <1>3, <2>2, <3>1 DEF Ruling
  <2> QED BY <2>1, <2>2
<1> HIDE DEF own, out, verb
<1>5. verb \in ToSet(Exits(Source)[s].verbs)
  BY <1>4, EveryExitKeeps DEF ExitKeeps, Keeps
<1>6. /\ Nearest(Rulers(S)) \in Statements \cup {0} /\ verb.v \in TypeKinds
      /\ \E k \in DOMAIN VerbsAt(Nearest(Rulers(S))) : verb = VerbsAt(Nearest(Rulers(S)))[k]
  <2> HIDE DEF S
  <2>1. Statements # {}
    OBVIOUS
  <2> QED BY <1>1, <1>4, <2>1, RulingIs
<1>7. CASE verb.v = "any"
  <2>1. verb = AnyModifier
    <3> HIDE DEF S
    <3> QED BY <1>6, <1>7, AnyIsAny
  <2>2. CompositeFilter(verb).types = Types
    BY <2>1 DEF AnyModifier, PlainVerb, CompositeFilter
  <2>3. q.accept[s] = Accepting(Command(Source, s))
    <3>1. q.accept = [v \in DOMAIN Source |-> Accepting(Command(Source, v))]
      BY DEF Parsed, BuildQuery
    <3> QED BY <3>1, ParsedShape
  <2>4. q.accept[s].types \subseteq Types
    BY <2>3 DEF Accepting
  <2> QED BY <2>2, <2>4 DEF verb, own, out
<1>8. CASE verb.v # "any"
  <2>1. IsFilter(verb)
    BY <1>6, <1>8 DEF IsFilter, TypeKinds
  <2> QED BY <1>5, <2>1, FilterHolds DEF verb, own, out
<1> QED BY <1>7, <1>8

-----------------------------------------------------------------------------
(* The executor stores nothing but what its statement accepts.             *)

Passed(s, x) == \A i \in x.nodes : Accepts(q.accept[s], i)
AllPassed == Plain => \A s \in Statements : \A x \in reg[s][1] : Passed(s, x)

\* What a query loads has passed its filter.
LEMMA QueryPasses ==
  ASSUME NEW s, NEW matching, \A i \in matching : Accepts(q.accept[s], i),
         NEW parents, NEW children, NEW layers
  PROVE  Passed(s, FindSymbol(matching, parents, children, layers))
<1>1. FindSymbol(matching, parents, children, layers).nodes = matching \cap LoadCurrent(layers)
  BY DEF FindSymbol
<1> QED BY <1>1 DEF Passed

\* What a unit computes from the index has passed the filter.
LEMMA ComputedPasses ==
  ASSUME WellFormed(q), Plain, NEW p, p.st \in Statements, NEW x \in Computed(p, 1)
  PROVE  Passed(p.st, x)
<1> DEFINE fit == {i \in DOMAIN db.inst : Accepts(NameFilter(p.st, 1), i)}
<1>1. Kind(p.st, 1) \in {"name", "unit", "bare", "namespace"}
  BY PlainKeys
<1>2. x = Query(p, NameFilter(p.st, 1))
  BY <1>1 DEF Computed, CommandFilter
<1>3. \A i \in fit : Accepts(q.accept[p.st], i)
  BY DEF NameFilter, Accepts
<1>4. Query(p, NameFilter(p.st, 1)) = FindSymbol(fit, p.parents, p.children, LocalEph(p))
  BY DEF Query
<1> HIDE DEF fit
<1> QED BY <1>2, <1>3, <1>4, QueryPasses

\* What a notification leaves of a selection has passed the filter.
LEMMA NotificationPasses ==
  ASSUME Typing, Plain, AllPassed, NEW d \in Statements
  PROVE  /\ \A x \in FromChildren(d, 1) : Passed(d, x)
         /\ \A role \in {"Child", "User"} : \A x \in Accepted(d, 1, role) : Passed(d, x)
<1>1. /\ reg[d][1] \in Optional /\ \A x \in reg[d][1] : Passed(d, x)
      /\ Kind(d, 1) \notin {"forced", "useForced"} /\ ~Uses(d, 1)
  BY PlainKeys DEF Typing, TypedPlan, TypedRegistry, Registry, AllPassed
<1>2. ASSUME reg[d][1] # {}, NEW dep, NEW role \in {"Parent", "Child", "User"}, NEW rel
      PROVE  Passed(d, ConstrainSelection(Only(reg[d][1]), dep, role, rel))
  <2>1. Only(reg[d][1]) \in Selections /\ Only(reg[d][1]) \in reg[d][1]
    BY <1>1, <1>2, OptionalType
  <2>2. ConstrainSelection(Only(reg[d][1]), dep, role, rel).nodes \subseteq Only(reg[d][1]).nodes
    BY <2>1, ConstraintType
  <2> QED BY <1>1, <2>1, <2>2 DEF Passed
<1>3. ASSUME NEW ids, NEW parents, NEW children
      PROVE  Passed(d, ById(ids, d, parents, children))
  <2> DEFINE fit == {i \in ids : Accepts(q.accept[d], i)}
  <2>1. \A i \in fit : Accepts(q.accept[d], i)
    OBVIOUS
  <2>2. ById(ids, d, parents, children) = FindSymbol(fit, parents, children, eph)
    BY DEF ById, CommandFilter
  <2> HIDE DEF fit
  <2> QED BY <2>1, <2>2, QueryPasses
<1>4. \A x \in FromChildren(d, 1) : Passed(d, x)
  <2> DEFINE kids == Merged(d)
             ids == FindParentInstanceIds(kids.nodes, q.rel[cur], q.unnest[d], eph)
  <2>1. FromChildren(d, 1) =
          IF reg[d][1] # {} THEN {ConstrainSelection(Only(reg[d][1]), kids, "Parent", q.rel[cur])}
          ELSE {ById(ids, d, ParentScope(d), Scope(kids.nodes, {}))}
    BY DEF FromChildren
  <2> QED BY <1>2, <1>3, <2>1
<1>5. ASSUME NEW role \in {"Child", "User"}, NEW x \in Accepted(d, 1, role)
      PROVE  Passed(d, x)
  <2>1. CASE Constrained(d, 1, role)
    <3>1. reg[d][1] # {}
      BY <2>1 DEF Constrained, Derives
    <3>2. x = ConstrainSelection(Only(reg[d][1]), Only(GetSelection(cur)), role,
                IF role = "Child" THEN q.rel[d] ELSE q.rel[cur])
      BY <1>5, <2>1 DEF Accepted
    <3> QED BY <1>2, <3>1, <3>2
  <2>2. CASE ~Constrained(d, 1, role) /\ ~Derives(d, 1, role)
    BY <1>1, <1>5, <2>2 DEF Accepted
  <2>3. CASE ~Constrained(d, 1, role) /\ Derives(d, 1, role) /\ role = "Child"
    <3>1. x = ById(FindChildInstanceIds(IdsOf(GetSelection(cur)), q.rel[d], q.unnest[d], eph),
                   d, ParentScope(d), ChildrenScope(d))
      BY <1>1, <1>5, <2>3 DEF Accepted, FromParent
    <3> QED BY <1>3, <3>1
  <2>4. CASE Derives(d, 1, role) /\ role = "User"
    BY <1>1, <2>4 DEF Derives, Addressed
  <2> QED BY <2>1, <2>2, <2>3, <2>4
<1> QED BY <1>4, <1>5

\* A step that stores only what passes keeps the invariant.
LEMMA PassedUpdate ==
  ASSUME UNCHANGED plan, Plain => db' = db,
         Plain => \A s \in Statements : \A x \in reg'[s][1] : Passed(s, x)
  PROVE  AllPassed'
<1>1. Plain' = Plain /\ Statements' = Statements /\ q' = q
  BY SamePlain
<1>2. Plain => \A s, x : Passed(s, x)' = Passed(s, x)
  BY <1>1 DEF Passed, Accepts, SymOf
<1> QED BY <1>1, <1>2 DEF AllPassed

\* No step of the executor stores what the statement's filters refuse.
LEMMA AllPassedNext ==
  ASSUME Typing, RowsLoaded, AllPassed, [Next]_vars
  PROVE  AllPassed'
<1>1. CASE Push
  BY <1>1, PassedUpdate DEF Push, AllPassed
<1>2. CASE Materialise
  <2>1. UNCHANGED <<plan, reg>>
    BY <1>2 DEF Materialise
  <2> QED BY <1>2, <2>1, NothingMaterialises, PassedUpdate DEF AllPassed
<1>3. CASE Drain
  <2>1. UNCHANGED <<db, plan>>
    BY <1>3 DEF Drain
  <2>2. TypedPlan /\ TypedRoots /\ WellFormed(q)
    BY DEF Typing, TypedPlan
  <2>3. ASSUME Plain, NEW s \in Statements, NEW x \in reg'[s][1]
        PROVE  Passed(s, x)
    <3>1. CASE \A p \in pending : p.st # s
      <4>1. reg'[s] = reg[s]
        BY <1>3, <2>2, <3>1, DrainResult
      <4> QED BY <2>3, <4>1 DEF AllPassed
    <3>2. ASSUME NEW p \in pending, p.st = s
          PROVE  Passed(s, x)
      <4>1. reg'[s] = [k \in Keys(s) |-> Computed(p, k)] /\ Keys(s) = {1}
        BY <1>3, <2>2, <2>3, <3>2, DrainResult, PlainKeys
      <4> QED BY <2>2, <2>3, <3>2, <4>1, ComputedPasses
    <3> QED BY <3>1, <3>2
  <2> QED BY <2>1, <2>3, PassedUpdate
<1>4. CASE Seed
  BY <1>4, PassedUpdate DEF Seed, AllPassed
<1>5. CASE PopNext
  <2>1. UNCHANGED <<db, plan>>
    BY <1>5 DEF PopNext
  <2>2. ASSUME Plain, NEW s \in Statements
        PROVE  reg'[s][1] = reg[s][1]
    BY <1>5, <2>2, PlainPop
  <2> QED BY <2>1, <2>2, PassedUpdate DEF AllPassed
<1>6. CASE NotifyParent
  <2>1. PICK p \in Statements :
           /\ p = Dependent.st
           /\ \/ Notified(reg[p], FALSE, {})
              \/ Notified(FromKids(p), KidsChange(p), {k \in Keys(p) : reg[p][k] # {}})
    BY <1>6, ParentSteps
  <2>2. /\ UNCHANGED <<db, plan>> /\ DOMAIN reg = Statements
        /\ reg' = [reg EXCEPT ![p] = reg[p]] \/ reg' = [reg EXCEPT ![p] = FromKids(p)]
    BY <2>1 DEF Notified, Typing, TypedRegistry, Registry
  <2>3. Plain => FromKids(p)[1] = FromChildren(p, 1)
    BY PlainKeys DEF FromKids, Typing, TypedPlan
  <2>4. Plain => \A s \in Statements : \A x \in reg'[s][1] : Passed(s, x)
    BY <2>2, <2>3, NotificationPasses DEF AllPassed
  <2> QED BY <2>2, <2>4, PassedUpdate
<1>7. CASE NotifyOther
  <2>1. PICK d \in Statements, role \in {"Child", "User"} :
           /\ d = Dependent.st
           /\ Notified(FromKin(d, role), KinChange(d, role),
                       {k \in Keys(d) : Constrained(d, k, role) /\ ~Uses(d, k)})
    BY <1>7, KinSteps
  <2>2. /\ UNCHANGED <<db, plan>> /\ DOMAIN reg = Statements
        /\ reg' = [reg EXCEPT ![d] = FromKin(d, role)]
    BY <2>1 DEF Notified, Typing, TypedRegistry, Registry
  <2>3. Plain => FromKin(d, role)[1] = Accepted(d, 1, role)
    BY PlainKeys DEF FromKin, Typing, TypedPlan
  <2>4. Plain => \A s \in Statements : \A x \in reg'[s][1] : Passed(s, x)
    BY <2>2, <2>3, NotificationPasses DEF AllPassed
  <2> QED BY <2>2, <2>4, PassedUpdate
<1>8. CASE Outcome
  <2>1. UNCHANGED <<db, plan>> /\ reg' = reg
    BY <1>8, OutcomeFrame
  <2> QED BY <2>1, PassedUpdate DEF AllPassed
<1> QED BY <1>1, <1>2, <1>3, <1>4, <1>5, <1>6, <1>7, <1>8, Steps

\* Nothing is stored at the start.
LEMMA AllPassedInit == Init => AllPassed
<1> SUFFICES ASSUME Init, Plain PROVE \A s \in Statements : \A x \in reg[s][1] : Passed(s, x)
  BY DEF AllPassed
<1>1. PICK case \in Cases : q = case.q /\ db = case.db
  BY DEF Init
<1>2. WellFormed(q)
  BY <1>1, CasesAssumption
<1>3. \A s \in Statements : reg[s][1] = {}
  BY <1>2, PlainKeys DEF Init
<1> QED BY <1>3

\* Whatever a statement holds, its own filters accept.
LEMMA NodesArePassed == Spec => []AllPassed
BY AllPassedInit, AllPassedNext, ExecutorTyped, RowsAreLoaded, PTL DEF Spec

-----------------------------------------------------------------------------
(* The query stays the one that the parser built.                          *)

\* No step changes the query, which stays the one the parser built.
LEMMA ParsedInvariance == Spec => []Parsed
<1>1. Init => Parsed
  BY ParsedAssumption DEF Init, Parsed, Source
<1>2. Parsed /\ [Next]_vars => Parsed'
  <2> SUFFICES ASSUME Parsed, [Next]_vars PROVE q' = q
    BY DEF Parsed, Source
  <2>1. CASE UNCHANGED vars
    BY <2>1 DEF vars, plan
  <2> QED
    BY <2>1 DEF Next, Step, Push, PushPanics, Materialise, Drain, Seed, PopNext, NotifyParent,
                NotifyOther, Notified, UseUnresolved, Finish, FinishWithoutImplicit, Answer,
                Abort, Ended, vars, plan
<1> QED BY <1>1, <1>2, PTL DEF Spec

\* A scope relates its statements to the enclosing one as the nearest has,
\* refs or derive around it says, and by references where none speaks:
\* ParserContext hands the relationship down through every level of the
\* forest, from the preamble to the last scope.
THEOREM ScopesRelate == QuerySpec => []RelationshipScope
<1>1. Parsed => RelationshipScope
  BY ParsedRelates
<1> QED BY <1>1, QueryRunsExecutor, ParsedInvariance, PTL

\* What a statement answers with has passed every filter of the statement
\* and those handed down to it, whatever notified it and whichever later
\* verb displaced an earlier one of its command.
THEOREM FiltersAreObeyed == QuerySpec => []FiltersHold
<1>1. Parsed /\ Typing /\ AllPassed => FiltersHold
  <2> SUFFICES ASSUME Parsed, Typing, AllPassed, Plain,
                      NEW s \in Statements, NEW i \in Nodes(s)
               PROVE  LET own == With({s}, TypeKinds)
                          out == With(Enclosing(s), TypeKinds)
                          verb == LastOf(IF own # {} THEN s ELSE Nearest(out), TypeKinds)
                      IN /\ \A t \in Enclosing(s) \cup {s} : \A k \in DOMAIN VerbsAt(t) :
                              VerbsAt(t)[k].v = "ignore" => db.sym[SymOf(i)].name \in VerbsAt(t)[k].names
                         /\ own # {} \/ (out # {} /\ verb.inherit) =>
                              db.sym[SymOf(i)].type \in CompositeFilter(verb).types
    BY DEF FiltersHold, Plain, TypeKinds
  <2>1. Accepts(q.accept[s], i)
    <3>1. PICK x \in reg[s][1] : i \in x.nodes
      BY PlainSelection DEF IdsOf
    <3> QED BY <3>1 DEF AllPassed, Passed
  <2>2. db.sym[SymOf(i)].name \in q.accept[s].names /\ db.sym[SymOf(i)].type \in q.accept[s].types
    BY <2>1 DEF Accepts
  <2>3. ASSUME NEW t \in Enclosing(s) \cup {s}, NEW k \in DOMAIN VerbsAt(t),
               VerbsAt(t)[k].v = "ignore"
        PROVE  db.sym[SymOf(i)].name \in VerbsAt(t)[k].names
    BY <2>2, <2>3, IgnoresHold
  <2> DEFINE own == With({s}, TypeKinds)
             out == With(Enclosing(s), TypeKinds)
             verb == LastOf(IF own # {} THEN s ELSE Nearest(out), TypeKinds)
  <2>4. own # {} \/ (out # {} /\ verb.inherit) => q.accept[s].types \subseteq CompositeFilter(verb).types
    BY TypesHold
  <2> HIDE DEF own, out, verb
  <2>5. own # {} \/ (out # {} /\ verb.inherit) => db.sym[SymOf(i)].type \in CompositeFilter(verb).types
    BY <2>2, <2>4
  <2> QED BY <2>3, <2>5 DEF own, out, verb
<1> QED BY <1>1, QueryRunsExecutor, ParsedInvariance, ExecutorTyped, NodesArePassed, PTL
=============================================================================
