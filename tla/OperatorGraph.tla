---------------------------- MODULE OperatorGraph ----------------------------
(***************************************************************************)
(* The graph of the operators of a stage (StageOperatorGraph of            *)
(* StageDetail.jsx).  The page gets the plan of the stage, a tree of plan  *)
(* nodes, and a list of operators in any order, each with the plan node it *)
(* comes from, its pipeline and its place in the pipeline; it puts the     *)
(* pipelines together again by walking the tree.                           *)
(*                                                                         *)
(* The stage is built up from its leaves as the workers' planner does      *)
(* (LocalExecutionPlanner): a leaf starts a pipeline, a node adds          *)
(* operators at the end of the pipeline it reads from, a join ends the     *)
(* pipeline of its build side, a local exchange ends the pipelines of its  *)
(* sources and starts one, and a RIGHT or FULL join gets one more pipeline *)
(* for the rows of its build side that match nothing.                      *)
(***************************************************************************)
EXTENDS Integers, SequencesExt

CONSTANT MaxNodes  \* bound: nodes of the plan

VARIABLES
  nodes,      \* the plan: a sequence of [type, sources]; a node is its index
  operators,  \* the operators of the plan: [node, pipeline, id]
  roots,      \* the nodes that no node reads from yet
  pipelineOf, \* the pipeline the rows of each node come from
  buildOuter  \* the RIGHT and FULL joins

vars == <<nodes, operators, roots, pipelineOf, buildOuter>>

Init ==
  /\ nodes = <<>> /\ operators = {} /\ roots = {}
  /\ pipelineOf = <<>> /\ buildOuter = {}

-----------------------------------------------------------------------------
(* The stage, as the planner of the workers makes it.                      *)

New == Len(nodes) + 1

(* Pipelines have numbers; which ones does not matter.                     *)
NewPipeline == New

NextId(pipeline) == Cardinality({o \in operators : o.pipeline = pipeline})

OperatorAt(node, pipeline, skip) ==
  [node |-> node, pipeline |-> pipeline, id |-> NextId(pipeline) + skip]

AddNode(type, sources, pipeline, added) ==
  /\ Len(nodes) < MaxNodes
  /\ nodes' = Append(nodes, [type |-> type, sources |-> sources])
  /\ operators' = operators \cup added
  /\ roots' = (roots \ Range(sources)) \cup {New}
  /\ pipelineOf' = Append(pipelineOf, pipeline)

(* A scan has an operator, or none when the projection above it does the   *)
(* scanning.                                                               *)
Leaf ==
  /\ \E n \in 0..1 :
       AddNode("TableScanNode", <<>>, NewPipeline,
               {OperatorAt(New, NewPipeline, i) : i \in 0..(n - 1)})
  /\ UNCHANGED buildOuter

(* A node that adds up to two operators, or, as a filter that is part of   *)
(* the projection above it, none.                                          *)
Unary ==
  /\ \E source \in roots, n \in 0..2 :
       AddNode("ProjectNode", <<source>>, pipelineOf[source],
               {OperatorAt(New, pipelineOf[source], i) : i \in 0..(n - 1)})
  /\ UNCHANGED buildOuter

(* The sources whose pipelines have begun.                                 *)
Planned == {source \in roots : NextId(pipelineOf[source]) > 0}

(* The build side ends with the operator that fills the lookup source, and *)
(* before it one that collects a dynamic filter, if the plan asks for it.  *)
Join ==
  /\ \E probe \in Planned : \E build \in Planned \ {probe}, last \in 0..1 :
       AddNode("JoinNode", <<probe, build>>, pipelineOf[probe],
               {OperatorAt(New, pipelineOf[probe], 0)}
                 \cup {OperatorAt(New, pipelineOf[build], i) : i \in 0..last})
  /\ buildOuter' \in {buildOuter, buildOuter \cup {New}}

LocalExchange ==
  /\ \E some \in SUBSET Planned \ {{}} :
       AddNode("ExchangeNode", SetToSeq(some), NewPipeline,
               {OperatorAt(New, pipelineOf[source], 0) : source \in some}
                 \cup {OperatorAt(New, NewPipeline, 0)})
  /\ UNCHANGED buildOuter

(* A node of a type that getChildren does not know.                        *)
AssignUniqueId ==
  /\ \E source \in Planned :
       AddNode("AssignUniqueId", <<source>>, pipelineOf[source],
               {OperatorAt(New, pipelineOf[source], 0)})
  /\ UNCHANGED buildOuter

(* The page is asked for another stage.                                    *)
NextStage ==
  /\ Len(nodes) = MaxNodes
  /\ nodes' = <<>> /\ operators' = {} /\ roots' = {} /\ pipelineOf' = <<>>
  /\ buildOuter' = {}

(* The pipeline for the unmatched rows of a join: its outer operator in    *)
(* place of the join, and copies of the operators above it.                *)
LookupOuterDriver(join) ==
  {[o EXCEPT !.pipeline = MaxNodes + join] :
     o \in {o \in operators : /\ o.pipeline = pipelineOf[join]
                             /\ \E j \in operators : /\ j.node = join
                                                     /\ j.pipeline = o.pipeline
                                                     /\ j.id <= o.id}}

(* What the page gets when the plan is made.                               *)
operatorSummaries == operators \cup UNION {LookupOuterDriver(join) : join \in buildOuter}

Next == Leaf \/ Unary \/ Join \/ LocalExchange \/ AssignUniqueId \/ NextStage

Spec == Init /\ [][Next]_vars

-----------------------------------------------------------------------------
(* The page.                                                               *)

getChildren(node) ==
  IF nodes[node].type \in {"ProjectNode", "JoinNode", "ExchangeNode"}
  THEN nodes[node].sources ELSE <<>>

(* computeOperatorMap                                                      *)
OperatorsOf(node) == {o \in operatorSummaries : o.node = node}

(* The operators of a node in a pipeline, from source to sink.             *)
linkedOperators(node, pipeline) ==
  SetToSortSeq({o \in OperatorsOf(node) : o.pipeline = pipeline}, LAMBDA a, b : a.id < b.id)

(* Mutant: pipelines in which the node has no operator are dropped.        *)
OwnPipelines(node, sourceResults) ==
  IF OperatorsOf(node) = {} THEN DOMAIN sourceResults
  ELSE {o.pipeline : o \in OperatorsOf(node)}

Pipelines(node, sourceResults) ==
  DOMAIN sourceResults \cup {o.pipeline : o \in OperatorsOf(node)}

(* The results of the sources together; of two that have the same          *)
(* pipeline the first one stays.                                           *)
Together(results) == FoldLeft(LAMBDA f, g : f @@ g, <<>>, results)

(* The chain of each pipeline, from source to sink: what the "child"       *)
(* fields link.  A pipeline that a source has goes on at the node.         *)
RECURSIVE computeOperatorGraphs(_)
computeOperatorGraphs(node) ==
  LET children == getChildren(node)
      sourceResults == Together([i \in 1..Len(children) |-> computeOperatorGraphs(children[i])])
      Below(p) == IF p \in DOMAIN sourceResults THEN sourceResults[p] ELSE <<>>
  IN [p \in Pipelines(node, sourceResults) |-> Below(p) \o linkedOperators(node, p)]

(* updateD3Graph and computeD3StageOperatorGraph: each pipeline is a       *)
(* cluster with the operators of its chain and an edge between neighbours. *)
Drawn(graphs) == UNION {Range(graphs[p]) : p \in DOMAIN graphs}

Edges(graphs) ==
  UNION {{<<graphs[p][i], graphs[p][i + 1]>> : i \in 1..(Len(graphs[p]) - 1)} : p \in DOMAIN graphs}

-----------------------------------------------------------------------------
Complete == Cardinality(roots) = 1

AllKnown == \A i \in 1..Len(nodes) : nodes[i].type # "AssignUniqueId"

Root == CHOOSE r \in roots : TRUE

(* Every operator of a stage whose plan nodes are all known is drawn, each *)
(* once (computeOperatorGraphs, computeD3StageOperatorGraph).              *)
EveryOperatorDrawn ==
  Complete /\ AllKnown =>
    LET graphs == computeOperatorGraphs(Root)
    IN /\ Drawn(graphs) = operatorSummaries
       /\ \A p \in DOMAIN graphs : IsInjective(graphs[p])

(* The edges lead from each operator to the next of its pipeline, and      *)
(* nowhere else, across all plan nodes that the pipeline runs through.     *)
EdgesFollowPipelines ==
  Complete /\ AllKnown =>
    Edges(computeOperatorGraphs(Root)) =
      {e \in operatorSummaries \X operatorSummaries :
         e[1].pipeline = e[2].pipeline /\ e[2].id = e[1].id + 1}

(* "Multiple sources had the same pipeline ID" is never reported: the      *)
(* sources of a node have no pipeline in common (computeOperatorGraphs).   *)
SourcesApart ==
  \A node \in 1..Len(nodes) :
    LET children == getChildren(node)
    IN \A i, j \in 1..Len(children) :
         i # j => DOMAIN computeOperatorGraphs(children[i])
                    \cap DOMAIN computeOperatorGraphs(children[j]) = {}
=============================================================================
