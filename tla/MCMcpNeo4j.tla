----------------------------- MODULE MCMcpNeo4j ------------------------------
(***************************************************************************)
(* Two calls at once on an MCP server whose Neo4j holds a node of one      *)
(* model and a node of another, joined or not.                             *)
(***************************************************************************)
EXTENDS McpNeo4j

CONSTANTS Person, Team, Member    \* node models Person and Team, Member between them

MCFromModel == [m \in {Member} |-> Person]
MCToModel == [m \in {Member} |-> Team]

EmptyGraph == [nodes |-> [n \in NodeIds |-> None], rels |-> [r \in RelIds |-> None]]
Populated == [EmptyGraph EXCEPT !.nodes = [@ EXCEPT ![1] = Person, ![2] = Team]]
MCGraphs == {Populated}

MCTemplates == {{Person}, None}

DefineOp(m) == [op |-> "define", model |-> m]
CreateOp(m, ref) == [op |-> "node_create", model |-> m, ref |-> ref]
ById(op, m, id) == [op |-> op, model |-> m, id |-> id]
Join(from, to) == [op |-> "edge_create", model |-> Member, from |-> from, to |-> to]

Tool(tool, ops) == [tool |-> tool, ops |-> ops, allow_deletes |-> tool # "grm_batch_write", atomic |-> TRUE]

Definitions == {Tool("define", <<DefineOp(Team)>>), Tool("checkpoint", <<>>)}
Singles == {Tool("single", <<op>>) :
              op \in {CreateOp(Person, FALSE), ById("node_delete", Team, 2), Join(1, 2), Join(1, 1), ById("edge_delete", Member, 11)}}
MCBatches ==
  {Tool("grm_batch_write", <<DefineOp(Team), DefineOp(Member), CreateOp(Person, TRUE), Join(None, 2)>>),
   Tool("grm_batch_write", <<CreateOp(Person, TRUE), CreateOp(Person, TRUE)>>),
   Tool("grm_batch_destructive", <<ById("node_update", Person, 1), ById("node_delete", Team, 2)>>),
   [Tool("grm_batch", <<ById("edge_update", Member, 11), ById("edge_delete", Member, 11)>>)
      EXCEPT !.allow_deletes = FALSE],
   [Tool("grm_batch", <<DefineOp(Team)>>) EXCEPT !.atomic = FALSE],
   Tool("grm_batch_write", <<ById("node_delete", Person, 1)>>)}

\* For ids that are handed out again: everything is defined, nodes come and go.
AllDefined == {{Person, Team, Member}}
ReuseRequests ==
  {Tool("single", <<op>>) : op \in {CreateOp(Person, FALSE), ById("node_delete", Team, 2), Join(1, 2)}}

MCRequests == Definitions \cup Singles \cup MCBatches
=============================================================================
